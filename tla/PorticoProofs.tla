---------------------------- MODULE PorticoProofs ----------------------------
(***************************************************************************)
(* Proofs about the TLS groups of a running portico_server: they are       *)
(* swapped as HotSwap swaps tables, and a group holds what was asked for,  *)
(* for any configuration and any number of handshakes, reloads and sites.  *)
(***************************************************************************)
EXTENDS Portico, FiniteSetTheorems, TLAPS

(* What the process can do to the groups.                                  *)
CallNext(c) == Build(c, OnDisk) \/ BuildFails(c) \/ Exchange(c) \/ FreeRetired(c) \/ Retire(c)
TlsNext ==
  \/ TlsGone \/ Create(OnDisk) \/ ReloadCall \/ HandshakeStep \/ TlsDestroy
  \/ \E c \in Callers : CallNext(c)
  \/ \E e \in Sites : AddCall(e)

(* A call fits what it has done: it has a group in its hands only between  *)
(* the exchange and its end, it has a server to work on, and the other     *)
(* caller has no call under way if it is alone.                            *)
Whole(x) == x = Call(x.step, x.ask, x.undo, x.ng, x.old, x.alone)

CallFits(c) ==
  /\ Whole(call[c])
  /\ call[c].step \in {"idle", "build", "swap", "free", "retire"}
  /\ call[c].step = "idle" => call[c] = NoCall
  /\ call[c].step \in {"build", "swap"} => call[c].old = 0
  /\ call[c].step # "idle" => server = "made"
  /\ call[c].step # "idle" /\ call[c].alone => call[Other(c)] = NoCall
  /\ call[c].alone \in BOOLEAN

(* There is room for the groups that are built, and two callers are in the *)
(* swap only after a clash.                                                *)
CallsFit ==
  /\ call = [c \in Callers |-> call[c]]
  /\ \A c \in Callers : CallFits(c)
  /\ call["renewal"].ask = <<>>
  /\ swaps + Pending("main") + Pending("renewal") <= MaxGroups
  /\ ~clashed => ~(Swapping("main") /\ Swapping("renewal"))
  /\ server \in {"none", "made", "destroyed"}
  /\ swaps \in Groups /\ tls_ctx = swaps

-----------------------------------------------------------------------------
LEMMA StepsOfTls == [Next]_vars => TlsNext \/ UNCHANGED tlsVars
<1> SUFFICES ASSUME [Next]_vars PROVE TlsNext \/ UNCHANGED tlsVars
  OBVIOUS
<1> USE DEF TlsNext
<1>1. CASE StartAcme \/ Return \/ Dies
  BY <1>1 DEF StartAcme, Return, Dies
<1>2. CASE Renewal
  BY <1>2 DEF Renewal, Manager, NextPeriod, NotifyNobody, Reload, ReloadReturns,
     CreateServer, StartFails, CaValidates
<1>3. CASE Handshake \/ \E c \in Callers : ServerCall(c)
  BY Zenon, <1>3 DEF ServerCall, CallStep, CallNext, Handshake
<1>4. CASE StopAcme \/ AcmeStopped \/ DestroyServer \/ CertExpires
  BY <1>4 DEF StopAcme, AcmeStopped, DestroyServer, CertExpires
<1>5. CASE \E e \in Sites : InstallSite(e)
  BY <1>5 DEF InstallSite
<1>6. CASE UNCHANGED vars
  BY <1>6 DEF vars
<1> QED BY <1>1, <1>2, <1>3, <1>4, <1>5, <1>6 DEF Next

(* There are two callers.                                                  *)
LEMMA TwoCallers ==
  ASSUME NEW c \in Callers
  PROVE  /\ Other(c) \in Callers /\ Other(c) # c /\ Other(Other(c)) = c
         /\ Callers = {c, Other(c)}
  BY DEF Callers, Other

LEMMA CallIsWhole ==
  ASSUME NEW step, NEW ask, NEW undo, NEW ng, NEW old, NEW alone,
         NEW x, x = Call(step, ask, undo, ng, old, alone)
  PROVE  /\ x.step = step /\ x.ask = ask /\ x.undo = undo /\ x.ng = ng /\ x.old = old
         /\ x.alone = alone
         /\ Whole(x)
  BY SMT DEF Call, Whole

LEMMA NoCallIsWhole ==
  /\ Whole(NoCall) /\ NoCall.step = "idle" /\ NoCall.ask = <<>> /\ NoCall.undo = <<>>
  /\ NoCall.ng = <<>> /\ NoCall.old = 0 /\ NoCall.alone = TRUE
  BY SMT DEF Call, NoCall, Whole

(* What the beginning of a call does to the two calls,                     *)
LEMMA CallBegins ==
  ASSUME CallsFit, NEW c \in Callers, NEW ask, NEW undo, Begins(c, ask, undo)
  PROVE  LET x == call'[c]
             o == Other(c)
         IN /\ call' = [d \in Callers |-> call'[d]]
            /\ x.step = "build" /\ x.ask = ask /\ x.undo = undo /\ x.ng = <<>> /\ x.old = 0
            /\ x.alone = (call[o] = NoCall)
            /\ call[o] = NoCall => call'[o] = NoCall
            /\ /\ call'[o].step = call[o].step /\ call'[o].ask = call[o].ask
               /\ call'[o].undo = call[o].undo /\ call'[o].ng = call[o].ng
               /\ call'[o].old = call[o].old /\ call'[o].alone = (call[o] = NoCall)
            /\ Whole(call'[c]) /\ Whole(call'[o])
<1> DEFINE o == Other(c)
           free == call[o] = NoCall
<1>1. o \in Callers /\ o # c
  BY TwoCallers
<1>2. call' = [d \in Callers |->
                IF d = c THEN Call("build", ask, undo, <<>>, 0, free)
                ELSE Call(call[d].step, call[d].ask, call[d].undo, call[d].ng, call[d].old, free)]
  BY Zenon DEF Begins
<1> HIDE DEF o, free
<1>3. /\ call'[c] = Call("build", ask, undo, <<>>, 0, free)
      /\ call'[o] = Call(call[o].step, call[o].ask, call[o].undo, call[o].ng, call[o].old, free)
      /\ call' = [d \in Callers |-> call'[d]]
  BY Zenon, <1>1, <1>2
<1>4. ASSUME free PROVE call'[o] = NoCall
  <2>1. call[o] = NoCall /\ free = TRUE
    BY Zenon, <1>4 DEF free
  <2> QED BY Zenon, <1>3, <2>1, NoCallIsWhole DEF NoCall
<1>5. /\ call'[c].step = "build" /\ call'[c].ask = ask /\ call'[c].undo = undo
      /\ call'[c].ng = <<>> /\ call'[c].old = 0 /\ call'[c].alone = free /\ Whole(call'[c])
  BY SMT, <1>3, CallIsWhole
<1>6. /\ call'[o].step = call[o].step /\ call'[o].ask = call[o].ask
      /\ call'[o].undo = call[o].undo /\ call'[o].ng = call[o].ng
      /\ call'[o].old = call[o].old /\ call'[o].alone = free /\ Whole(call'[o])
  BY SMT, <1>3, CallIsWhole
<1> QED BY Zenon, <1>3, <1>4, <1>5, <1>6 DEF o, free

(* and what each of its steps does.                                        *)
LEMMA CallGoesOn ==
  ASSUME CallsFit, NEW c \in Callers, NEW step, NEW ng, NEW old, GoesTo(c, step, ng, old)
  PROVE  /\ call' = [d \in Callers |-> call'[d]]
         /\ call'[Other(c)] = call[Other(c)]
         /\ call'[c].step = step /\ call'[c].ask = call[c].ask /\ call'[c].undo = call[c].undo
         /\ call'[c].ng = ng /\ call'[c].old = old /\ call'[c].alone = call[c].alone
         /\ Whole(call'[c])
<1>1. Other(c) \in Callers /\ Other(c) # c
  BY TwoCallers
<1>2. call = [d \in Callers |-> call[d]]
  BY DEF CallsFit
<1>3. call' = [call EXCEPT ![c] = Call(step, call[c].ask, call[c].undo, ng, old, call[c].alone)]
  BY DEF GoesTo
<1>4. /\ call' = [d \in Callers |-> call'[d]] /\ call'[Other(c)] = call[Other(c)]
      /\ call'[c] = Call(step, call[c].ask, call[c].undo, ng, old, call[c].alone)
  BY Zenon, <1>1, <1>2, <1>3
<1> QED BY SMT, <1>4, CallIsWhole

LEMMA CallEnds ==
  ASSUME CallsFit, NEW c \in Callers, call' = [call EXCEPT ![c] = NoCall]
  PROVE  /\ call' = [d \in Callers |-> call'[d]]
         /\ call'[Other(c)] = call[Other(c)]
         /\ call'[c] = NoCall
<1>1. Other(c) \in Callers /\ Other(c) # c
  BY TwoCallers
<1>2. call = [d \in Callers |-> call[d]]
  BY DEF CallsFit
<1> QED BY Zenon, <1>1, <1>2

LEMMA CallsInit == Init => CallsFit
<1> SUFFICES ASSUME Init PROVE CallsFit
  OBVIOUS
<1>1. /\ call = [c \in Callers |-> NoCall] /\ server = "none" /\ swaps = 1 /\ tls_ctx = 1
  BY DEF Init, TlsInit
<1>2. call["main"] = NoCall /\ call["renewal"] = NoCall
  BY <1>1 DEF Callers
<1>3. ASSUME NEW c \in Callers PROVE CallFits(c)
  <2>1. call[c] = NoCall /\ call[Other(c)] = NoCall
    BY <1>2 DEF Callers, Other
  <2> QED BY <2>1, NoCallIsWhole DEF CallFits
<1>4. /\ call["renewal"].ask = <<>> /\ ~Swapping("main")
      /\ Pending("main") = 0 /\ Pending("renewal") = 0
  BY <1>2, NoCallIsWhole DEF Pending, Swapping
<1>5. call = [c \in Callers |-> call[c]]
  BY Zenon, <1>1
<1> QED BY <1>1, <1>3, <1>4, <1>5, TlsAssumption DEF CallsFit, Groups

(* A step of a call keeps the calls in order,                              *)
LEMMA CallsKept ==
  ASSUME CallsFit, NEW c \in Callers, NEW o, o = Other(c), call[c].step # "idle", server' = server,
         call' = [d \in Callers |-> call'[d]], call'[o] = call[o], Whole(call'[c]),
         \/ call'[c] = NoCall
         \/ /\ call'[c].step \in {"swap", "free", "retire"}
            /\ call'[c].alone = call[c].alone /\ call'[c].ask = call[c].ask
            /\ call'[c].step = "swap" => call'[c].old = 0,
         swaps' \in Groups, tls_ctx' = swaps', swaps' + Pending(c)' <= swaps + Pending(c),
         Swapping(c)' /\ Swapping(o) => clashed', clashed => clashed'
  PROVE  CallsFit'
<1>1. o \in Callers /\ o # c /\ Other(o) = c /\ Callers = {c, o}
  BY TwoCallers
<1>2. CallFits(c) /\ CallFits(o) /\ call[c] # NoCall /\ server = "made"
  BY <1>1, NoCallIsWhole DEF CallsFit, CallFits
<1>3. CallFits(o)'
  BY <1>1, <1>2 DEF CallFits
<1>4. CallFits(c)'
  <2>1. CASE call'[c] = NoCall
    BY <2>1, NoCallIsWhole DEF CallFits
  <2>2. CASE call'[c] # NoCall
    BY <1>2, <2>2 DEF CallFits
  <2> QED BY <2>1, <2>2
<1>5. \A d \in Callers : CallFits(d)'
  BY Zenon, <1>1, <1>3, <1>4
<1>6. call'["renewal"].ask = <<>>
  <2>1. call["renewal"].ask = <<>> /\ (c = "renewal" \/ o = "renewal")
    BY <1>1 DEF CallsFit, Callers
  <2> QED BY <2>1, NoCallIsWhole
<1>7. swaps' + Pending("main")' + Pending("renewal")' <= MaxGroups
  <2>1. Pending(o)' = Pending(o)
    BY DEF Pending
  <2>2. \A d \in Callers : Pending(d) \in {0, 1} /\ Pending(d)' \in {0, 1}
    BY DEF Pending
  <2>3. swaps \in Nat /\ swaps' \in Nat /\ MaxGroups \in Nat
    BY TlsAssumption DEF CallsFit, Groups
  <2>4. (c = "main" /\ o = "renewal") \/ (c = "renewal" /\ o = "main")
    BY DEF Callers, Other
  <2>5. swaps + Pending("main") + Pending("renewal") <= MaxGroups
    BY DEF CallsFit
  <2>6. CASE c = "main" /\ o = "renewal"
    BY <1>1, <2>1, <2>2, <2>3, <2>5, <2>6
  <2>7. CASE c = "renewal" /\ o = "main"
    BY <1>1, <2>1, <2>2, <2>3, <2>5, <2>7
  <2> QED BY <2>4, <2>6, <2>7
<1>8. ~clashed' => ~(Swapping("main")' /\ Swapping("renewal")')
  <2>1. Swapping(o)' = Swapping(o)
    BY DEF Swapping
  <2>2. (c = "main" /\ o = "renewal") \/ (c = "renewal" /\ o = "main")
    BY DEF Callers, Other
  <2> QED BY Zenon, <2>1, <2>2
<1> QED BY Zenon, <1>5, <1>6, <1>7, <1>8 DEF CallsFit

(* and so does the beginning of one.                                       *)
LEMMA CallsKeptAtFirst ==
  ASSUME CallsFit, NEW c \in Callers, NEW ask, NEW undo, Begins(c, ask, undo),
         call[c] = NoCall, server = "made", UNCHANGED <<server, swaps, tls_ctx, clashed>>,
         swaps + Pending(Other(c)) < MaxGroups, c = "renewal" => ask = <<>>
  PROVE  CallsFit'
<1> DEFINE o == Other(c)
           x == call'[c]
           y == call'[o]
<1>1. o \in Callers /\ o # c /\ Other(o) = c /\ Callers = {c, o}
  BY TwoCallers
<1>2. /\ call' = [d \in Callers |-> call'[d]]
      /\ x.step = "build" /\ x.ask = ask /\ x.old = 0 /\ x.alone = (call[o] = NoCall)
      /\ call[o] = NoCall => y = NoCall
      /\ y.step = call[o].step /\ y.ask = call[o].ask /\ y.old = call[o].old
      /\ y.alone = (call[o] = NoCall) /\ Whole(x) /\ Whole(y)
  BY Zenon, CallBegins
<1>3. CallFits(o) /\ (call[o].step = "idle" <=> call[o] = NoCall)
  BY <1>1, NoCallIsWhole DEF CallsFit, CallFits
<1> HIDE DEF o, x, y
<1>4. CallFits(c)'
  <2>1. x.alone \in BOOLEAN /\ (x.alone => y = NoCall)
    BY <1>2
  <2> QED BY <1>2, <2>1 DEF CallFits, o, x, y
<1>5. CallFits(o)'
  <2>1. y.alone \in BOOLEAN /\ (y.step = "idle" => y = NoCall)
    BY <1>2, <1>3
  <2>2. ~(y.step # "idle" /\ y.alone)
    BY Zenon, <1>2, <1>3
  <2>3. /\ y.step \in {"idle", "build", "swap", "free", "retire"}
        /\ y.step \in {"build", "swap"} => y.old = 0
    BY <1>2, <1>3 DEF CallFits
  <2> QED BY Zenon, <1>2, <2>1, <2>2, <2>3 DEF CallFits, o, y
<1>6. \A d \in Callers : CallFits(d)'
  BY Zenon, <1>1, <1>4, <1>5
<1>7. (c = "main" /\ o = "renewal") \/ (c = "renewal" /\ o = "main")
  BY DEF Callers, Other, o
<1>8. call'["renewal"].ask = <<>>
  <2>1. call["renewal"].ask = <<>>
    BY DEF CallsFit
  <2> QED BY Zenon, <1>2, <1>7, <2>1 DEF x, y
<1>9. /\ Pending(c)' = 1 /\ Pending(o)' = Pending(o) /\ Pending(o) \in {0, 1}
      /\ ~Swapping(c)'
  BY <1>2 DEF Pending, Swapping, x, y
<1>10. swaps' + Pending("main")' + Pending("renewal")' <= MaxGroups
  <2>1. swaps \in Nat /\ MaxGroups \in Nat /\ swaps' = swaps
    BY TlsAssumption DEF CallsFit, Groups
  <2>2. swaps + Pending(o) < MaxGroups
    BY DEF o
  <2>3. CASE c = "main" /\ o = "renewal"
    BY <1>9, <2>1, <2>2, <2>3
  <2>4. CASE c = "renewal" /\ o = "main"
    BY <1>9, <2>1, <2>2, <2>4
  <2> QED BY <1>7, <2>3, <2>4
<1>11. ~(Swapping("main")' /\ Swapping("renewal")')
  BY Zenon, <1>7, <1>9
<1> QED BY Zenon, <1>2, <1>6, <1>8, <1>10, <1>11 DEF CallsFit

LEMMA CallsNext == CallsFit /\ (TlsNext \/ UNCHANGED tlsVars) => CallsFit'
<1> SUFFICES ASSUME CallsFit, TlsNext \/ UNCHANGED tlsVars PROVE CallsFit'
  OBVIOUS
<1>1. CASE TlsGone
  <2>1. /\ call' = [c \in Callers |-> NoCall] /\ server' = "none" /\ swaps' = 1 /\ tls_ctx' = 1
    BY <1>1 DEF TlsGone
  <2>2. call'["main"] = NoCall /\ call'["renewal"] = NoCall
    BY <2>1 DEF Callers
  <2>3. ASSUME NEW c \in Callers PROVE CallFits(c)'
    <3>1. call'[c] = NoCall /\ call'[Other(c)] = NoCall
      BY <2>2 DEF Callers, Other
    <3> QED BY <3>1, NoCallIsWhole DEF CallFits
  <2>4. /\ call'["renewal"].ask = <<>> /\ ~Swapping("main")'
        /\ Pending("main")' = 0 /\ Pending("renewal")' = 0
    BY <2>2, NoCallIsWhole DEF Pending, Swapping
  <2>5. call' = [c \in Callers |-> call'[c]]
    BY Zenon, <2>1
  <2> QED BY <2>1, <2>3, <2>4, <2>5, TlsAssumption DEF CallsFit, Groups
<1>2. ASSUME UNCHANGED <<call, swaps, tls_ctx, clashed>>,
             \/ server' = server
             \/ server' = "made"
             \/ server' = "destroyed" /\ Quiet
      PROVE  CallsFit'
  <2>1. ASSUME NEW c \in Callers PROVE CallFits(c)'
    <3>1. CallFits(c) /\ call'[c] = call[c] /\ call'[Other(c)] = call[Other(c)]
      BY <1>2 DEF CallsFit
    <3>2. Quiet => call[c].step = "idle"
      BY NoCallIsWhole DEF Quiet
    <3> QED BY <1>2, <3>1, <3>2 DEF CallFits
  <2>2. /\ Pending("main")' = Pending("main") /\ Pending("renewal")' = Pending("renewal")
        /\ Swapping("main")' = Swapping("main") /\ Swapping("renewal")' = Swapping("renewal")
    BY <1>2 DEF Pending, Swapping
  <2>3. server' \in {"none", "made", "destroyed"}
    BY <1>2 DEF CallsFit
  <2> QED BY Zenon, <1>2, <2>1, <2>2, <2>3 DEF CallsFit
<1>3. CASE Create(OnDisk) \/ TlsDestroy \/ HandshakeStep \/ UNCHANGED tlsVars
  <2>1. UNCHANGED <<call, swaps, tls_ctx, clashed>>
    BY <1>3 DEF Create, TlsDestroy, HandshakeStep, ConnNew, HelloOrEnd, tlsVars, auxVars
  <2>2. server' = server \/ server' = "made" \/ (server' = "destroyed" /\ Quiet)
    BY <1>3 DEF Create, TlsDestroy, HandshakeStep, ConnNew, HelloOrEnd, tlsVars
  <2> QED BY Zenon, <1>2, <2>1, <2>2
<1>4. CASE ReloadCall
  <2>1. /\ Begins("renewal", <<>>, <<>>) /\ call["renewal"] = NoCall /\ server = "made"
        /\ UNCHANGED <<server, swaps, tls_ctx, clashed>>
        /\ swaps + Pending(Other("renewal")) < MaxGroups
    BY <1>4 DEF ReloadCall, auxVars, Other
  <2>2. "renewal" \in Callers
    BY DEF Callers
  <2> QED BY Zenon, <2>1, <2>2, CallsKeptAtFirst
<1>5. ASSUME NEW e \in Sites, AddCall(e) PROVE CallsFit'
  <2>1. /\ Begins("main", <<e>>, rt_sni) /\ call["main"] = NoCall /\ server = "made"
        /\ UNCHANGED <<server, swaps, tls_ctx, clashed>>
        /\ swaps + Pending("renewal") <= MaxAdds
    BY <1>5 DEF AddCall, auxVars
  <2>2. "main" \in Callers /\ Other("main") = "renewal"
    BY DEF Callers, Other
  <2>3. swaps + Pending(Other("main")) < MaxGroups
    <3>1. swaps \in Nat /\ Pending("renewal") \in Nat /\ MaxGroups \in Nat /\ MaxAdds \in Nat
          /\ MaxAdds < MaxGroups
      BY TlsAssumption DEF CallsFit, Groups, Pending
    <3> QED BY <2>1, <2>2, <3>1
  <2> QED BY <2>1, <2>2, <2>3, CallsKeptAtFirst
<1>6. ASSUME NEW c \in Callers, CallNext(c) PROVE CallsFit'
  <2>1. PICK o : o = Other(c)
    OBVIOUS
  <2>2. CallFits(c) /\ swaps \in Groups /\ tls_ctx = swaps
    BY DEF CallsFit
  <2>3. CASE Build(c, OnDisk)
    <3>1. PICK ng : GoesTo(c, "swap", ng, call[c].old)
      BY <2>3 DEF Build
    <3>2. call[c].step = "build" /\ UNCHANGED <<server, swaps, tls_ctx, clashed>> /\ call[c].old = 0
      BY <2>2, <2>3 DEF Build, auxVars, CallFits
    <3>3. /\ call' = [d \in Callers |-> call'[d]] /\ call'[o] = call[o] /\ Whole(call'[c])
          /\ call'[c].step = "swap" /\ call'[c].alone = call[c].alone
          /\ call'[c].ask = call[c].ask /\ call'[c].old = 0
      BY <2>1, <3>1, <3>2, CallGoesOn
    <3>4. swaps' + Pending(c)' <= swaps + Pending(c) /\ ~Swapping(c)'
      BY <2>2, <3>2, <3>3 DEF Pending, Swapping, Groups
    <3> QED BY <2>1, <2>2, <3>2, <3>3, <3>4, CallsKept
  <2>4. CASE BuildFails(c) \/ Retire(c)
    <3>1. /\ call' = [call EXCEPT ![c] = NoCall] /\ call[c].step # "idle"
          /\ UNCHANGED <<server, swaps, tls_ctx, clashed>>
      BY <2>4 DEF BuildFails, Retire, auxVars
    <3>2. call' = [d \in Callers |-> call'[d]] /\ call'[o] = call[o] /\ call'[c] = NoCall
      BY Zenon, <2>1, <3>1, CallEnds
    <3>3. swaps' + Pending(c)' <= swaps + Pending(c) /\ ~Swapping(c)' /\ Whole(call'[c])
      BY <2>2, <3>1, <3>2, NoCallIsWhole DEF Pending, Swapping, Groups
    <3> QED BY <2>1, <2>2, <3>1, <3>2, <3>3, CallsKept
  <2>5. CASE Exchange(c)
    <3>1. /\ GoesTo(c, "free", <<>>, tls_ctx) /\ call[c].step = "swap"
          /\ swaps' = swaps + 1 /\ tls_ctx' = swaps + 1 /\ server' = server
          /\ clashed' = (clashed \/ call[o].step \in {"free", "retire"})
      BY <2>1, <2>5 DEF Exchange
    <3>2. /\ call' = [d \in Callers |-> call'[d]] /\ call'[o] = call[o] /\ Whole(call'[c])
          /\ call'[c].step = "free" /\ call'[c].alone = call[c].alone /\ call'[c].ask = call[c].ask
      BY <2>1, <3>1, CallGoesOn
    <3>3. swaps' + Pending(c)' <= swaps + Pending(c)
      BY <2>2, <3>1, <3>2 DEF Pending, Groups
    <3>4. Swapping(o) \/ clashed => clashed'
      BY Zenon, <3>1 DEF Swapping
    <3>5. swaps' \in Groups
      <4>1. Pending(c) = 1 /\ \A d \in Callers : Pending(d) \in {0, 1}
        BY <3>1 DEF Pending
      <4>2. swaps + 1 <= MaxGroups
        BY <2>2, <4>1, TlsAssumption DEF CallsFit, Callers, Groups
      <4> QED BY <2>2, <3>1, <4>2, TlsAssumption DEF Groups
    <3> QED BY <2>1, <2>2, <3>1, <3>2, <3>3, <3>4, <3>5, CallsKept
  <2>6. CASE FreeRetired(c)
    <3>1. /\ GoesTo(c, "retire", <<>>, call[c].old) /\ call[c].step = "free"
          /\ UNCHANGED <<server, swaps, tls_ctx, clashed>>
      BY <2>6 DEF FreeRetired, auxVars
    <3>2. /\ call' = [d \in Callers |-> call'[d]] /\ call'[o] = call[o] /\ Whole(call'[c])
          /\ call'[c].step = "retire" /\ call'[c].alone = call[c].alone /\ call'[c].ask = call[c].ask
      BY <2>1, <3>1, CallGoesOn
    <3>3. swaps' + Pending(c)' <= swaps + Pending(c)
      BY <2>2, <3>1, <3>2 DEF Pending, Groups
    <3>4. Swapping(o) => clashed'
      <4>1. Swapping(c) /\ ((c = "main" /\ o = "renewal") \/ (c = "renewal" /\ o = "main"))
        BY <2>1, <3>1 DEF Swapping, Callers, Other
      <4>2. ~clashed => ~(Swapping("main") /\ Swapping("renewal"))
        BY DEF CallsFit
      <4> QED BY Zenon, <3>1, <4>1, <4>2
    <3> QED BY <2>1, <2>2, <3>1, <3>2, <3>3, <3>4, CallsKept
  <2> QED BY Zenon, <1>6, <2>3, <2>4, <2>5, <2>6 DEF CallNext
<1> QED BY Zenon, <1>1, <1>3, <1>4, <1>5, <1>6 DEF TlsNext

LEMMA CallsInvariance == Spec => []CallsFit
  BY CallsInit, CallsNext, StepsOfTls, PTL DEF Spec

-----------------------------------------------------------------------------
(* The caller in the swap.                                                 *)
LEMMA WriterRests ==
  ASSUME CallsFit, \A c \in Callers : ~Swapping(c)
  PROVE  Writer = [step |-> "idle", old |-> 0]
<1>1. "main" \in Callers /\ "renewal" \in Callers
  BY DEF Callers
<1>2. Swapper = "renewal" /\ ~Swapping("renewal")
  BY <1>1 DEF Swapper
<1>3. call["renewal"].old = 0
  BY <1>1, NoCallIsWhole DEF CallsFit, CallFits, Swapping
<1> QED BY Zenon, <1>2, <1>3 DEF Writer

LEMMA WriterSwaps ==
  ASSUME NEW c \in Callers, Swapping(c), ~Swapping(Other(c))
  PROVE  Writer = [step |-> call[c].step, old |-> call[c].old]
<1>1. Swapper = c
  BY DEF Swapper, Callers, Other
<1> QED BY Zenon, <1>1 DEF Writer

LEMMA WriterKept ==
  ASSUME CallsFit, CallsFit',
         \A c \in Callers : \/ call'[c].step = call[c].step /\ call'[c].old = call[c].old
                            \/ ~Swapping(c) /\ ~Swapping(c)'
  PROVE  Writer' = Writer
<1>1. "main" \in Callers /\ "renewal" \in Callers
  BY DEF Callers
<1>2. \A c \in Callers : Swapping(c)' = Swapping(c)
  BY DEF Swapping
<1>3. Swapper' = Swapper /\ Swapper \in Callers
  BY Zenon, <1>1, <1>2 DEF Swapper
<1>4. ASSUME NEW c \in Callers, ~Swapping(c) PROVE call[c].old = 0 /\ call'[c].old = 0
  <2>1. ~Swapping(c)'
    BY <1>2, <1>4
  <2> QED BY <1>4, <2>1, NoCallIsWhole DEF CallsFit, CallFits, Swapping
<1>5. ASSUME NEW c \in Callers
      PROVE  [step |-> IF Swapping(c) THEN call[c].step ELSE "idle", old |-> call[c].old]'
               = [step |-> IF Swapping(c) THEN call[c].step ELSE "idle", old |-> call[c].old]
  BY Zenon, <1>2, <1>4
<1> QED BY Zenon, <1>3, <1>5 DEF Writer

LEMMA SwapInit == Init => Swap!Init
<1> SUFFICES ASSUME Init PROVE Swap!Init
  OBVIOUS
<1>1. \A c \in Callers : ~Swapping(c)
  BY NoCallIsWhole DEF Init, TlsInit, Swapping
<1>2. Writer = [step |-> "idle", old |-> 0]
  BY <1>1, CallsInit, WriterRests
<1> QED BY <1>2 DEF Init, TlsInit, Swap!Init, Swap!Resting, Groups, Swap!Tables

LEMMA SwapRestarts == ASSUME CallsFit', TlsGone PROVE Swap!Restart
<1>1. \A c \in Callers : ~Swapping(c)'
  BY NoCallIsWhole DEF TlsGone, Swapping
<1>2. Writer' = [step |-> "idle", old |-> 0]
  <2>1. "main" \in Callers /\ "renewal" \in Callers
    BY DEF Callers
  <2>2. Swapper' = "renewal" /\ ~Swapping("renewal")' /\ call'["renewal"] = NoCall
    BY Zenon, <1>1, <2>1 DEF Swapper, TlsGone
  <2> QED BY Zenon, <2>2, NoCallIsWhole DEF Writer
<1> QED BY <1>2 DEF TlsGone, Swap!Restart, Swap!Resting, Groups, Swap!Tables

LEMMA SwapNext ==
  ASSUME CallsFit, CallsFit', TlsNext \/ UNCHANGED tlsVars, ~clashed'
  PROVE  Swap!Next \/ UNCHANGED Swap!vars
<1>1. CASE TlsGone
  BY <1>1, SwapRestarts DEF Swap!Next
<1>2. CASE Create(OnDisk) \/ UNCHANGED tlsVars
  <2>1. UNCHANGED <<tls_ctx, tls_ctx_retired, swaps, freed, call, ssl>>
        /\ (server' = "destroyed") = (server = "destroyed")
    BY <1>2 DEF Create, tlsVars
  <2>2. Writer' = Writer
    BY Zenon, <2>1 DEF Writer, Swapper, Swapping
  <2> QED BY <2>1, <2>2 DEF Swap!vars
<1>3. ASSUME NEW c \in Callers, NEW ask, NEW undo, Begins(c, ask, undo), call[c] = NoCall,
             UNCHANGED <<tls_ctx, tls_ctx_retired, swaps, freed, ssl, server>>
      PROVE  UNCHANGED Swap!vars
  <2>1. /\ call'[c].step = "build" /\ call[c].step = "idle"
        /\ call'[Other(c)].step = call[Other(c)].step /\ call'[Other(c)].old = call[Other(c)].old
    BY Zenon, <1>3, CallBegins, NoCallIsWhole
  <2>2. Callers = {c, Other(c)}
    BY TwoCallers
  <2>3. ~Swapping(c) /\ ~Swapping(c)'
    BY <2>1 DEF Swapping
  <2>4. Writer' = Writer
    BY <2>1, <2>2, <2>3, WriterKept
  <2> QED BY <1>3, <2>4 DEF Swap!vars
<1>4. CASE ReloadCall
  BY Zenon, <1>3, <1>4 DEF ReloadCall, Callers
<1>5. ASSUME NEW e \in Sites, AddCall(e) PROVE UNCHANGED Swap!vars
  BY Zenon, <1>3, <1>5 DEF AddCall, Callers
<1>6. CASE TlsDestroy
  <2>1. UNCHANGED <<tls_ctx, tls_ctx_retired, swaps, call>>
    BY <1>6 DEF TlsDestroy
  <2>2. \A c \in Callers : ~Swapping(c)
    BY <1>6, NoCallIsWhole DEF TlsDestroy, Quiet, Swapping
  <2>3. Writer = [step |-> "idle", old |-> 0] /\ Writer' = Writer
    BY Zenon, <2>1, <2>2, WriterRests DEF Writer, Swapper, Swapping
  <2>4. Swap!Destroy
    BY <1>6, <2>3 DEF TlsDestroy, Swap!Destroy, Swap!Resting, Groups, Swap!Tables
  <2> QED BY <2>4 DEF Swap!Next
<1>7. CASE HandshakeStep
  <2>1. UNCHANGED <<tls_ctx, tls_ctx_retired, swaps, freed, call, server>>
    BY <1>7 DEF HandshakeStep, ConnNew, HelloOrEnd
  <2>2. Writer' = Writer
    BY Zenon, <2>1 DEF Writer, Swapper, Swapping
  <2>3. ASSUME NEW c \in Handshakes, ConnNew(c) PROVE Swap!Load(c)
    BY <2>2, <2>3 DEF ConnNew, Swap!Load, Groups, CallsFit
  <2>4. ASSUME NEW c \in Handshakes, HelloOrEnd(c) PROVE Swap!Finish(c)
    BY <2>2, <2>4 DEF HelloOrEnd, Swap!Finish
  <2> QED BY <1>7, <2>3, <2>4 DEF HandshakeStep, Swap!Next
<1>8. ASSUME NEW c \in Callers, CallNext(c) PROVE Swap!Next \/ UNCHANGED Swap!vars
  <2> DEFINE o == Other(c)
  <2>1. o \in Callers /\ Callers = {c, o} /\ CallFits(c) /\ tls_ctx = swaps /\ swaps \in Groups
    BY TwoCallers DEF CallsFit
  <2>2. ASSUME Swapping(c) \/ Swapping(c)' , call'[o] = call[o] PROVE ~Swapping(o)
    <3>1. clashed' = clashed \/ clashed' = (clashed \/ call[o].step \in {"free", "retire"})
      BY <1>8 DEF CallNext, Build, BuildFails, Exchange, FreeRetired, Retire, auxVars
    <3>2. ~clashed
      BY Zenon, <3>1
    <3>3. ~(Swapping("main") /\ Swapping("renewal")) /\ ~(Swapping("main") /\ Swapping("renewal"))'
      BY Zenon, <3>2 DEF CallsFit
    <3>4. Swapping(o)' = Swapping(o)
      BY <2>2 DEF Swapping
    <3>5. (c = "main" /\ o = "renewal") \/ (c = "renewal" /\ o = "main")
      BY DEF Callers, Other
    <3> QED BY Zenon, <2>2, <3>3, <3>4, <3>5
  <2> HIDE DEF o
  <2>3. CASE Build(c, OnDisk) \/ BuildFails(c)
    <3>1. call'[o] = call[o] /\ ~Swapping(c) /\ ~Swapping(c)'
      <4>1. CASE Build(c, OnDisk)
        <5>1. PICK ng : GoesTo(c, "swap", ng, call[c].old)
          BY ZenonT(30), <4>1 DEF Build
        <5>2. call'[c].step = "swap" /\ call'[o] = call[o]
          BY <5>1, CallGoesOn DEF o
        <5> QED BY ZenonT(30), <4>1, <5>2 DEF Swapping, Build
      <4>2. CASE BuildFails(c)
        <5>1. call'[c] = NoCall /\ call'[o] = call[o]
          BY <4>2, CallEnds DEF BuildFails, o
        <5> QED BY <4>2, <5>1, NoCallIsWhole DEF Swapping, BuildFails
      <4> QED BY <2>3, <4>1, <4>2
    <3>2. Writer' = Writer
      BY <2>1, <3>1, WriterKept
    <3> QED BY <2>3, <3>2 DEF Build, BuildFails, Swap!vars
  <2>4. CASE Exchange(c)
    <3>1. /\ GoesTo(c, "free", <<>>, tls_ctx) /\ call[c].step = "swap"
      BY <2>4 DEF Exchange
    <3>2. call'[c].step = "free" /\ call'[c].old = tls_ctx /\ call'[o] = call[o]
      BY <3>1, CallGoesOn DEF o
    <3>3. Swapping(c)' /\ ~Swapping(c) /\ server = "made"
      BY <2>1, <3>1, <3>2 DEF Swapping, CallFits
    <3>4. ~Swapping(o) /\ ~Swapping(o)'
      BY <2>2, <3>2, <3>3 DEF Swapping
    <3>5. Writer = [step |-> "idle", old |-> 0]
      BY <2>1, <3>3, <3>4, WriterRests
    <3>6. Writer' = [step |-> "free", old |-> tls_ctx]
      <4>1. Swapper' = c
        BY <3>3, <3>4 DEF Swapper, Callers, Other, o
      <4> QED BY Zenon, <3>2, <3>3, <4>1 DEF Writer
    <3>7. swaps < MaxGroups
      <4>1. swaps' = swaps + 1 /\ swaps' \in Groups
        BY <2>4 DEF Exchange, CallsFit
      <4> QED BY <2>1, <4>1, TlsAssumption DEF Groups
    <3>8. Swap!Publish
      BY <2>1, <2>4, <3>3, <3>5, <3>6, <3>7 DEF Exchange, Swap!Publish, Swap!Resting
    <3> QED BY <3>8 DEF Swap!Next
  <2>5. CASE FreeRetired(c)
    <3>1. /\ GoesTo(c, "retire", <<>>, call[c].old) /\ call[c].step = "free"
      BY <2>5 DEF FreeRetired
    <3>2. call'[c].step = "retire" /\ call'[c].old = call[c].old /\ call'[o] = call[o]
      BY <3>1, CallGoesOn DEF o
    <3>3. Swapping(c)' /\ Swapping(c)
      BY <3>1, <3>2 DEF Swapping
    <3>4. ~Swapping(o) /\ ~Swapping(o)'
      BY <2>2, <3>2, <3>3 DEF Swapping
    <3>5. Writer = [step |-> "free", old |-> call[c].old]
      BY Zenon, <3>1, <3>3, <3>4, WriterSwaps DEF o
    <3>6. Writer' = [step |-> "retire", old |-> call[c].old]
      <4>1. Swapper' = c
        BY <3>3, <3>4 DEF Swapper, Callers, Other, o
      <4> QED BY Zenon, <3>2, <3>3, <4>1 DEF Writer
    <3>7. Swap!FreeRetired
      BY <2>5, <3>5, <3>6 DEF FreeRetired, Swap!FreeRetired, Swap!Frees, Groups, Swap!Tables
    <3> QED BY <3>7 DEF Swap!Next
  <2>6. CASE Retire(c)
    <3>1. call'[c] = NoCall /\ call'[o] = call[o] /\ call[c].step = "retire"
      BY <2>6, CallEnds DEF Retire, o
    <3>2. Swapping(c) /\ ~Swapping(c)'
      BY <3>1, NoCallIsWhole DEF Swapping
    <3>3. ~Swapping(o) /\ ~Swapping(o)'
      BY <2>2, <3>1, <3>2 DEF Swapping
    <3>4. Writer = [step |-> "retire", old |-> call[c].old]
      BY Zenon, <3>1, <3>2, <3>3, WriterSwaps DEF o
    <3>5. Writer' = [step |-> "idle", old |-> 0]
      <4>1. \A d \in Callers : ~Swapping(d)'
        BY Zenon, <2>1, <3>2, <3>3
      <4>2. "main" \in Callers /\ "renewal" \in Callers
        BY DEF Callers
      <4>3. Swapper' = "renewal" /\ ~Swapping("renewal")'
        BY Zenon, <4>1, <4>2 DEF Swapper
      <4>4. call'["renewal"].old = 0
        BY <4>2, <4>3, NoCallIsWhole DEF CallsFit, CallFits, Swapping
      <4> QED BY Zenon, <4>3, <4>4 DEF Writer
    <3>6. Swap!Retire
      BY <2>6, <3>4, <3>5 DEF Retire, Swap!Retire, Swap!Resting
    <3> QED BY <3>6 DEF Swap!Next
  <2> QED BY Zenon, <1>8, <2>3, <2>4, <2>5, <2>6 DEF CallNext
<1> QED BY Zenon, <1>1, <1>2, <1>4, <1>5, <1>6, <1>7, <1>8 DEF TlsNext

(* The reloads and adds of the server swap its groups as HotSwap swaps     *)
(* tables, whatever the manager, the handshakes and crashes do meanwhile,  *)
(* until a caller enters swap_tls_group while the other one is in it.      *)
THEOREM GroupsSwapLikeTables == Spec => SwapsLikeHotSwap
<1>1. CallsFit /\ CallsFit' /\ [Next]_vars => [~clashed' => Swap!Next]_Swap!vars
  BY Zenon, StepsOfTls, SwapNext
<1> QED BY CallsInvariance, SwapInit, <1>1, PTL DEF Spec, SwapsLikeHotSwap

-----------------------------------------------------------------------------
SwapProofs == INSTANCE HotSwapProofs WITH
  Readers <- Handshakes, First <- 1, MaxTables <- MaxGroups,
  current <- tls_ctx, retired <- tls_ctx_retired, swaps <- swaps, freed <- freed,
  writer <- Writer, reading <- ssl, closed <- (server = "destroyed")

(* What the proof of HotSwap keeps, kept here until a clash; a new process *)
(* begins with groups of its own.                                          *)
SwapFits == ~clashed => SwapProofs!Inv

LEMMA SwapFitsNext == CallsFit /\ CallsFit' /\ SwapFits /\ [Next]_vars => SwapFits'
<1>1. SwapProofs!Sensible
  BY TlsAssumption DEF SwapProofs!Sensible
<1>2. Swap!vars = SwapProofs!vars
  BY DEF Swap!vars, SwapProofs!vars
<1>3. Swap!Next => SwapProofs!Next
  BY DEF Swap!Next, SwapProofs!Next, Swap!Restart, SwapProofs!Restart, Swap!Publish,
     SwapProofs!Publish, Swap!FreeRetired, SwapProofs!FreeRetired, Swap!Retire, SwapProofs!Retire,
     Swap!Destroy, SwapProofs!Destroy, Swap!Load, SwapProofs!Load, Swap!Finish, SwapProofs!Finish,
     Swap!Resting, SwapProofs!Resting, Swap!Tables, SwapProofs!Tables, Swap!Frees, SwapProofs!Frees
<1>4. (SwapProofs!Init => SwapProofs!Inv)'
  <2>1. SwapProofs!Init => SwapProofs!Inv
    BY <1>1, SwapProofs!InitInv
  <2> QED BY <2>1, PTL
<1>5. ASSUME CallsFit, CallsFit', SwapFits, [Next]_vars, ~clashed' PROVE SwapProofs!Inv'
  <2>1. TlsNext \/ UNCHANGED tlsVars
    BY <1>5, StepsOfTls
  <2>2. CASE TlsGone
    <3>1. Swap!Restart
      BY <1>5, <2>2, SwapRestarts
    <3>2. SwapProofs!Init'
      BY <3>1 DEF Swap!Restart, SwapProofs!Init, Swap!Resting, SwapProofs!Resting, Swap!Tables,
         SwapProofs!Tables
    <3> QED BY <1>4, <3>2
  <2>3. CASE ~TlsGone
    <3>1. ~clashed
      <4>1. ASSUME NEW c \in Callers, CallNext(c) PROVE ~clashed
        BY Zenon, <1>5, <4>1 DEF CallNext, Build, BuildFails, Exchange, FreeRetired, Retire, auxVars
      <4>2. ASSUME NEW e \in Sites, AddCall(e) PROVE ~clashed
        BY Zenon, <1>5, <4>2 DEF AddCall, auxVars
      <4>3. CASE Create(OnDisk) \/ ReloadCall \/ HandshakeStep \/ TlsDestroy \/ UNCHANGED tlsVars
        BY Zenon, <1>5, <4>3 DEF Create, ReloadCall, HandshakeStep, ConnNew, HelloOrEnd, TlsDestroy,
           tlsVars, auxVars
      <4> QED BY Zenon, <2>1, <2>3, <4>1, <4>2, <4>3 DEF TlsNext
    <3>2. Swap!Next \/ UNCHANGED Swap!vars
      BY Zenon, <1>5, <2>1, SwapNext
    <3>3. SwapProofs!Next \/ UNCHANGED SwapProofs!vars
      BY <1>3, <3>2 DEF Swap!vars, SwapProofs!vars
    <3> QED BY <1>1, <1>5, <3>1, <3>3, SwapProofs!NextInv DEF SwapFits
  <2> QED BY <2>2, <2>3
<1> QED BY Zenon, <1>5 DEF SwapFits

(* A handshake finds its group freed only when the group was replaced      *)
(* twice since the handshake began, and each group is freed exactly once,  *)
(* until a caller enters swap_tls_group while the other one is in it.      *)
THEOREM HandshakesKeepTheirGroup == Spec => []GroupsOutliveOneSwap
<1>1. SwapProofs!Sensible
  BY TlsAssumption DEF SwapProofs!Sensible
<1>2. Init => SwapFits
  <2> SUFFICES ASSUME Init PROVE SwapProofs!Inv
    BY DEF SwapFits
  <2>1. SwapProofs!Init
    BY SwapInit DEF Swap!Init, SwapProofs!Init, Swap!Resting, SwapProofs!Resting, Swap!Tables,
       SwapProofs!Tables
  <2> QED BY <1>1, <2>1, SwapProofs!InitInv
<1>3. SwapFits => GroupsOutliveOneSwap
  <2> SUFFICES ASSUME SwapProofs!Inv PROVE Swap!GraceOfOneSwap /\ Swap!TablesAccounted
    BY DEF SwapFits, GroupsOutliveOneSwap
  <2> USE TlsAssumption DEF SwapProofs!Inv, SwapProofs!TypeOK, SwapProofs!Chained,
      SwapProofs!FreedOnce, SwapProofs!Held, SwapProofs!Tables
  <2>1. Swap!GraceOfOneSwap
    BY SMTT(30) DEF SwapProofs!ReadersBehind, SwapProofs!ClosedQuiet, Swap!GraceOfOneSwap
  <2>2. Swap!TablesAccounted
    BY SMTT(30) DEF Swap!TablesAccounted
  <2> QED BY <2>1, <2>2
<1> QED BY CallsInvariance, SwapFitsNext, <1>2, <1>3, PTL DEF Spec

-----------------------------------------------------------------------------
(* The lists of certificates.                                              *)
LEMMA WithEntryType ==
  ASSUME NEW S, NEW rt \in Seq(S), NEW e \in S
  PROVE  WithEntry(rt, e) \in Seq(S)
<1>1. CASE \E i \in 1..Len(rt) : rt[i].host = e.host
  <2>1. \A i \in 1..Len(rt) : (IF rt[i].host = e.host THEN e ELSE rt[i]) \in S
    OBVIOUS
  <2> QED BY <1>1, <2>1 DEF WithEntry
<1>2. CASE ~\E i \in 1..Len(rt) : rt[i].host = e.host
  BY <1>2 DEF WithEntry
<1> QED BY <1>1, <1>2

(* sni_cb finds an entry of the runtime list that no earlier entry covers. *)
LEMMA PresentsFirst ==
  ASSUME NEW g, NEW rt \in Seq(Sites), NEW k \in 1..Len(rt), g.sni = AllSni(rt),
         \A i \in 1..Len(ConfigSni) : ~host_match(ConfigSni[i].host, rt[k].host),
         \A i \in 1..(k - 1) : ~host_match(rt[i].host, rt[k].host)
  PROVE  Presents(g, rt[k].host) = rt[k].cert
<1> DEFINE C == {ConfigSni[i] : i \in DOMAIN ConfigSni}
           n == Len(ConfigSni)
           match == {i \in 1..Len(g.sni) : host_match(g.sni[i].host, rt[k].host)}
<1>1. ConfigSni \in Seq(C) /\ n \in Nat
  BY TlsAssumption
<1> HIDE DEF C
<1>2. /\ Len(g.sni) = n + Len(rt)
      /\ \A i \in 1..n : g.sni[i] = ConfigSni[i]
      /\ \A i \in 1..Len(rt) : g.sni[n + i] = rt[i]
  BY <1>1 DEF AllSni
<1>3. \A i \in 1..(n + Len(rt)) : \/ i \in 1..n
                                  \/ i - n \in 1..(k - 1) /\ i - n \in 1..Len(rt) /\ i = n + (i - n)
                                  \/ n + k <= i
  BY <1>1
<1>4. ASSUME NEW i \in match PROVE n + k <= i
  <2>1. i \in 1..(n + Len(rt)) /\ host_match(g.sni[i].host, rt[k].host)
    BY <1>2
  <2>2. i \notin 1..n
    BY Zenon, <1>2, <2>1
  <2>3. ~(i - n \in 1..(k - 1) /\ i - n \in 1..Len(rt) /\ i = n + (i - n))
    BY Zenon, <1>2, <2>1
  <2> QED BY Zenon, <1>3, <2>1, <2>2, <2>3
<1>5. n + k \in match
  <2>1. n + k \in 1..Len(g.sni)
    BY <1>1, <1>2
  <2>2. host_match(g.sni[n + k].host, rt[k].host)
    BY Zenon, <1>2 DEF host_match
  <2> QED BY Zenon, <2>1, <2>2
<1>6. match \subseteq Int
  BY <1>1, <1>2
<1> HIDE DEF match
<1>7. (CHOOSE i \in match : \A j \in match : i <= j) = n + k
  <2>1. \A i \in match : (\A j \in match : i <= j) <=> i = n + k
    BY <1>1, <1>4, <1>5, <1>6
  <2> QED BY Zenon, <1>5, <2>1
<1> QED BY ZenonT(30), <1>2, <1>5, <1>7 DEF Presents, match

-----------------------------------------------------------------------------
(* The runtime list before the add under way, and the one the live group   *)
(* was built from if the call that published it was alone.                 *)
Before == IF call["main"].ask = <<>> THEN rt_sni ELSE call["main"].undo
Live == IF Pending("main") = 1 THEN Before ELSE rt_sni

(* The list, its copy in a pending add, and what was added fit together,   *)
(* and the live group and the one being built were made from them.         *)
ListsFit ==
  /\ rt_sni \in Seq(Sites) /\ added \in Seq(Sites) /\ call["main"].undo \in Seq(Sites)
  /\ \/ call["main"].ask = <<>>
     \/ \E e \in Sites : call["main"].ask = <<e>> /\ rt_sni = WithEntry(call["main"].undo, e)
  /\ server = "none" => rt_sni = <<>> /\ added = <<>>
  /\ server = "made" => added = Before

GroupsFit ==
  /\ group = [g \in Groups |-> group[g]]
  /\ server = "none" => tls_ctx = 1
  /\ server = "made" /\ ~blended => group[tls_ctx].sni = AllSni(Live)
  /\ \A c \in Callers : call[c].step = "swap" /\ call[c].alone => call[c].ng[1].sni = AllSni(rt_sni)

LEMMA ListsInit == Init => ListsFit /\ GroupsFit
<1> SUFFICES ASSUME Init PROVE ListsFit /\ GroupsFit
  OBVIOUS
<1>1. \A c \in Callers : call[c] = NoCall
  BY DEF Init, TlsInit
<1>2. "main" \in Callers
  BY DEF Callers
<1>3. call["main"].undo = <<>> /\ call["main"].ask = <<>>
  BY <1>1, <1>2, NoCallIsWhole
<1>4. ListsFit
  <2>1. rt_sni = <<>> /\ added = <<>> /\ server = "none" /\ <<>> \in Seq(Sites)
    BY DEF Init, TlsInit
  <2> QED BY <1>3, <2>1 DEF ListsFit
<1>5. GroupsFit
  BY <1>1, NoCallIsWhole DEF Init, TlsInit, GroupsFit
<1> QED BY <1>4, <1>5

(* What the renewal thread does leaves the lists alone.                    *)
LEMMA ListsRest ==
  ASSUME ListsFit, UNCHANGED <<rt_sni, added>>, server' = server \/ (server' = "made" /\ server = "none"),
         server' = "made" /\ server = "none" => call["main"] = NoCall,
         call'["main"].ask = call["main"].ask, call'["main"].undo = call["main"].undo
  PROVE  ListsFit'
<1>1. Before' = Before
  BY Zenon DEF Before
<1>2. CASE server' = server
  BY Zenon, <1>1, <1>2 DEF ListsFit
<1>3. CASE server' = "made" /\ server = "none"
  <2>1. added = rt_sni /\ Before = rt_sni
    BY <1>3, NoCallIsWhole DEF ListsFit, Before
  <2> QED BY <1>1, <1>3, <2>1 DEF ListsFit
<1> QED BY Zenon, <1>2, <1>3

LEMMA ListsNext ==
  ASSUME CallsFit, ListsFit, TlsNext \/ UNCHANGED tlsVars
  PROVE  ListsFit'
<1>0. /\ "main" \in Callers /\ "renewal" \in Callers /\ Other("main") = "renewal"
      /\ Other("renewal") = "main" /\ call["renewal"].ask = <<>> /\ CallFits("main")
  <2>1. /\ "main" \in Callers /\ "renewal" \in Callers /\ Other("main") = "renewal"
        /\ Other("renewal") = "main"
    BY DEF Callers, Other
  <2> QED BY Zenon, <2>1 DEF CallsFit
<1>1. CASE TlsGone
  <2>1. call'["main"].undo = <<>> /\ call'["main"].ask = <<>>
    BY <1>0, <1>1, NoCallIsWhole DEF TlsGone
  <2>2. rt_sni' = <<>> /\ added' = <<>> /\ server' = "none" /\ <<>> \in Seq(Sites)
    BY <1>1 DEF TlsGone
  <2> QED BY <2>1, <2>2 DEF ListsFit
<1>2. CASE Create(OnDisk) \/ HandshakeStep \/ UNCHANGED tlsVars
  <2>1. /\ UNCHANGED <<rt_sni, added, call>>
        /\ server' = server \/ (server' = "made" /\ server = "none")
    BY <1>2 DEF Create, HandshakeStep, ConnNew, HelloOrEnd, tlsVars, auxVars
  <2>2. server = "none" => call["main"] = NoCall
    BY <1>0 DEF CallFits
  <2> QED BY Zenon, <2>1, <2>2, ListsRest
<1>3. CASE ReloadCall
  <2>1. /\ UNCHANGED <<rt_sni, added, server>> /\ server = "made" /\ Begins("renewal", <<>>, <<>>)
    BY <1>3 DEF ReloadCall, auxVars
  <2>2. call'["main"].ask = call["main"].ask /\ call'["main"].undo = call["main"].undo
    BY <1>0, <2>1, CallBegins
  <2> QED BY <2>1, <2>2, ListsRest
<1>4. ASSUME NEW e \in Sites, AddCall(e) PROVE ListsFit'
  <2>1. /\ rt_sni' = WithEntry(rt_sni, e) /\ added' = added /\ server' = server /\ server = "made"
        /\ call["main"] = NoCall /\ Begins("main", <<e>>, rt_sni)
    BY <1>4 DEF AddCall, auxVars
  <2>2. call'["main"].ask = <<e>> /\ call'["main"].undo = rt_sni
    BY <1>0, <2>1, CallBegins
  <2>3. rt_sni' \in Seq(Sites)
    BY <2>1, WithEntryType DEF ListsFit
  <2>4. Before' = rt_sni /\ Before = rt_sni
    BY <2>1, <2>2, NoCallIsWhole DEF Before
  <2>5. added' = Before' /\ rt_sni' = WithEntry(call'["main"].undo, e)
    BY Zenon, <2>1, <2>2, <2>4 DEF ListsFit
  <2>6. server' = "made"
    BY <2>1
  <2>7. added' \in Seq(Sites) /\ call'["main"].undo \in Seq(Sites)
    BY Zenon, <2>1, <2>2 DEF ListsFit
  <2> QED BY Zenon, <2>2, <2>3, <2>5, <2>6, <2>7 DEF ListsFit
<1>5. CASE TlsDestroy
  <2>1. call["main"].undo = <<>> /\ call["main"].ask = <<>> /\ UNCHANGED call
    BY <1>0, <1>5, NoCallIsWhole DEF TlsDestroy, Quiet
  <2> QED BY <1>5, <2>1 DEF TlsDestroy, ListsFit, auxVars
<1>6. CASE CallNext("renewal")
  <2>1. UNCHANGED <<rt_sni, added, server>>
    BY ZenonT(30), <1>0, <1>6 DEF CallNext, Build, BuildFails, Exchange, FreeRetired, Retire, auxVars
  <2>2. call'["main"] = call["main"]
    <3>1. \/ \E step, ng, old : GoesTo("renewal", step, ng, old)
          \/ call' = [call EXCEPT !["renewal"] = NoCall]
      BY Zenon, <1>6 DEF CallNext, Build, BuildFails, Exchange, FreeRetired, Retire
    <3> QED BY <1>0, <3>1, CallGoesOn, CallEnds
  <2>3. server = "made"
    <3>1. call["renewal"].step # "idle" /\ CallFits("renewal")
      BY ZenonT(30), <1>0, <1>6 DEF CallNext, Build, BuildFails, Exchange, FreeRetired, Retire, CallsFit
    <3> QED BY <3>1 DEF CallFits
  <2> QED BY <2>1, <2>2, <2>3, ListsRest
<1>7. CASE CallNext("main")
  <2>1. server = "made"
    <3>1. call["main"].step # "idle"
      BY <1>7 DEF CallNext, Build, BuildFails, Exchange, FreeRetired, Retire
    <3> QED BY <1>0, <3>1 DEF CallFits
  <2>2. CASE Build("main", OnDisk) \/ Exchange("main") \/ FreeRetired("main")
    <3>1. UNCHANGED <<rt_sni, added, server>>
      BY <2>2 DEF Build, Exchange, FreeRetired, auxVars
    <3>2. PICK step, ng, old : GoesTo("main", step, ng, old)
      BY Zenon, <2>2 DEF Build, Exchange, FreeRetired
    <3>3. call'["main"].ask = call["main"].ask /\ call'["main"].undo = call["main"].undo
      BY <1>0, <3>2, CallGoesOn
    <3> QED BY ZenonT(30), <2>1, <3>1, <3>3, ListsRest
  <2>3. CASE BuildFails("main") \/ Retire("main")
    <3>1. call'["main"] = NoCall /\ server' = server
      BY <1>0, <2>3, CallEnds DEF BuildFails, Retire
    <3>2. call'["main"].undo = <<>> /\ call'["main"].ask = <<>> /\ Before' = rt_sni'
      BY <3>1, NoCallIsWhole DEF Before
    <3>3. CASE BuildFails("main")
      <4>1. rt_sni' = Before /\ added' = added
        BY <3>3 DEF BuildFails, Before, auxVars
      <4>2. Before \in Seq(Sites)
        BY DEF ListsFit, Before
      <4> QED BY <2>1, <3>1, <3>2, <4>1, <4>2 DEF ListsFit
    <3>4. CASE Retire("main")
      <4>1. rt_sni' = rt_sni
        BY <3>4 DEF Retire
      <4>2. added' = rt_sni
        <5>1. CASE call["main"].ask = <<>>
          BY <2>1, <3>4, <5>1 DEF Retire, ListsFit, Before
        <5>2. CASE call["main"].ask # <<>>
          <6>1. PICK e \in Sites : call["main"].ask = <<e>> /\ rt_sni = WithEntry(call["main"].undo, e)
            BY <5>2 DEF ListsFit
          <6>2. added = call["main"].undo
            BY <2>1, <5>2 DEF ListsFit, Before
          <6>3. added' = WithEntry(added, call["main"].ask[1])
            BY <3>4, <5>2 DEF Retire
          <6> QED BY <6>1, <6>2, <6>3
        <5> QED BY <5>1, <5>2
      <4> QED BY <2>1, <3>1, <3>2, <4>1, <4>2 DEF ListsFit
    <3> QED BY <2>3, <3>3, <3>4
  <2> QED BY Zenon, <1>7, <2>2, <2>3 DEF CallNext
<1> QED BY Zenon, <1>1, <1>2, <1>3, <1>4, <1>5, <1>6, <1>7 DEF TlsNext, Callers

(* A step that publishes nothing and leaves the lists and the groups.      *)
LEMMA GroupsRest ==
  ASSUME GroupsFit, UNCHANGED <<group, tls_ctx, blended>>, server' = server, Live' = Live,
         \A c \in Callers : call'[c].step = "swap" /\ call'[c].alone =>
           \/ call'[c].ng[1].sni = AllSni(rt_sni')
           \/ call[c].step = "swap" /\ call[c].alone /\ call'[c].ng = call[c].ng /\ rt_sni' = rt_sni
  PROVE  GroupsFit'
<1>1. ASSUME NEW c \in Callers, call'[c].step = "swap", call'[c].alone
      PROVE  call'[c].ng[1].sni = AllSni(rt_sni')
  BY Zenon, <1>1 DEF GroupsFit, AllSni
<1>2. AllSni(Live') = AllSni(Live)
  BY Zenon
<1>3. group' = [g \in Groups |-> group'[g]] /\ (server' = "none" => tls_ctx' = 1)
  BY Zenon DEF GroupsFit
<1>4. server' = "made" /\ ~blended' => group'[tls_ctx'].sni = AllSni(Live')
  BY Zenon, <1>2 DEF GroupsFit
<1> QED BY Zenon, <1>1, <1>3, <1>4 DEF GroupsFit, AllSni

LEMMA GroupsNext ==
  ASSUME CallsFit, CallsFit', ListsFit, GroupsFit, TlsNext \/ UNCHANGED tlsVars
  PROVE  GroupsFit'
<1>0. /\ "main" \in Callers /\ "renewal" \in Callers /\ Other("main") = "renewal"
      /\ Other("renewal") = "main" /\ Callers = {"main", "renewal"}
  BY DEF Callers, Other
<1>1. CASE TlsGone
  <2>1. \A c \in Callers : call'[c].step = "idle"
    BY <1>1, NoCallIsWhole DEF TlsGone
  <2> QED BY <1>1, <2>1 DEF TlsGone, GroupsFit
<1>2. CASE Create(OnDisk)
  <2>1. \A c \in Callers : call'[c] = NoCall /\ call[c] = NoCall
    BY <1>2 DEF Create, CallsFit, CallFits
  <2>2. Live' = <<>>
    <3>1. Pending("main")' = 0 /\ rt_sni' = <<>>
      BY ZenonT(30), <1>0, <1>2, <2>1, NoCallIsWhole DEF Pending, Create, ListsFit
    <3> QED BY <3>1 DEF Live
  <2>3. 1 \in Groups /\ tls_ctx' = 1 /\ group' = [group EXCEPT ![1] = Built(OnDisk, <<>>)]
    BY <1>2, TlsAssumption DEF Create, GroupsFit, Groups
  <2>4. group'[tls_ctx'].sni = AllSni(Live')
    <3>1. group'[1] = Built(OnDisk, <<>>)
      BY Zenon, <2>3 DEF GroupsFit
    <3>2. Built(OnDisk, <<>>).sni = AllSni(<<>>)
      BY DEF Built
    <3> QED BY Zenon, <2>2, <2>3, <3>1, <3>2
  <2>5. group' = [g \in Groups |-> group'[g]]
    BY Zenon, <2>3 DEF GroupsFit
  <2>6. \A c \in Callers : call'[c].step = "idle"
    BY <2>1, NoCallIsWhole
  <2> QED BY ZenonT(30), <2>3, <2>4, <2>5, <2>6 DEF GroupsFit, AllSni
<1>3. CASE HandshakeStep \/ UNCHANGED tlsVars
  <2>1. UNCHANGED <<group, tls_ctx, blended, server, rt_sni, call>>
    BY <1>3 DEF HandshakeStep, ConnNew, HelloOrEnd, tlsVars, auxVars
  <2>2. Live' = Live
    BY Zenon, <2>1 DEF Live, Before, Pending
  <2> QED BY Zenon, <2>1, <2>2, GroupsRest
<1>4. CASE ReloadCall
  <2>1. /\ UNCHANGED <<group, tls_ctx, blended, server, rt_sni>> /\ Begins("renewal", <<>>, <<>>)
    BY <1>4 DEF ReloadCall, auxVars
  <2>2. /\ call'["main"].ask = call["main"].ask /\ call'["main"].undo = call["main"].undo
        /\ call'["main"].step = call["main"].step /\ call'["renewal"].step = "build"
        /\ call'["main"].alone = (call["main"] = NoCall)
    BY ZenonT(30), <1>0, <2>1, CallBegins
  <2>3. Live' = Live
    BY Zenon, <2>1, <2>2 DEF Live, Before, Pending
  <2>4. call'["main"].step = "swap" => ~call'["main"].alone
    BY <2>2, NoCallIsWhole
  <2> QED BY ZenonT(30), <1>0, <2>1, <2>2, <2>3, <2>4, GroupsRest
<1>5. ASSUME NEW e \in Sites, AddCall(e) PROVE GroupsFit'
  <2>1. /\ UNCHANGED <<group, tls_ctx, blended, server>> /\ Begins("main", <<e>>, rt_sni)
        /\ call["main"] = NoCall
    BY <1>5 DEF AddCall, auxVars
  <2>2. /\ call'["main"].ask = <<e>> /\ call'["main"].undo = rt_sni /\ call'["main"].step = "build"
        /\ call'["renewal"].step = call["renewal"].step
        /\ call'["renewal"].alone = (call["renewal"] = NoCall)
    BY SMTT(30), <1>0, <2>1, CallBegins
  <2>3. Live' = rt_sni /\ Live = rt_sni
    BY <2>1, <2>2, NoCallIsWhole DEF Live, Before, Pending
  <2>4. call'["renewal"].step = "swap" => ~call'["renewal"].alone
    BY ZenonT(30), <2>2, NoCallIsWhole
  <2> QED BY ZenonT(30), <1>0, <2>1, <2>2, <2>3, <2>4, GroupsRest
<1>6. CASE TlsDestroy
  <2>1. \A c \in Callers : call'[c].step = "idle"
    BY <1>6, NoCallIsWhole DEF TlsDestroy, Quiet
  <2> QED BY <1>6, <2>1 DEF TlsDestroy, GroupsFit
<1>7. ASSUME NEW c \in Callers, CallNext(c) PROVE GroupsFit'
  <2> DEFINE o == Other(c)
  <2>1. o \in Callers /\ Callers = {c, o} /\ c # o /\ Other(o) = c
    BY TwoCallers
  <2>2. CallFits(c) /\ CallFits(o) /\ call[c].step # "idle" /\ server = "made" /\ server' = server
    BY ZenonT(30), <1>7, <2>1
       DEF CallsFit, CallNext, Build, BuildFails, Exchange, FreeRetired, Retire, CallFits
  <2>3. call[c].alone => call[o] = NoCall
    BY ZenonT(30), <2>2 DEF CallFits
  <2>4. call[o].step = "swap" => ~call[o].alone
    BY ZenonT(30), <2>1, <2>2, NoCallIsWhole DEF CallFits
  <2>5. call["renewal"].ask = <<>> /\ call["renewal"].alone \in BOOLEAN
    BY ZenonT(30), <1>0 DEF CallsFit, CallFits
  <2>6. (c = "main" /\ o = "renewal") \/ (c = "renewal" /\ o = "main")
    BY DEF Callers, Other
  <2> HIDE DEF o
  <2>7. CASE Build(c, OnDisk)
    <3>1. PICK rt \in Seen(c) : GoesTo(c, "swap", <<Built(OnDisk, rt)>>, call[c].old)
      BY ZenonT(30), <2>7 DEF Build
    <3>2. /\ call'[o] = call[o] /\ call'[c].step = "swap" /\ call'[c].ask = call[c].ask
          /\ call'[c].undo = call[c].undo /\ call'[c].alone = call[c].alone
          /\ call'[c].ng = <<Built(OnDisk, rt)>>
      BY <3>1, CallGoesOn DEF o
    <3>3. UNCHANGED <<group, tls_ctx, blended, rt_sni>> /\ call[c].step = "build"
      BY <2>7 DEF Build, auxVars
    <3>4. call[c].alone => rt = rt_sni
      <4>1. call[c].alone => call[o].ask = <<>>
        BY <2>3, NoCallIsWhole
      <4>2. Callers \ {c} = {o}
        BY <2>1
      <4> QED BY ZenonT(30), <3>1, <4>1, <4>2 DEF Seen
    <3>5. Live' = Live
      BY ZenonT(30), <2>6, <3>2, <3>3 DEF Live, Before, Pending
    <3>6. call'[c].ng[1].sni = AllSni(rt)
      BY ONLY SMTT(30), <3>2 DEF Built
    <3>7. call'[c].alone => call'[c].ng[1].sni = AllSni(rt_sni')
      BY Zenon, <3>2, <3>3, <3>4, <3>6
    <3> QED BY Zenon, <2>1, <2>2, <2>4, <3>2, <3>3, <3>5, <3>7, GroupsRest
  <2>8. CASE BuildFails(c)
    <3>1. /\ call'[o] = call[o] /\ call'[c] = NoCall /\ call[c].step = "build"
          /\ UNCHANGED <<group, tls_ctx, blended>>
          /\ rt_sni' = IF call[c].ask = <<>> THEN rt_sni ELSE call[c].undo
      BY <2>8, CallEnds DEF BuildFails, auxVars, o
    <3>2. Live' = Live
      <4>1. CASE c = "main"
        <5>1. Pending("main")' = 0 /\ Pending("main") = 1
          BY <3>1, <4>1, NoCallIsWhole DEF Pending
        <5> QED BY <3>1, <4>1, <5>1 DEF Live, Before
      <4>2. CASE c = "renewal"
        <5>1. rt_sni' = rt_sni /\ call'["main"] = call["main"]
          BY <2>5, <2>6, <3>1, <4>2
        <5> QED BY Zenon, <5>1 DEF Live, Before, Pending
      <4> QED BY <2>6, <4>1, <4>2
    <3>3. call'[c].step = "idle"
      BY <3>1, NoCallIsWhole
    <3> QED BY ZenonT(30), <2>1, <2>2, <2>4, <3>1, <3>2, <3>3, GroupsRest
  <2>9. CASE Exchange(c)
    <3>1. /\ GoesTo(c, "free", <<>>, tls_ctx) /\ call[c].step = "swap" /\ rt_sni' = rt_sni
          /\ tls_ctx' = swaps + 1 /\ swaps' = swaps + 1
          /\ group' = [group EXCEPT ![swaps + 1] = call[c].ng[1]] /\ blended' = ~call[c].alone
      BY ZenonT(30), <2>9 DEF Exchange
    <3>2. call'[o] = call[o] /\ call'[c].step = "free"
      BY <3>1, CallGoesOn DEF o
    <3>3. swaps + 1 \in Groups
      BY <3>1 DEF CallsFit
    <3>4. group'[tls_ctx'] = call[c].ng[1] /\ group' = [g \in Groups |-> group'[g]]
      BY Zenon, <3>1, <3>3 DEF GroupsFit
    <3>5. ASSUME ~blended' PROVE group'[tls_ctx'].sni = AllSni(Live')
      <4>1. call[c].alone
        BY Zenon, <3>1, <3>5
      <4>2. call[c].ng[1].sni = AllSni(rt_sni)
        BY Zenon, <3>1, <4>1 DEF GroupsFit
      <4>3. Live' = rt_sni
        <5>1. Pending("main")' = 0
          BY ZenonT(30), <2>3, <2>6, <3>2, <4>1, NoCallIsWhole DEF Pending
        <5> QED BY ONLY SMTT(30), <3>1, <5>1 DEF Live
      <4> QED BY Zenon, <3>4, <4>2, <4>3
    <3>6. \A d \in Callers : ~(call'[d].step = "swap" /\ call'[d].alone)
      BY <2>1, <2>4, <3>2
    <3> QED BY Zenon, <2>2, <3>4, <3>5, <3>6 DEF GroupsFit, AllSni
  <2>10. CASE FreeRetired(c) \/ Retire(c)
    <3>1. UNCHANGED <<group, tls_ctx, blended, rt_sni>> /\ call[c].step \in {"free", "retire"}
      BY <2>10 DEF FreeRetired, Retire, auxVars
    <3>2. call'[o] = call[o] /\ call'[c].step \in {"retire", "idle"}
      <4>1. CASE FreeRetired(c)
        <5>1. GoesTo(c, "retire", <<>>, call[c].old)
          BY <4>1 DEF FreeRetired
        <5> QED BY <5>1, CallGoesOn DEF o
      <4>2. CASE Retire(c)
        <5>1. call'[o] = call[o] /\ call'[c] = NoCall
          BY <4>2, CallEnds DEF Retire, o
        <5> QED BY <5>1, NoCallIsWhole
      <4> QED BY ZenonT(30), <2>10, <4>1, <4>2
    <3>3. Live' = Live
      <4>1. CASE c = "main"
        <5>1. Pending("main")' = 0 /\ Pending("main") = 0
          BY <3>1, <3>2, <4>1 DEF Pending
        <5> QED BY <3>1, <5>1 DEF Live
      <4>2. CASE c = "renewal"
        <5>1. call'["main"] = call["main"]
          BY <2>6, <3>2, <4>2
        <5> QED BY Zenon, <3>1, <5>1 DEF Live, Before, Pending
      <4> QED BY <2>6, <4>1, <4>2
    <3> QED BY ZenonT(30), <2>1, <2>2, <2>4, <3>1, <3>2, <3>3, GroupsRest
  <2> QED BY Zenon, <1>7, <2>7, <2>8, <2>9, <2>10 DEF CallNext
<1> QED BY Zenon, <1>1, <1>2, <1>3, <1>4, <1>5, <1>6, <1>7 DEF TlsNext

THEOREM GroupInvariance == Spec => [](CallsFit /\ ListsFit /\ GroupsFit)
<1>1. Init => ListsFit /\ GroupsFit
  BY Zenon, ListsInit
<1>2. CallsFit /\ CallsFit' /\ ListsFit /\ GroupsFit /\ [Next]_vars => (ListsFit /\ GroupsFit)'
  BY Zenon, StepsOfTls, ListsNext, GroupsNext
<1> QED BY CallsInvariance, <1>1, <1>2, PTL DEF Spec

(* The certificate of an added host is the one new handshakes are shown,   *)
(* for every configuration: once ws_server_add_sni_cert has returned, with *)
(* or without a reload since, unless the configuration or an earlier add   *)
(* covers the host or the two callers overlapped.                          *)
THEOREM AddedHostsAreServed == Spec => []AddedIsPresented
<1>1. ASSUME CallsFit, ListsFit, GroupsFit PROVE AddedIsPresented
  <2> SUFFICES ASSUME server = "made", call["main"] = NoCall, ~blended,
                      NEW i \in 1..Len(added),
                      ~\E k \in 1..Len(ConfigSni) : host_match(ConfigSni[k].host, added[i].host),
                      ~\E k \in 1..(i - 1) : host_match(added[k].host, added[i].host)
               PROVE  Presents(group[tls_ctx], added[i].host) = added[i].cert
    BY Zenon DEF AddedIsPresented
  <2>1. Live = rt_sni /\ added = rt_sni
    <3>1. call["main"].step = "idle" /\ call["main"].ask = <<>>
      BY NoCallIsWhole
    <3>2. Before = rt_sni /\ Pending("main") = 0
      BY <3>1 DEF Before, Pending
    <3>3. Live = rt_sni
      BY <3>2 DEF Live
    <3> QED BY Zenon, <1>1, <3>2, <3>3 DEF ListsFit
  <2>2. group[tls_ctx].sni = AllSni(rt_sni) /\ rt_sni \in Seq(Sites)
    <3>1. rt_sni \in Seq(Sites) /\ group[tls_ctx].sni = AllSni(Live)
      BY Zenon, <1>1 DEF GroupsFit, ListsFit
    <3> QED BY Zenon, <2>1, <3>1
  <2> QED BY Zenon, <2>1, <2>2, PresentsFirst
<1> QED BY GroupInvariance, <1>1, PTL

(* The live group holds the configuration's certificates and every added   *)
(* one, whatever failed before, unless the two callers overlapped.         *)
THEOREM LiveGroupIsComplete == Spec => []LiveGroupComplete
<1>1. ASSUME CallsFit, ListsFit, GroupsFit PROVE LiveGroupComplete
  <2> SUFFICES ASSUME server = "made", Pending("main") = 0, ~blended
               PROVE  group[tls_ctx].sni = AllSni(rt_sni)
    BY DEF LiveGroupComplete
  <2>1. Live = rt_sni
    BY DEF Live
  <2>2. group[tls_ctx].sni = AllSni(Live)
    BY Zenon, <1>1 DEF GroupsFit
  <2> QED BY Zenon, <2>1, <2>2
<1> QED BY GroupInvariance, <1>1, PTL

-----------------------------------------------------------------------------
(* What the manager's progress says about its files.  The certificate on   *)
(* disk is older than an order under way until it is replaced by it, and   *)
(* the key of every certificate is the saved one or was never saved.       *)
FilesFit ==
  /\ orders \in Nat /\ keyFile \in 0..orders /\ csr \in 0..orders
  /\ certFile = [body |-> certFile.body, order |-> certFile.order, key |-> certFile.key,
                 due |-> certFile.due, names |-> certFile.names]
  /\ certFile.order \in 0..orders /\ certFile.key \in 0..certFile.order
  /\ pc \in {"authz", "ready", "poll", "csr"} => certFile.order < orders /\ rc = -1
  /\ pc \in {"issue", "write", "open"} \/ (pc = "cleanup" /\ rc = 0) =>
       csr > 0 /\ (csr = keyFile \/ csr \in unsaved)
  /\ certFile.body = "whole" =>
       certFile.key > 0 /\ (certFile.key = keyFile \/ certFile.key \in unsaved)

LEMMA FilesInit == Init => FilesFit
  BY SMTT(30) DEF Init, AcmeInit, FilesFit, NoCert

LEMMA FilesNext == FilesFit /\ [Next]_vars => FilesFit'
<1> SUFFICES ASSUME FilesFit, [Next]_vars PROVE FilesFit'
  OBVIOUS
<1> USE DEF FilesFit
<1>1. CASE StartAcme
  BY ZenonT(30), <1>1 DEF StartAcme, Start, obtainVars, fileVars
<1>2. CASE NextPeriod \/ NotifyNobody \/ Reload \/ ReloadReturns \/ AcmeStopped
  BY ZenonT(30), <1>2 DEF NextPeriod, Period, NotifyNobody, Notified, Reload, ReloadReturns, After,
     AcmeStopped, Joined, obtainVars, fileVars
<1>3. CASE CreateServer \/ Handshake \/ DestroyServer \/ (\E c \in Callers : ServerCall(c))
          \/ \E e \in Sites : InstallSite(e)
  BY Zenon, <1>3 DEF CreateServer, ServerCall, Handshake, DestroyServer, InstallSite, acmeVars
<1>4. CASE StartFails \/ Return
  BY SMTT(30), <1>4 DEF StartFails, Return, Exit, AcmeGone
<1>5. CASE Dies
  <2>1. certFile' = certFile \/ (pc = "write" /\ certFile' = Chain("leaf"))
    BY <1>5 DEF Dies, Crash
  <2> QED BY SMTT(30), <1>5, <2>1 DEF Dies, Crash, AcmeGone, Chain
<1>6. CASE StopAcme
  BY ZenonT(30), <1>6 DEF StopAcme, Stop, obtainVars, fileVars
<1>7. CASE CaValidates
  BY <1>7 DEF CaValidates, Validate, obtainVars, fileVars
<1>8. CASE CertExpires
  BY ZenonT(30), <1>8 DEF CertExpires, Expire, obtainVars
<1>9. CASE Manager
  <2>1. CASE Check
    BY ZenonT(30), <2>1 DEF Check, After, obtainVars, fileVars
  <2>2. CASE Order
    BY SMTT(30), <2>2 DEF Order, fileVars
  <2>3. CASE ObtainFails
    BY SMTT(30), <2>3 DEF ObtainFails, fileVars
  <2>4. CASE ChallengeReady
    BY <2>4 DEF ChallengeReady, Done, fileVars
  <2>5. CASE AllValid \/ OneInvalid
    BY SMTT(30), <2>5 DEF AllValid, OneInvalid, obtainVars, fileVars
  <2>6. CASE MakeCsr
    BY SMTT(30), <2>6 DEF MakeCsr, CertKey
  <2>7. CASE Issue
    BY ZenonT(30), <2>7 DEF Issue, fileVars
  <2>8. CASE Cleanup
    BY SMTT(30), <2>8 DEF Cleanup, After, fileVars
  <2>9. CASE OpenTrunc
    BY <2>9 DEF OpenTrunc, After, NoCert, obtainVars
  <2>10. CASE Write
    <3>1. certFile' = certFile \/ certFile' = Chain("leaf") \/ certFile' = Chain("whole")
      BY ZenonT(30), <2>10 DEF Write
    <3> QED BY SMTT(30), <2>10, <3>1 DEF Write, After, Chain
  <2>11. CASE StartThread
    BY ZenonT(30), <2>11 DEF StartThread, obtainVars, fileVars
  <2>12. ASSUME NEW d \in Domains, AuthzValid(d) \/ AuthzOpen(d) PROVE FilesFit'
    BY ZenonT(30), <2>12 DEF AuthzValid, AuthzOpen, Done, fileVars
  <2> QED BY ZenonT(30), <1>9, <2>1, <2>2, <2>3, <2>4, <2>5, <2>6, <2>7, <2>8, <2>9, <2>10, <2>11, <2>12
          DEF Manager, AcmeStep
<1>10. CASE UNCHANGED vars
  BY ZenonT(30), <1>10 DEF vars, acmeVars
<1> QED BY ZenonT(30), <1>1, <1>2, <1>3, <1>4, <1>5, <1>6, <1>7, <1>8, <1>9, <1>10 DEF Next, Renewal

LEMMA FilesInvariance == Spec => []FilesFit
  BY FilesInit, FilesNext, PTL DEF Spec

(* ensure leaves no certificate alone that the server cannot load, but for *)
(* a chain that was cut short after its leaf and a key that was not saved. *)
THEOREM CurrentCanBeLoaded == Spec => []CurrentLoads
<1>1. FilesFit => CurrentLoads
  BY DEF FilesFit, CurrentLoads, NeedsRenewal, Parses, OnDisk
<1> QED BY FilesInvariance, <1>1, PTL

-----------------------------------------------------------------------------
(* A group a caller is about to publish was made from the certificate on   *)
(* disk.  For main only as long as it is alone: a renewal may replace the  *)
(* certificate under its call, and the reload of that renewal overlaps it  *)
(* or comes after it.  So was the live group, once the renewal's callback  *)
(* has published its own.                                                  *)
ServedFits ==
  /\ call["renewal"] # NoCall => pc = "reload"
  /\ server = "made" /\ OnDisk # 0 =>
       /\ call["renewal"].step = "swap" => call["renewal"].ng[1].def = OnDisk
       /\ call["main"].step = "swap" /\ call["main"].alone /\ pc # "notify"
            => call["main"].ng[1].def = OnDisk \/ missed
       /\ \/ pc \notin {"notify", "reload"}
          \/ pc = "reload" /\ call["renewal"].step \notin {"build", "swap"}
          => group[tls_ctx].def = OnDisk \/ missed \/ blended

(* Faults are counted.                                                     *)
LEMMA FaultsCounted == Spec => [](faults \in Nat)
<1>1. Init => faults \in Nat
  BY DEF Init, AcmeInit
<1>2. ASSUME faults \in Nat, [Next]_vars PROVE (faults \in Nat)'
  <2> SUFFICES faults' = faults \/ faults' = faults + 1
    BY <1>2
  <2>1. CASE StartAcme \/ Handshake \/ StopAcme \/ AcmeStopped \/ DestroyServer \/ Return
    BY Zenon, <2>1 DEF StartAcme, Start, Handshake, StopAcme, Stop, AcmeStopped, Joined,
       DestroyServer, Return, Exit, acmeVars
  <2>2. CASE Dies \/ CertExpires
    BY Zenon, <2>2 DEF Dies, Crash, Fault, CertExpires, Expire
  <2>3. CASE (\E c \in Callers : ServerCall(c)) \/ \E e \in Sites : InstallSite(e)
    BY Zenon, <2>3 DEF ServerCall, InstallSite, acmeVars
  <2>4. CASE Manager
    <3>1. CASE Check \/ Order \/ ObtainFails \/ ChallengeReady \/ AllValid \/ OneInvalid
      BY Zenon, <3>1 DEF Check, Order, ObtainFails, ChallengeReady, AllValid, OneInvalid, Fault
    <3>2. CASE MakeCsr \/ Issue \/ Cleanup \/ OpenTrunc \/ Write \/ StartThread
      BY Zenon, <3>2 DEF MakeCsr, Issue, Cleanup, OpenTrunc, Write, StartThread, Fault
    <3>3. ASSUME NEW d \in Domains, AuthzValid(d) \/ AuthzOpen(d) PROVE faults' = faults
      BY Zenon, <3>3 DEF AuthzValid, AuthzOpen
    <3> QED BY Zenon, <2>4, <3>1, <3>2, <3>3 DEF Manager, AcmeStep
  <2>5. CASE NextPeriod \/ NotifyNobody \/ Reload \/ ReloadReturns
    BY Zenon, <2>5 DEF NextPeriod, Period, NotifyNobody, Notified, Reload, ReloadReturns
  <2>6. CASE CreateServer \/ StartFails \/ CaValidates
    BY Zenon, <2>6 DEF CreateServer, StartFails, Exit, CaValidates, Validate, Fault, acmeVars
  <2>7. CASE UNCHANGED vars
    BY Zenon, <2>7 DEF vars, acmeVars
  <2> QED BY Zenon, <1>2, <2>1, <2>2, <2>3, <2>4, <2>5, <2>6, <2>7 DEF Next, Renewal
<1> QED BY <1>1, <1>2, PTL DEF Spec

(* The manager gives the file another certificate only in the step that is *)
(* followed by the callback, or in one it takes for a failure.             *)
LEMMA DiskKept ==
  ASSUME FilesFit, faults \in Nat, AcmeStep
  PROVE  /\ pc \notin {"notify", "reload"} /\ pc' # "reload"
         /\ pc' = "notify" \/ OnDisk' \in {0, OnDisk} \/ (pc = "write" /\ faults' # faults)
<1> USE DEF OnDisk, After
<1>1. CASE Check
  BY SMTT(30), <1>1 DEF Check, fileVars
<1>2. CASE Order
  BY ZenonT(30), <1>2 DEF Order, fileVars
<1>3. CASE ObtainFails
  BY <1>3 DEF ObtainFails, fileVars
<1>4. CASE ChallengeReady
  BY <1>4 DEF ChallengeReady, Done, fileVars
<1>5. CASE AllValid \/ OneInvalid
  BY <1>5 DEF AllValid, OneInvalid, fileVars
<1>6. CASE MakeCsr
  BY <1>6 DEF MakeCsr, CertKey, FilesFit
<1>7. CASE Issue
  BY <1>7 DEF Issue, fileVars
<1>8. CASE Cleanup
  BY <1>8 DEF Cleanup, fileVars
<1>9. CASE OpenTrunc
  BY <1>9 DEF OpenTrunc, NoCert
<1>10. CASE Write
  <2>1. pc = "write" /\ (pc' = "notify" \/ (pc' = After(-1) /\ Fault("cert")))
    BY <1>10 DEF Write
  <2>2. ASSUME Fault("cert") PROVE faults' # faults
    BY <2>2 DEF Fault
  <2> QED BY <2>1, <2>2
<1>11. CASE StartThread
  BY <1>11 DEF StartThread, fileVars
<1>12. ASSUME NEW d \in Domains, AuthzValid(d) \/ AuthzOpen(d)
       PROVE  pc = "authz" /\ pc' \in {"authz", "poll", "ready"} /\ OnDisk' = OnDisk
  BY ZenonT(30), <1>12 DEF AuthzValid, AuthzOpen, Done, fileVars
<1> QED BY ZenonT(30), <1>1, <1>2, <1>3, <1>4, <1>5, <1>6, <1>7, <1>8, <1>9, <1>10, <1>11, <1>12 DEF AcmeStep


LEMMA ServedNext ==
  ASSUME CallsFit, GroupsFit, FilesFit, faults \in Nat, ServedFits, [Next]_vars
  PROVE  ServedFits'
<1>0. "main" \in Callers /\ "renewal" \in Callers /\ Other("main") = "renewal" /\ Other("renewal") = "main"
  BY DEF Callers, Other
<1>1. CASE StartAcme \/ Return \/ Dies \/ DestroyServer
  <2>1. call'["renewal"] = NoCall /\ server' # "made"
    <3>1. CASE TlsGone
      BY <1>0, <3>1 DEF TlsGone
    <3>2. CASE TlsDestroy
      BY <1>0, <3>2 DEF TlsDestroy, Quiet
    <3> QED BY Zenon, <1>1, <3>1, <3>2 DEF StartAcme, Return, Dies, DestroyServer
  <2> QED BY ZenonT(30), <2>1 DEF ServedFits
<1>2. CASE Manager
  <2>1. /\ UNCHANGED <<call, server, group, tls_ctx, blended>>
        /\ missed' = (missed \/ (pc = "write" /\ faults' # faults))
    BY Zenon, <1>2 DEF Manager, tlsVars, auxVars
  <2>2. /\ pc \notin {"notify", "reload"} /\ pc' # "reload"
        /\ pc' = "notify" \/ OnDisk' \in {0, OnDisk} \/ missed'
    BY ZenonT(30), <1>2, <2>1, DiskKept DEF Manager
  <2>3. call["renewal"] = NoCall /\ call'["renewal"].step = "idle"
    BY ZenonT(30), <2>1, <2>2, NoCallIsWhole DEF ServedFits
  <2>4. missed => missed'
    BY Zenon, <2>1
  <2> QED BY ZenonT(30), <2>1, <2>2, <2>3, <2>4 DEF ServedFits
<1>3. CASE NextPeriod \/ StopAcme \/ AcmeStopped \/ CaValidates \/ CertExpires \/ StartFails
          \/ NotifyNobody \/ ReloadReturns \/ UNCHANGED vars
  <2>1. UNCHANGED <<call, server, group, tls_ctx, blended, missed>>
    BY Zenon, <1>3 DEF NextPeriod, StopAcme, AcmeStopped, CaValidates, CertExpires, StartFails,
       NotifyNobody, ReloadReturns, tlsVars, auxVars, vars
  <2>2. OnDisk' = OnDisk
    <3>1. CASE CertExpires
      BY <3>1 DEF CertExpires, Expire, OnDisk, FilesFit
    <3>2. CASE ~CertExpires
      BY ZenonT(30), <1>3, <3>2 DEF NextPeriod, Period, StopAcme, Stop, AcmeStopped, Joined,
         CaValidates, Validate, StartFails, Exit, AcmeGone, NotifyNobody, ReloadReturns, Notified,
         vars, acmeVars, fileVars, OnDisk
    <3> QED BY Zenon, <3>1, <3>2
  <2>3. CASE ReloadReturns
    <3>1. pc = "reload" /\ call["renewal"] = NoCall /\ pc' \notin {"notify", "reload"}
      BY <2>3 DEF ReloadReturns, Notified, After
    <3> QED BY ZenonT(30), <2>1, <2>2, <3>1, NoCallIsWhole DEF ServedFits
  <2>4. CASE NotifyNobody
    <3>1. server # "made" /\ pc = "notify"
      BY <2>4 DEF NotifyNobody
    <3> QED BY ZenonT(30), <2>1, <2>2, <3>1 DEF ServedFits
  <2>5. CASE ~ReloadReturns /\ ~NotifyNobody
    <3>1. pc' = pc \/ (pc \notin {"notify", "reload"} /\ pc' \notin {"notify", "reload"})
      BY ZenonT(30), <1>3, <2>5 DEF NextPeriod, Period, StopAcme, Stop, AcmeStopped, Joined, CertExpires,
         Expire, CaValidates, Validate, StartFails, Exit, AcmeGone, vars, acmeVars
    <3> QED BY ZenonT(30), <2>1, <2>2, <3>1 DEF ServedFits
  <2> QED BY Zenon, <2>3, <2>4, <2>5
<1>4. CASE Reload
  <2>1. /\ UNCHANGED <<server, group, tls_ctx, blended, missed>> /\ pc' = "reload"
        /\ Begins("renewal", <<>>, <<>>)
    BY Zenon, <1>4 DEF Reload, ReloadCall, auxVars
  <2>2. /\ call'["renewal"].step = "build" /\ call'["main"].step = call["main"].step
        /\ call'["main"].alone = (call["main"] = NoCall)
    BY <1>0, <2>1, CallBegins
  <2>3. call'["main"].step = "swap" => ~call'["main"].alone
    BY <2>2, NoCallIsWhole
  <2> QED BY ZenonT(30), <2>1, <2>2, <2>3 DEF ServedFits
<1>5. CASE CreateServer
  <2>1. /\ OnDisk' = OnDisk /\ pc' = pc /\ server = "none" /\ call' = call /\ tls_ctx' = tls_ctx
        /\ group' = [group EXCEPT ![1] = Built(OnDisk, <<>>)]
    BY ZenonT(30), <1>5 DEF CreateServer, Create, acmeVars, OnDisk
  <2>2. \A c \in Callers : call[c] = NoCall
    BY <2>1 DEF CallsFit, CallFits
  <2>3. tls_ctx = 1 /\ 1 \in Groups
    BY <2>1, TlsAssumption DEF GroupsFit, Groups
  <2>4. group'[tls_ctx'] = Built(OnDisk, <<>>)
    BY Zenon, <2>1, <2>3 DEF GroupsFit
  <2>5. Built(OnDisk, <<>>).def = OnDisk
    BY DEF Built
  <2> QED BY ZenonT(30), <1>0, <2>1, <2>2, <2>4, <2>5, NoCallIsWhole DEF ServedFits
<1>6. CASE Handshake
  <2>1. UNCHANGED <<call, server, group, tls_ctx, blended, missed, pc, OnDisk>>
    BY ZenonT(30), <1>6 DEF Handshake, HandshakeStep, ConnNew, HelloOrEnd, acmeVars, auxVars, OnDisk
  <2> QED BY ZenonT(30), <2>1 DEF ServedFits
<1>7. ASSUME NEW e \in Sites, InstallSite(e) PROVE ServedFits'
  <2>1. /\ UNCHANGED <<server, group, tls_ctx, blended, missed, pc, OnDisk>>
        /\ Begins("main", <<e>>, rt_sni)
    BY ZenonT(30), <1>7 DEF InstallSite, AddCall, acmeVars, auxVars, OnDisk
  <2>2. /\ call'["main"].step = "build" /\ call'["renewal"].step = call["renewal"].step
        /\ call'["renewal"].ng = call["renewal"].ng
        /\ call["renewal"] = NoCall => call'["renewal"] = NoCall
    BY <1>0, <2>1, CallBegins
  <2> QED BY ZenonT(30), <2>1, <2>2 DEF ServedFits
<1>8. ASSUME NEW c \in Callers, ServerCall(c) PROVE ServedFits'
  <2> DEFINE o == Other(c)
  <2>1. UNCHANGED <<pc, OnDisk>>
    BY Zenon, <1>8 DEF ServerCall, acmeVars, OnDisk
  <2>2. (c = "main" /\ o = "renewal") \/ (c = "renewal" /\ o = "main")
    BY DEF Callers, Other
  <2>3. /\ call[c].step # "idle" => server = "made"
        /\ call[c].step # "idle" /\ call[c].alone => call[o] = NoCall
        /\ call[o].step = "swap" /\ call[o].alone => call[c] = NoCall
    <3>1. CallFits(c) /\ CallFits(o) /\ Other(o) = c
      BY Zenon, TwoCallers DEF CallsFit
    <3> QED BY ZenonT(30), <3>1 DEF CallFits
  <2>4. call[c].step # "idle" => call[c] # NoCall
    BY NoCallIsWhole
  <2>5. c = "renewal" /\ call[c].step # "idle" => pc = "reload"
    BY <2>4 DEF ServedFits
  <2> HIDE DEF o
  <2>6. CASE Build(c, OnDisk)
    <3>1. PICK rt : GoesTo(c, "swap", <<Built(OnDisk, rt)>>, call[c].old)
      BY Zenon, <2>6 DEF Build
    <3>2. /\ call'[o] = call[o] /\ call'[c].step = "swap" /\ call'[c].ng = <<Built(OnDisk, rt)>>
      BY <3>1, CallGoesOn DEF o
    <3>3. UNCHANGED <<server, group, tls_ctx, blended>> /\ call[c].step = "build"
      BY Zenon, <2>6 DEF Build, auxVars
    <3>4. call'[c] # NoCall
      BY <3>2, NoCallIsWhole
    <3>5. missed' = missed
      BY <1>8, <3>3, <3>4 DEF ServerCall
    <3>6. call'[c].ng[1].def = OnDisk
      BY <3>2 DEF Built
    <3> QED BY ZenonT(30), <2>1, <2>2, <2>5, <3>2, <3>3, <3>5, <3>6 DEF ServedFits
  <2>7. CASE BuildFails(c)
    <3>1. /\ call'[o] = call[o] /\ call'[c] = NoCall /\ call[c].step = "build"
          /\ UNCHANGED <<server, group, tls_ctx, blended>>
      BY <2>7, CallEnds DEF BuildFails, auxVars, o
    <3>2. missed' = (missed \/ c = "renewal")
      BY Zenon, <1>8, <3>1 DEF ServerCall
    <3> QED BY ZenonT(30), <2>1, <2>2, <3>1, <3>2, NoCallIsWhole DEF ServedFits
  <2>8. CASE Exchange(c)
    <3>1. /\ GoesTo(c, "free", <<>>, tls_ctx) /\ call[c].step = "swap" /\ server' = server
          /\ tls_ctx' = swaps + 1 /\ group' = [group EXCEPT ![swaps + 1] = call[c].ng[1]]
          /\ blended' = ~call[c].alone
      BY ZenonT(30), <2>8 DEF Exchange
    <3>2. call'[o] = call[o] /\ call'[c].step = "free" /\ call'[c] # NoCall
      BY <3>1, CallGoesOn, NoCallIsWhole DEF o
    <3>3. group'[tls_ctx'] = call[c].ng[1]
      <4>1. swaps + 1 \in Groups
        BY <3>1, <2>2, TlsAssumption DEF CallsFit, Pending, Groups
      <4> QED BY Zenon, <3>1, <4>1 DEF GroupsFit
    <3>4. missed' = (missed /\ call[c].ng[1].def # OnDisk)
      BY <1>8, <3>1 DEF ServerCall
    <3>5. call[c].alone \in BOOLEAN
      BY DEF CallsFit, CallFits
    <3>6. ~(call[o].step = "swap" /\ call[o].alone)
      BY <2>3, <2>4, <3>1
    <3>7. c = "renewal" /\ OnDisk # 0 => call[c].ng[1].def = OnDisk
      BY ZenonT(30), <2>3, <3>1 DEF ServedFits
    <3>8. c = "main" /\ OnDisk # 0 /\ pc # "notify" /\ call[c].alone =>
            call[c].ng[1].def = OnDisk \/ missed
      BY ZenonT(30), <2>3, <3>1 DEF ServedFits
    <3>9. OnDisk # 0 /\ (pc # "notify" \/ c = "renewal") =>
            group'[tls_ctx'].def = OnDisk \/ missed' \/ blended'
      BY Zenon, <2>2, <3>1, <3>3, <3>4, <3>7, <3>8
    <3> QED BY ZenonT(30), <2>1, <2>2, <2>4, <3>1, <3>2, <3>6, <3>9 DEF ServedFits
  <2>9. CASE FreeRetired(c) \/ Retire(c)
    <3>1. UNCHANGED <<server, group, tls_ctx, blended>> /\ call[c].step \in {"free", "retire"}
      BY <2>9 DEF FreeRetired, Retire, auxVars
    <3>2. call'[o] = call[o] /\ call'[c].step \in {"retire", "idle"}
      <4>1. CASE FreeRetired(c)
        <5>1. GoesTo(c, "retire", <<>>, call[c].old)
          BY <4>1 DEF FreeRetired
        <5> QED BY <5>1, CallGoesOn DEF o
      <4>2. CASE Retire(c)
        <5>1. call'[o] = call[o] /\ call'[c] = NoCall
          BY <4>2, CallEnds DEF Retire, o
        <5> QED BY <5>1, NoCallIsWhole
      <4> QED BY ZenonT(30), <2>9, <4>1, <4>2
    <3>3. missed' = missed
      BY <1>8, <3>1 DEF ServerCall
    <3> QED BY ZenonT(30), <2>1, <2>2, <2>5, <3>1, <3>2, <3>3 DEF ServedFits
  <2> QED BY Zenon, <1>8, <2>6, <2>7, <2>8, <2>9 DEF ServerCall, CallStep
<1> QED BY ZenonT(30), <1>1, <1>2, <1>3, <1>4, <1>5, <1>6, <1>7, <1>8 DEF Next, Renewal

(* New handshakes are shown the certificate on disk once the callback of   *)
(* its renewal has returned, unless the write was reported as failed or    *)
(* ws_server_reload_tls failed, or main's add overlapped the call that     *)
(* published the live group.                                               *)
THEOREM RenewedIsServed == Spec => []ServedIsCurrent
<1>1. Init => ServedFits
  <2> SUFFICES ASSUME Init PROVE ServedFits
    OBVIOUS
  <2>1. call["renewal"] = NoCall /\ server = "none"
    BY DEF Init, TlsInit, Callers
  <2> QED BY <2>1 DEF ServedFits
<1>2. ServedFits => ServedIsCurrent
  <2> SUFFICES ASSUME ServedFits, server = "made", OnDisk # 0, pc \notin {"notify", "reload"}
               PROVE  group[tls_ctx].def = OnDisk \/ missed \/ blended
    BY DEF ServedIsCurrent
  <2> QED BY Zenon DEF ServedFits
<1>3. CallsFit /\ GroupsFit /\ FilesFit /\ faults \in Nat /\ ServedFits /\ [Next]_vars => ServedFits'
  BY Zenon, ServedNext
<1> QED BY GroupInvariance, FilesInvariance, FaultsCounted, <1>1, <1>2, <1>3, PTL DEF Spec

-----------------------------------------------------------------------------
(* The challenges of an attempt.  The names whose challenge was prepared;  *)
(* the responder holds their tokens, each once, and no others: what an     *)
(* earlier attempt left would take the room.                               *)
Prepared == (names \ todo) \union (IF pc = "ready" THEN {at} ELSE {})

TableFits ==
  /\ slots = [s \in Table |-> slots[s]]
  /\ \A s \in Table : slots[s] = NULL \/ slots[s] \in tokens
  /\ \A r, s \in Table : slots[r] = slots[s] /\ slots[r] # NULL => r = s

AuthzFit ==
  /\ names = {} \/ names \in Configs
  /\ orders \in Nat
  /\ authz = [d \in Domains |-> [st |-> authz[d].st, tok |-> authz[d].tok, told |-> authz[d].told]]
  /\ \A d \in Domains : authz[d].st # "none" => authz[d].tok \in Nat \X Domains

AttemptFits ==
  /\ todo \subseteq names /\ (pc = "ready" => at \in todo)
  /\ \A d \in names : authz[d].st # "none"
  /\ \A t \in tokens : Answers(slots, t) /\ \E d \in Prepared : authz[d].tok = t

TokensFit ==
  /\ AuthzFit
  /\ pc \notin {"authz", "ready", "poll", "csr", "issue", "cleanup"} => tokens = {}
  /\ pc \in {"authz", "ready", "poll"} => AttemptFits

(* A bounded set of numbers has a least one.                               *)
LEMMA LeastOf ==
  ASSUME NEW n \in Nat, NEW S \in SUBSET (1..n), S # {}
  PROVE  \E m \in S : \A k \in S : m <= k
<1> DEFINE Down(x) == {y \in S : y <= x}
           T == {Down(x) : x \in S}
<1>1. S \in SUBSET Nat /\ \A x \in S : x <= n
  OBVIOUS
<1>2. IsFiniteSet(S)
  BY <1>1, FS_BoundedSetOfNaturals
<1>3. FiniteSubsetsOf(S) = SUBSET S
  BY <1>2, FS_FiniteSubsetsOfFinite
<1>4. IsWellFoundedOn(StrictSubsetOrdering(S), SUBSET S)
  BY <1>3, FS_StrictSubsetOrderingWellFounded
<1>5. T \subseteq SUBSET S /\ T # {}
  BY Zenon
<1> HIDE DEF T
<1>6. PICK X \in T : \A Y \in T : <<Y, X>> \notin StrictSubsetOrdering(S)
  BY Zenon, <1>4, <1>5, WFMin
<1>7. PICK m \in S : X = Down(m)
  BY Zenon, <1>6 DEF T
<1>8. ASSUME NEW k \in S, ~(m <= k) PROVE FALSE
  <2>1. Down(k) \in T
    BY Zenon DEF T
  <2>2. Down(k) \subseteq Down(m) /\ Down(k) # Down(m)
    <3>1. \A y \in S : y <= k => y <= m
      BY <1>1, <1>8
    <3>2. m \in Down(m) /\ m \notin Down(k)
      BY <1>1, <1>8
    <3> QED BY Zenon, <3>1, <3>2
  <2>3. Down(k) \in SUBSET S /\ Down(m) \in SUBSET S
    OBVIOUS
  <2>4. <<Down(k), Down(m)>> \in StrictSubsetOrdering(S)
    BY <2>2, <2>3 DEF StrictSubsetOrdering
  <2> QED BY Zenon, <1>6, <1>7, <2>1, <2>4
<1> QED BY Zenon, <1>8

(* portico_acme_responder_provision, when there is room: the token is      *)
(* there, and the others still are.                                        *)
LEMMA Provisions ==
  ASSUME NEW table, table = [s \in Table |-> table[s]], NEW t, t # NULL,
         \E s \in Table : table[s] = NULL
  PROVE  /\ Provision(table, t) = [s \in Table |-> Provision(table, t)[s]]
         /\ Answers(Provision(table, t), t)
         /\ \A u : Answers(table, u) /\ u # NULL => Answers(Provision(table, t), u)
         /\ \A s \in Table : Provision(table, t)[s] \in {t, table[s]}
         /\ \A r, s \in Table :
              /\ Provision(table, t)[r] = t /\ Provision(table, t)[s] = t
              /\ \A i, j \in Table : table[i] = t /\ table[j] = t => i = j
              => r = s
<1> DEFINE same == {s \in Table : table[s] = t}
           free == {s \in Table : table[s] = NULL}
           pick == IF same # {} THEN same ELSE free
           least == CHOOSE s \in pick : \A o \in pick : s <= o
           p == [table EXCEPT ![least] = t]
<1>1. Slots \in Nat /\ pick \in SUBSET (1..Slots) /\ pick # {}
  BY ZenonT(30), AcmeAssumption DEF Table
<1>2. Provision(table, t) = p
  BY Zenon, <1>1 DEF Provision
<1> HIDE DEF pick
<1>3. \E m \in pick : \A k \in pick : m <= k
  BY Zenon, <1>1, LeastOf
<1>4. least \in pick
  BY Zenon, <1>3
<1> HIDE DEF least
<1>5. /\ least \in Table /\ (table[least] = t \/ table[least] = NULL)
      /\ (\E s \in Table : table[s] = t) => table[least] = t
  BY <1>4 DEF pick
<1>6. /\ p = [s \in Table |-> p[s]] /\ p[least] = t
      /\ \A s \in Table : s # least => p[s] = table[s]
  BY Zenon, <1>5
<1> HIDE DEF p
<1>7. Answers(p, t)
  BY <1>5, <1>6 DEF Answers
<1>8. ASSUME NEW u, Answers(table, u), u # NULL PROVE Answers(p, u)
  BY <1>5, <1>6, <1>8 DEF Answers
<1>9. \A s \in Table : p[s] \in {t, table[s]}
  BY <1>6
<1>10. ASSUME NEW r \in Table, NEW s \in Table, p[r] = t, p[s] = t,
              \A i, j \in Table : table[i] = t /\ table[j] = t => i = j
       PROVE  r = s
  BY <1>5, <1>6, <1>10
<1> QED BY Zenon, <1>2, <1>6, <1>7, <1>8, <1>9, <1>10

(* There is room for every name of an order: the tokens in the table are   *)
(* of other names.                                                         *)
LEMMA RoomForName ==
  ASSUME TableFits, TokensFit, pc = "authz", NEW d \in todo
  PROVE  \E s \in Table : slots[s] = NULL
<1> SUFFICES ASSUME \A s \in Table : slots[s] # NULL PROVE FALSE
  OBVIOUS
<1> DEFINE others == names \ {d}
           f == [s \in Table |-> CHOOSE e \in others : authz[e].tok = slots[s]]
<1>1. d \in names /\ Prepared \subseteq others
  BY ZenonT(30) DEF TokensFit, AttemptFits, Prepared
<1>2. IsFiniteSet(names) /\ Cardinality(names) <= Slots /\ Slots \in Nat
  BY ZenonT(30), <1>1, AcmeAssumption DEF TokensFit, AuthzFit
<1>3. IsFiniteSet(others) /\ Cardinality(others) = Cardinality(names) - 1
  BY <1>1, <1>2, FS_RemoveElement
<1>4. IsFiniteSet(Table) /\ Cardinality(Table) = Slots
  BY <1>2, FS_Interval DEF Table
<1>5. Cardinality(others) < Cardinality(Table)
  <2>1. Cardinality(names) \in Nat
    BY <1>2, FS_CardinalityType
  <2> QED BY <1>2, <1>3, <1>4, <2>1
<1>6. \A s \in Table : \E e \in others : authz[e].tok = slots[s]
  BY Zenon, <1>1 DEF TableFits, TokensFit, AttemptFits
<1>7. \A s \in Table : f[s] \in others /\ authz[f[s]].tok = slots[s]
  BY Zenon, <1>6
<1>8. f \in [Table -> others]
  BY Zenon, <1>7
<1> HIDE DEF f, others
<1>9. PICK r, s \in Table : r # s /\ f[r] = f[s]
  BY ZenonT(30), <1>3, <1>4, <1>5, <1>8, FS_PigeonHole
<1>10. slots[r] = slots[s]
  BY Zenon, <1>7, <1>9
<1> QED BY Zenon, <1>9, <1>10 DEF TableFits

(* Nothing of the attempt changes.                                         *)
LEMMA AttemptRests ==
  ASSUME TableFits, TokensFit, UNCHANGED <<names, orders, authz, tokens, slots>>,
         \/ UNCHANGED <<pc, todo, at>>
         \/ /\ pc' \notin {"authz", "ready", "poll"}
            /\ pc' \notin {"csr", "issue", "cleanup"} => tokens = {}
  PROVE  TableFits' /\ TokensFit'
<1>1. TableFits' /\ AuthzFit'
  BY Zenon DEF TableFits, TokensFit, AuthzFit
<1>2. CASE UNCHANGED <<pc, todo, at>>
  <2>1. AttemptFits => AttemptFits'
    BY Zenon, <1>2 DEF AttemptFits, Prepared, Answers
  <2> QED BY ZenonT(30), <1>1, <1>2, <2>1 DEF TokensFit
<1>3. CASE /\ pc' \notin {"authz", "ready", "poll"}
           /\ pc' \notin {"csr", "issue", "cleanup"} => tokens = {}
  BY ZenonT(30), <1>1, <1>3 DEF TokensFit
<1> QED BY Zenon, <1>1, <1>2, <1>3

(* A table without tokens.                                                 *)
LEMMA AttemptOver ==
  ASSUME TokensFit, UNCHANGED <<orders, authz>>, tokens' = {},
         slots' = Empty, names' = {} \/ names' \in Configs,
         pc' \notin {"authz", "ready", "poll"}
  PROVE  TableFits' /\ TokensFit'
<1>1. TableFits'
  BY DEF TableFits, Empty
<1>2. TokensFit'
  <2>1. AuthzFit'
    BY Zenon DEF TokensFit, AuthzFit
  <2> QED BY <2>1 DEF TokensFit
<1> QED BY Zenon, <1>1, <1>2

LEMMA OrderAttempt ==
  ASSUME TableFits, TokensFit, Order
  PROVE  TableFits' /\ TokensFit'
<1>1. tokens = {} /\ tokens' = {} /\ slots' = slots /\ names' = names /\ orders' = orders + 1
      /\ pc' = "authz" /\ todo' = names
  BY ZenonT(30) DEF Order, TokensFit, runVars
<1>2. TableFits'
  BY <1>1 DEF TableFits
<1>3. PICK kept \in SUBSET {d \in names : Reusable(d)} :
        authz' = [d \in Domains |->
                   IF d \in names \ kept
                   THEN [st |-> "pending", tok |-> Token(orders + 1, d), told |-> FALSE] ELSE authz[d]]
  BY ZenonT(30) DEF Order
<1>4. names \subseteq Domains
  BY ZenonT(30), AcmeAssumption DEF TokensFit, AuthzFit
<1>5. ASSUME NEW d \in Domains
      PROVE  /\ authz'[d] = [st |-> authz'[d].st, tok |-> authz'[d].tok, told |-> authz'[d].told]
             /\ authz'[d].st # "none" => authz'[d].tok \in Nat \X Domains
             /\ d \in names => authz'[d].st # "none"
  <2>1. CASE d \in names \ kept
    BY <1>3, <2>1 DEF TokensFit, AuthzFit, Token
  <2>2. CASE d \notin names \ kept
    <3>1. authz'[d] = authz[d]
      BY Zenon, <1>3, <2>2
    <3>2. d \in names => authz[d].st # "none"
      BY ZenonT(30), <2>2 DEF Reusable
    <3> QED BY ZenonT(30), <3>1, <3>2 DEF TokensFit, AuthzFit
  <2> QED BY Zenon, <2>1, <2>2
<1>6. authz' = [d \in Domains |-> authz'[d]]
  BY Zenon, <1>3
<1>7. authz' = [d \in Domains |-> [st |-> authz'[d].st, tok |-> authz'[d].tok, told |-> authz'[d].told]]
  BY Zenon, <1>5, <1>6
<1>8. orders' \in Nat
  BY <1>1 DEF TokensFit, AuthzFit
<1>9. \A d \in names : authz'[d].st # "none"
  BY Zenon, <1>4, <1>5
<1>10. TokensFit'
  <2>1. AuthzFit'
    BY Zenon, <1>1, <1>5, <1>7, <1>8 DEF TokensFit, AuthzFit
  <2>2. AttemptFits'
    BY ZenonT(30), <1>1, <1>9 DEF AttemptFits
  <2> QED BY <1>1, <2>1, <2>2 DEF TokensFit
<1> QED BY Zenon, <1>2, <1>10

LEMMA AuthzAttempt ==
  ASSUME TableFits, TokensFit, NEW d \in Domains, AuthzValid(d) \/ AuthzOpen(d)
  PROVE  TableFits' /\ TokensFit'
<1>1. CASE AuthzValid(d)
  <2>1. /\ UNCHANGED <<names, orders, authz, tokens, slots>> /\ pc = "authz"
        /\ pc' \in {"authz", "poll"} /\ todo' = todo \ {d}
    BY ZenonT(30), <1>1 DEF AuthzValid, Done, runVars
  <2>2. Prepared \subseteq Prepared'
    BY <2>1 DEF Prepared
  <2>3. TableFits' /\ AuthzFit'
    BY Zenon, <2>1 DEF TableFits, TokensFit, AuthzFit
  <2>4. AttemptFits'
    BY ZenonT(30), <2>1, <2>2 DEF TokensFit, AttemptFits, Answers
  <2> QED BY <2>1, <2>3, <2>4 DEF TokensFit
<1>2. CASE AuthzOpen(d)
  <2> DEFINE t == authz[d].tok
  <2>1. /\ UNCHANGED <<names, orders, authz, todo>> /\ pc = "authz" /\ pc' = "ready"
        /\ d \in todo /\ at' = d /\ slots' = Provision(slots, t) /\ tokens' = tokens \union {t}
    BY ZenonT(30), <1>2 DEF AuthzOpen, runVars
  <2>2. t # NULL
    BY ZenonT(30), <2>1, AcmeAssumption DEF TokensFit, AuthzFit, AttemptFits
  <2>3. \E s \in Table : slots[s] = NULL
    BY Zenon, <2>1, RoomForName
  <2>4. slots = [s \in Table |-> slots[s]]
    BY DEF TableFits
  <2> HIDE DEF t
  <2> DEFINE p == Provision(slots, t)
  <2>5. /\ slots' = [s \in Table |-> slots'[s]]
        /\ Answers(slots', t)
        /\ \A u : Answers(slots, u) /\ u # NULL => Answers(slots', u)
        /\ \A s \in Table : slots'[s] \in {t, slots[s]}
        /\ \A r, s \in Table :
             /\ slots'[r] = t /\ slots'[s] = t
             /\ \A i, j \in Table : slots[i] = t /\ slots[j] = t => i = j
             => r = s
    <3>1. /\ p = [s \in Table |-> p[s]]
          /\ Answers(p, t)
          /\ \A u : Answers(slots, u) /\ u # NULL => Answers(p, u)
          /\ \A s \in Table : p[s] \in {t, slots[s]}
          /\ \A r, s \in Table :
               /\ p[r] = t /\ p[s] = t
               /\ \A i, j \in Table : slots[i] = t /\ slots[j] = t => i = j
               => r = s
      BY ONLY Zenon, <2>2, <2>3, <2>4, Provisions
    <3>2. slots' = p
      BY <2>1
    <3> HIDE DEF p
    <3> QED BY ONLY Zenon, <3>1, <3>2
  <2>6. \A i, j \in Table : slots[i] = t /\ slots[j] = t => i = j
    BY Zenon, <2>2 DEF TableFits
  <2>7. ASSUME NEW r \in Table, NEW s \in Table, slots'[r] = slots'[s], slots'[r] # NULL
        PROVE  r = s
    <3>1. CASE slots'[r] = t
      BY Zenon, <2>5, <2>6, <2>7, <3>1
    <3>2. CASE slots'[r] # t
      <4>1. slots'[r] = slots[r] /\ slots'[s] = slots[s]
        BY <2>5, <2>7, <3>2
      <4> QED BY Zenon, <2>7, <4>1 DEF TableFits
    <3> QED BY Zenon, <3>1, <3>2
  <2>8. TableFits'
    <3>1. \A s \in Table : slots'[s] = NULL \/ slots'[s] \in tokens'
      BY ZenonT(30), <2>1, <2>5 DEF TableFits
    <3> QED BY Zenon, <2>5, <2>7, <3>1 DEF TableFits
  <2>9. Prepared' = Prepared \union {d}
    BY <2>1 DEF Prepared
  <2>10. names \subseteq Domains
    BY ZenonT(30), AcmeAssumption DEF TokensFit, AuthzFit
  <2>11. \A u \in tokens : u # NULL /\ Answers(slots, u) /\ \E e \in Prepared : authz[e].tok = u
    <3>1. Prepared \subseteq names
      BY <2>1 DEF Prepared
    <3>2. AttemptFits
      BY <2>1 DEF TokensFit
    <3>3. \A e \in Prepared : authz[e].tok # NULL
      BY <2>10, <3>1, <3>2, AcmeAssumption DEF TokensFit, AuthzFit, AttemptFits
    <3> QED BY Zenon, <3>2, <3>3 DEF AttemptFits
  <2>12. \A u \in tokens' : Answers(slots', u) /\ \E e \in Prepared' : authz'[e].tok = u
    BY ZenonT(30), <2>1, <2>5, <2>9, <2>11 DEF t
  <2>13. TokensFit'
    <3>1. AuthzFit'
      BY Zenon, <2>1 DEF TokensFit, AuthzFit
    <3>2. AttemptFits'
      BY Zenon, <2>1, <2>12 DEF TokensFit, AttemptFits
    <3> QED BY <2>1, <3>1, <3>2 DEF TokensFit
  <2> QED BY Zenon, <2>8, <2>13
<1> QED BY Zenon, <1>1, <1>2

(* What the CA learns and finds leaves the tokens as they are.             *)
LEMMA AuthzKeepsTokens ==
  ASSUME TableFits, TokensFit, NEW d \in Domains, authz[d].st # "none",
         NEW st, st # "none",
         \/ authz' = [authz EXCEPT ![d].told = TRUE] /\ pc = "ready" /\ d = at
            /\ \/ pc' \in {"authz", "poll"} /\ todo' = todo \ {d}
               \/ pc' = "cleanup"
         \/ authz' = [authz EXCEPT ![d].st = st] /\ UNCHANGED <<pc, todo, at>>,
         UNCHANGED <<names, orders, tokens, slots>>
  PROVE  TableFits' /\ TokensFit'
<1>1. TableFits'
  BY DEF TableFits
<1>2. \A e \in Domains : authz'[e].tok = authz[e].tok
  BY DEF TokensFit, AuthzFit
<1>3. \A e \in Domains : authz[e].st # "none" => authz'[e].st # "none"
  BY DEF TokensFit, AuthzFit
<1>4. \A e \in Domains : authz'[e].st # "none" => authz[e].st # "none"
  BY ZenonT(30) DEF TokensFit, AuthzFit
<1>5. authz' = [e \in Domains |-> [st |-> authz'[e].st, tok |-> authz'[e].tok, told |-> authz'[e].told]]
  BY DEF TokensFit, AuthzFit
<1>6. names \subseteq Domains
  BY AcmeAssumption DEF TokensFit, AuthzFit
<1>7. ASSUME pc' \in {"authz", "ready", "poll"}
      PROVE  /\ pc \in {"authz", "ready", "poll"} /\ Prepared \subseteq Prepared'
             /\ todo' \subseteq names /\ (pc' = "ready" => at' \in todo') /\ Prepared \subseteq names
  BY <1>7 DEF TokensFit, AttemptFits, Prepared
<1>8. pc' \in {"authz", "ready", "poll", "csr", "issue", "cleanup"} <=>
      pc \in {"authz", "ready", "poll", "csr", "issue", "cleanup"}
  OBVIOUS
<1>9. TokensFit'
  <2>1. AuthzFit'
    BY Zenon, <1>2, <1>4, <1>5 DEF TokensFit, AuthzFit
  <2>2. ASSUME pc' \in {"authz", "ready", "poll"} PROVE AttemptFits'
    <3>1. AttemptFits
      BY <1>7, <2>2 DEF TokensFit
    <3> QED BY Zenon, <1>2, <1>3, <1>6, <1>7, <2>2, <3>1 DEF AttemptFits, Answers
  <2> QED BY <1>8, <2>1, <2>2 DEF TokensFit
<1> QED BY Zenon, <1>1, <1>9

LEMMA TokensNext ==
  ASSUME TableFits, TokensFit, [Next]_vars
  PROVE  TableFits' /\ TokensFit'
<1>1. CASE StartAcme
  <2>1. /\ UNCHANGED <<orders, authz, tokens>> /\ pc = "down" /\ pc' = "check"
        /\ names' \in Configs /\ slots' = Empty
    BY <1>1 DEF StartAcme, Start, obtainVars
  <2>2. tokens = {}
    BY <2>1 DEF TokensFit
  <2> QED BY <2>1, <2>2, AttemptOver
<1>2. CASE NextPeriod \/ NotifyNobody \/ Reload \/ ReloadReturns
  <2>1. /\ UNCHANGED <<names, orders, authz, tokens, slots>> /\ pc \in {"sleep", "notify", "reload"}
        /\ pc' \in {"check", "reload", "failed", "started", "sleep"}
    BY ZenonT(30), <1>2 DEF NextPeriod, Period, NotifyNobody, Notified, Reload, ReloadReturns, After,
       obtainVars, runVars
  <2>2. tokens = {}
    BY <2>1 DEF TokensFit
  <2> QED BY <2>1, <2>2, AttemptRests
<1>3. CASE CreateServer \/ Handshake \/ DestroyServer \/ (\E c \in Callers : ServerCall(c))
          \/ \E e \in Sites : InstallSite(e)
  <2>1. UNCHANGED <<names, orders, authz, tokens, slots, pc, todo, at>>
    BY Zenon, <1>3 DEF CreateServer, ServerCall, Handshake, DestroyServer, InstallSite, acmeVars
  <2> QED BY <2>1, AttemptRests
<1>4. CASE StartFails \/ Return \/ Dies
  <2>1. /\ UNCHANGED <<orders, authz>> /\ tokens' = {} /\ slots' = Empty /\ names' = {}
        /\ pc' = "down"
    BY Zenon, <1>4 DEF StartFails, Return, Dies, Exit, Crash, AcmeGone
  <2> QED BY <2>1, AttemptOver
<1>5. CASE AcmeStopped
  <2>1. /\ UNCHANGED <<names, orders, authz, tokens>> /\ slots' = Empty
        /\ pc \in {"sleep", "unattended"} /\ pc' = "stopped"
    BY <1>5 DEF AcmeStopped, Joined, obtainVars, runVars
  <2>2. tokens = {} /\ (names = {} \/ names \in Configs)
    BY ZenonT(30), <2>1 DEF TokensFit, AuthzFit
  <2> QED BY <2>1, <2>2, AttemptOver
<1>6. CASE StopAcme \/ CertExpires \/ UNCHANGED vars
  <2>1. UNCHANGED <<names, orders, authz, tokens, slots, pc, todo, at>>
    BY Zenon, <1>6 DEF StopAcme, Stop, CertExpires, Expire, obtainVars, runVars, vars, acmeVars
  <2> QED BY <2>1, AttemptRests
<1>7. CASE CaValidates
  <2>1. PICK d \in Domains : Validate(d)
    BY <1>7 DEF CaValidates
  <2>2. /\ authz[d].st # "none" /\ UNCHANGED <<names, orders, tokens, slots, pc, todo, at>>
        /\ \/ authz' = [authz EXCEPT ![d].st = "valid"]
           \/ authz' = [authz EXCEPT ![d].st = "invalid"]
    BY <2>1 DEF Validate, obtainVars, runVars
  <2>3. CASE authz' = [authz EXCEPT ![d].st = "valid"]
    BY Zenon, <2>2, <2>3, AuthzKeepsTokens
  <2>4. CASE authz' = [authz EXCEPT ![d].st = "invalid"]
    BY Zenon, <2>2, <2>4, AuthzKeepsTokens
  <2> QED BY Zenon, <2>2, <2>3, <2>4
<1>8. CASE Manager
  <2>1. CASE Check \/ OpenTrunc \/ Write \/ StartThread
    <3>1. /\ UNCHANGED <<names, orders, authz, tokens, slots>>
          /\ pc \in {"check", "open", "write", "started"}
          /\ pc' \in {"failed", "started", "sleep", "order", "write", "notify", "unattended"}
      BY <2>1 DEF Check, OpenTrunc, Write, StartThread, After, obtainVars, runVars
    <3>2. tokens = {}
      BY <3>1 DEF TokensFit
    <3> QED BY ZenonT(30), <3>1, <3>2, AttemptRests
  <2>2. CASE Order
    BY Zenon, <2>2, OrderAttempt
  <2>3. CASE ObtainFails \/ AllValid \/ OneInvalid \/ MakeCsr \/ Issue
    <3>1. /\ UNCHANGED <<names, orders, authz, slots>> /\ pc' \in {"cleanup", "csr", "issue"}
          /\ tokens' = tokens \/ (pc = "order" /\ tokens' = {})
      BY ZenonT(30), <2>3 DEF ObtainFails, AllValid, OneInvalid, MakeCsr, Issue, obtainVars, runVars
    <3>2. tokens' = tokens
      BY <3>1 DEF TokensFit
    <3> QED BY <3>1, <3>2, AttemptRests
  <2>4. CASE ChallengeReady
    <3>1. /\ UNCHANGED <<names, orders, tokens, slots>> /\ pc = "ready"
          /\ authz' = [authz EXCEPT ![at].told = TRUE]
          /\ \/ pc' \in {"authz", "poll"} /\ todo' = todo \ {at}
             \/ pc' = "cleanup"
      BY <2>4 DEF ChallengeReady, Done, runVars
    <3>2. at \in names /\ authz[at].st # "none"
      BY <3>1 DEF TokensFit, AttemptFits
    <3>3. at \in Domains
      BY ZenonT(30), <3>2, AcmeAssumption DEF TokensFit, AuthzFit
    <3> QED BY Zenon, <3>1, <3>2, <3>3, AuthzKeepsTokens
  <2>5. CASE Cleanup
    <3>1. /\ UNCHANGED <<names, orders, authz>> /\ tokens' = {}
          /\ slots' = Unprovision(slots, tokens)
          /\ pc' \in {"open", "failed", "started", "sleep"}
      BY <2>5 DEF Cleanup, After, runVars
    <3>2. slots' = Empty
      BY <3>1 DEF Unprovision, Empty, TableFits
    <3>3. names = {} \/ names \in Configs
      BY ZenonT(30) DEF TokensFit, AuthzFit
    <3> QED BY ZenonT(30), <3>1, <3>2, <3>3, AttemptOver
  <2>6. ASSUME NEW d \in Domains, AuthzValid(d) \/ AuthzOpen(d) PROVE TableFits' /\ TokensFit'
    BY Zenon, <2>6, AuthzAttempt
  <2> QED BY Zenon, <1>8, <2>1, <2>2, <2>3, <2>4, <2>5, <2>6 DEF Manager, AcmeStep
<1> QED BY Zenon, <1>1, <1>2, <1>3, <1>4, <1>5, <1>6, <1>7, <1>8 DEF Next, Renewal

(* A challenge the CA was told of can be answered until the attempt that   *)
(* told it is over, for every number of slots: the attempt's tokens find   *)
(* room because portico_acme_obtain takes no more names than the responder *)
(* has slots, and because its cleanup takes every token away again.        *)
THEOREM ChallengesFindRoom == Spec => []ChallengesAnswered
<1>1. Init => TableFits /\ TokensFit
  <2> SUFFICES ASSUME Init PROVE TableFits /\ TokensFit
    OBVIOUS
  <2>1. TableFits
    BY ZenonT(30) DEF Init, AcmeInit, TableFits, Empty
  <2>2. AuthzFit
    BY ZenonT(30) DEF Init, AcmeInit, AuthzFit
  <2> QED BY ZenonT(30), <2>1, <2>2 DEF Init, AcmeInit, TokensFit
<1>2. TableFits /\ TokensFit /\ [Next]_vars => (TableFits /\ TokensFit)'
  BY Zenon, TokensNext
<1>3. TokensFit => ChallengesAnswered
  BY ZenonT(30) DEF TokensFit, AttemptFits, ChallengesAnswered
<1> QED BY <1>1, <1>2, <1>3, PTL DEF Spec
=============================================================================
