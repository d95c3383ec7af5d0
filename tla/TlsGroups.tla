----------------------------- MODULE TlsGroups -----------------------------
(***************************************************************************)
(* The TLS contexts of the server.  A group holds the default certificate  *)
(* and one certificate per SNI host.  ws_server_reload_tls rebuilds it     *)
(* from the files, ws_server_add_sni_cert adds a host and rebuilds it; the *)
(* new group replaces the live one in an exchange, and the replaced one is *)
(* freed by the exchange after next.  A handshake takes the live group     *)
(* when its connection is set up and dereferences it at the ClientHello.   *)
(*                                                                         *)
(* The main thread adds, the renewal thread reloads, and nothing keeps     *)
(* them apart.  A list of certificates that main changes while the renewal *)
(* builds a group from it is undefined to read; here the build finds it as *)
(* it is or was, or fails.                                                 *)
(*                                                                         *)
(* The default certificate file belongs to whoever renews it: def is what  *)
(* loading it now gives, 0 when it does not load.  The files of the hosts  *)
(* change hands too, so any build may meet one that does not load.         *)
(***************************************************************************)
EXTENDS Integers, Sequences

CONSTANTS
  Handshakes,  (* connections that may be in their handshake at a time     *)
  ConfigSni,   (* the SNI certificates of the configuration: a sequence of *)
               (* [host, cert] records                                     *)
  Sites,       (* the certificates that may be added: [host, cert] records *)
  Wild,        (* pairs of a "*." host and a name that it covers           *)
  MaxGroups,   (* bound: groups published                                  *)
  MaxAdds      (* bound: no certificate is added after so many             *)

ASSUME TlsAssumption ==
  /\ MaxGroups \in Nat \ {0} /\ MaxAdds \in Nat /\ MaxAdds < MaxGroups
  /\ ConfigSni \in Seq({ConfigSni[i] : i \in DOMAIN ConfigSni})

VARIABLES
  server,      (* the server: "none" yet, "made", "destroyed"              *)
  tls_ctx, tls_ctx_retired,   (* groups, by number; 0 is NULL              *)
  swaps,       (* groups published                                         *)
  group,       (* what each group holds                                    *)
  freed,       (* how often each group was freed                           *)
  rt_sni,      (* certificates added at run time                           *)
  call,        (* the reload or add each caller has under way              *)
  ssl,         (* the group each handshake refers to, 0 for none           *)
  added,       (* auxiliary: what the successful adds asked for, in order  *)
  blended,     (* auxiliary: the call that published the live group was    *)
               (* not alone                                                *)
  clashed      (* auxiliary: swap_tls_group was called during itself       *)

auxVars == <<added, blended, clashed>>
tlsVars == <<server, tls_ctx, tls_ctx_retired, swaps, group, freed, rt_sni, call, ssl,
             auxVars>>

Groups == 1..MaxGroups
Callers == {"main", "renewal"}
Other(c) == IF c = "main" THEN "renewal" ELSE "main"

(* A call: its step, the certificate it adds and the list to go back to,   *)
(* the group it built, the one it replaced; whether the other caller has   *)
(* had no call under way since it began.                                   *)
Call(step, ask, undo, ng, old, alone) ==
  [step |-> step, ask |-> ask, undo |-> undo, ng |-> ng, old |-> old, alone |-> alone]
NoCall == Call("idle", <<>>, <<>>, <<>>, 0, TRUE)
Quiet == \A c \in Callers : call[c] = NoCall
Pending(c) == IF call[c].step \in {"build", "swap"} THEN 1 ELSE 0
NoGroup == [def |-> 0, sni |-> <<>>]

-----------------------------------------------------------------------------
(* build_tls_group: the default certificate, then the ones of the          *)
(* configuration, then the added ones.                                     *)
AllSni(rt) == ConfigSni \o rt
BuiltForgets(def, rt) == [def |-> def, sni |-> ConfigSni]   (* mutant *)
Built(def, rt) == [def |-> def, sni |-> AllSni(rt)]

(* sni_cb: the first entry that covers the name, else the default.         *)
host_match(pat, host) == pat = host \/ <<pat, host>> \in Wild
Presents(g, host) ==
  LET match == {i \in 1..Len(g.sni) : host_match(g.sni[i].host, host)}
  IN IF match = {} THEN g.def
     ELSE g.sni[CHOOSE i \in match : \A j \in match : i <= j].cert

(* The runtime list with a certificate for a host: updated in place or     *)
(* appended.                                                               *)
WithEntry(rt, e) ==
  IF \E i \in 1..Len(rt) : rt[i].host = e.host
  THEN [i \in 1..Len(rt) |-> IF rt[i].host = e.host THEN e ELSE rt[i]]
  ELSE Append(rt, e)

-----------------------------------------------------------------------------
TlsInit ==
  /\ server = "none"
  /\ tls_ctx = 1 /\ tls_ctx_retired = 0 /\ swaps = 1
  /\ group = [g \in Groups |-> NoGroup]
  /\ freed = [g \in Groups |-> 0]
  /\ rt_sni = <<>>
  /\ added = <<>> /\ blended = FALSE /\ clashed = FALSE
  /\ call = [c \in Callers |-> NoCall]
  /\ ssl = [c \in Handshakes |-> 0]

(* The process is gone, and the server with it.                            *)
TlsGone ==
  /\ server' = "none"
  /\ tls_ctx' = 1 /\ tls_ctx_retired' = 0 /\ swaps' = 1
  /\ group' = [g \in Groups |-> NoGroup]
  /\ freed' = [g \in Groups |-> 0]
  /\ rt_sni' = <<>>
  /\ added' = <<>> /\ blended' = FALSE /\ clashed' = FALSE
  /\ call' = [c \in Callers |-> NoCall]
  /\ ssl' = [c \in Handshakes |-> 0]

(* ws_server_create builds the first group; without it there is no server. *)
Create(def) ==
  /\ server = "none" /\ def # 0
  /\ server' = "made"
  /\ group' = [group EXCEPT ![1] = Built(def, <<>>)]
  /\ UNCHANGED <<tls_ctx, tls_ctx_retired, swaps, freed, rt_sni, call, ssl, auxVars>>

(* A call begins, and goes on.                                             *)
Begins(c, ask, undo) ==
  LET free == call[Other(c)] = NoCall
  IN call' = [d \in Callers |->
                IF d = c THEN Call("build", ask, undo, <<>>, 0, free)
                ELSE Call(call[d].step, call[d].ask, call[d].undo, call[d].ng, call[d].old, free)]

GoesTo(c, step, ng, old) ==
  call' = [call EXCEPT ![c] = Call(step, call[c].ask, call[c].undo, ng, old, call[c].alone)]

(* ws_server_reload_tls, by the renewal thread.                            *)
ReloadCall ==
  /\ server = "made" /\ call["renewal"] = NoCall
  /\ swaps + Pending("main") < MaxGroups
  /\ Begins("renewal", <<>>, <<>>)
  /\ UNCHANGED <<server, tls_ctx, tls_ctx_retired, swaps, group, freed, rt_sni, ssl, auxVars>>

(* ws_server_add_sni_cert, by main: the certificate enters the list.       *)
AddCall(e) ==
  /\ server = "made" /\ call["main"] = NoCall
  /\ swaps + Pending("renewal") <= MaxAdds
  /\ rt_sni' = WithEntry(rt_sni, e)
  /\ Begins("main", <<e>>, rt_sni)
  /\ UNCHANGED <<server, tls_ctx, tls_ctx_retired, swaps, group, freed, ssl, auxVars>>

(* The list as a build may find it.                                        *)
Seen(c) == {rt_sni} \union {call[d].undo : d \in {d \in Callers \ {c} : call[d].ask # <<>>}}

(* The new group is built ...                                              *)
Build(c, def) ==
  /\ call[c].step = "build" /\ def # 0
  /\ \E rt \in Seen(c) : GoesTo(c, "swap", <<Built(def, rt)>>, call[c].old)
  /\ UNCHANGED <<server, tls_ctx, tls_ctx_retired, swaps, group, freed, rt_sni, ssl, auxVars>>

(* ... or a file does not load: the runtime list is as it was, the live    *)
(* group stays.                                                            *)
BuildFails(c) ==
  /\ call[c].step = "build"
  /\ rt_sni' = IF call[c].ask = <<>> THEN rt_sni ELSE call[c].undo
  /\ call' = [call EXCEPT ![c] = NoCall]
  /\ UNCHANGED <<server, tls_ctx, tls_ctx_retired, swaps, group, freed, ssl, auxVars>>

(* swap_tls_group: the exchange,                                           *)
Exchange(c) ==
  /\ call[c].step = "swap"
  /\ swaps' = swaps + 1
  /\ tls_ctx' = swaps + 1
  /\ group' = [group EXCEPT ![swaps + 1] = call[c].ng[1]]
  /\ GoesTo(c, "free", <<>>, tls_ctx)
  /\ blended' = ~call[c].alone
  /\ clashed' = (clashed \/ call[Other(c)].step \in {"free", "retire"})
  /\ UNCHANGED <<server, tls_ctx_retired, freed, rt_sni, ssl, added>>

(* Mutant: the replaced group is freed at once.                            *)
FreesReplaced(c) ==
  /\ call[c].step = "free"
  /\ freed' = [g \in Groups |-> freed[g] + (IF g = call[c].old THEN 1 ELSE 0)]
  /\ GoesTo(c, "retire", <<>>, call[c].old)
  /\ UNCHANGED <<server, tls_ctx, tls_ctx_retired, swaps, group, rt_sni, ssl, auxVars>>

(* the group retired by the call before,                                   *)
FreeRetired(c) ==
  /\ call[c].step = "free"
  /\ freed' = [g \in Groups |-> freed[g] + (IF g = tls_ctx_retired THEN 1 ELSE 0)]
  /\ GoesTo(c, "retire", <<>>, call[c].old)
  /\ UNCHANGED <<server, tls_ctx, tls_ctx_retired, swaps, group, rt_sni, ssl, auxVars>>

(* the replaced group; the call returns 0.                                 *)
Retire(c) ==
  /\ call[c].step = "retire"
  /\ tls_ctx_retired' = call[c].old
  /\ added' = IF call[c].ask = <<>> THEN added ELSE WithEntry(added, call[c].ask[1])
  /\ call' = [call EXCEPT ![c] = NoCall]
  /\ UNCHANGED <<server, tls_ctx, swaps, group, freed, rt_sni, ssl, blended, clashed>>

(* ws_tls_conn_new of a connection: its SSL refers to the live group ...   *)
ConnNew(c) ==
  /\ server = "made" /\ ssl[c] = 0
  /\ ssl' = [ssl EXCEPT ![c] = tls_ctx]
  /\ UNCHANGED <<server, tls_ctx, tls_ctx_retired, swaps, group, freed, rt_sni, call, auxVars>>

(* ... and sni_cb reads that group when the ClientHello comes, or the      *)
(* connection ends before.                                                 *)
HelloOrEnd(c) ==
  /\ ssl[c] # 0
  /\ ssl' = [ssl EXCEPT ![c] = 0]
  /\ UNCHANGED <<server, tls_ctx, tls_ctx_retired, swaps, group, freed, rt_sni, call, auxVars>>

(* ws_server_destroy frees both groups and the list; the event threads     *)
(* have ended, so no handshake goes on.                                    *)
TlsDestroy ==
  /\ server = "made" /\ Quiet
  /\ server' = "destroyed"
  /\ freed' = [g \in Groups |-> freed[g] + (IF g \in {tls_ctx, tls_ctx_retired} THEN 1 ELSE 0)]
  /\ rt_sni' = <<>>
  /\ ssl' = [c \in Handshakes |-> 0]
  /\ UNCHANGED <<tls_ctx, tls_ctx_retired, swaps, group, call, auxVars>>

(* A step of the call a caller has under way.                              *)
CallStep(c, def) ==
  Build(c, def) \/ BuildFails(c) \/ Exchange(c) \/ FreeRetired(c) \/ Retire(c)

(* A step of a handshake.                                                  *)
HandshakeStep == \E c \in Handshakes : ConnNew(c) \/ HelloOrEnd(c)

-----------------------------------------------------------------------------
(* Properties.                                                             *)

(* The live group holds the certificates of the configuration and every    *)
(* added one, so a failed add leaves no trace and a later reload keeps     *)
(* what was added; unless the call that published it was not alone.        *)
LiveGroupComplete ==
  server = "made" /\ Pending("main") = 0 /\ ~blended
    => group[tls_ctx].sni = AllSni(rt_sni)

(* "The new domain is presented immediately to new handshakes; reloads     *)
(* preserve it": once ws_server_add_sni_cert has returned 0, unless the    *)
(* configuration or an earlier add has an entry that covers the host, or   *)
(* the call that published the live group was not alone.                   *)
AddedIsPresented ==
  server = "made" /\ call["main"] = NoCall /\ ~blended =>
    \A i \in 1..Len(added) :
      \/ Presents(group[tls_ctx], added[i].host) = added[i].cert
      \/ \E k \in 1..Len(ConfigSni) : host_match(ConfigSni[k].host, added[i].host)
      \/ \E k \in 1..(i - 1) : host_match(added[k].host, added[i].host)

(* The caller in swap_tls_group, as HotSwap has it.                        *)
Swapping(c) == call[c].step \in {"free", "retire"}
Swapper == IF Swapping("main") THEN "main" ELSE "renewal"
Writer == [step |-> IF Swapping(Swapper) THEN call[Swapper].step ELSE "idle",
           old |-> call[Swapper].old]

Swap == INSTANCE HotSwap WITH
  Readers <- Handshakes, First <- 1, MaxTables <- MaxGroups,
  current <- tls_ctx, retired <- tls_ctx_retired, swaps <- swaps, freed <- freed,
  writer <- Writer, reading <- ssl, closed <- (server = "destroyed")

(* The groups are swapped as HotSwap swaps tables, reads and frees         *)
(* included, until two threads are in swap_tls_group at a time.            *)
SwapsLikeHotSwap == Swap!Init /\ [][~clashed' => Swap!Next]_Swap!vars

(* So far, a handshake finds its group freed only when the group was       *)
(* replaced twice since the handshake began, and every group is freed      *)
(* exactly once.                                                           *)
GroupsOutliveOneSwap == ~clashed => Swap!GraceOfOneSwap /\ Swap!TablesAccounted

(* A group is freed once, when "any handshake that referenced it has long  *)
(* completed (swaps are reloads / domain additions, spaced far apart       *)
(* relative to a handshake)".                                              *)
FreedIsUnused ==
  \A g \in Groups : freed[g] > 0 => freed[g] = 1 /\ \A c \in Handshakes : ssl[c] # g
=============================================================================
