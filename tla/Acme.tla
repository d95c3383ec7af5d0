-------------------------------- MODULE Acme --------------------------------
(***************************************************************************)
(* Automatic certificates: the manager that keeps a certificate file       *)
(* current, the ACME flow that obtains a certificate, and the HTTP-01      *)
(* responder that answers the CA's challenges.  portico_acme_manager_start *)
(* makes sure of a certificate before there is a server; the renewal       *)
(* thread then looks at the file every period.                             *)
(*                                                                         *)
(* The CA is external: it validates a challenge by asking the responder    *)
(* for the token, at any time after it was told that the token is there.   *)
(* A request to the CA is one step that is answered as wanted or fails     *)
(* (the nonce and its retry included).  The process may crash between any  *)
(* two steps; the files survive.  Faults are bounded by MaxFaults.         *)
(***************************************************************************)
EXTENDS Integers, FiniteSets

CONSTANTS
  Domains,     (* names a certificate may be for                           *)
  Configs,     (* the sets of names a start may be configured with         *)
  Slots,       (* RESP_MAX_SLOTS, as many as ACME_MAX_DOMAINS              *)
  Faults,      (* what may fail: "ca" a request, "key" and "cert" writing  *)
               (* the files, "thread" starting the renewal, "crash"        *)
  MaxFaults,   (* bound: faults                                            *)
  MaxOrders,   (* bound: no certificate expires after so many orders       *)
  NULL

(* portico_acme_obtain refuses more names than ACME_MAX_DOMAINS.           *)
ASSUME AcmeAssumption ==
  /\ Slots \in Nat
  /\ \A c \in Configs : c \subseteq Domains /\ IsFiniteSet(c) /\ Cardinality(c) <= Slots
  /\ NULL \notin Nat \X Domains

VARIABLES
  pc,          (* where the manager is                                     *)
  first,       (* whether it is in the ensure of portico_acme_manager_start *)
  names,       (* the configured names                                     *)
  todo,        (* authorizations of the order not yet dealt with           *)
  at,          (* the one being dealt with                                 *)
  rc,          (* what portico_acme_obtain is to return                    *)
  tokens,      (* the tokens it provisioned                                *)
  slots,       (* the responder's table                                    *)
  stop_fd,     (* whether a stop was requested                             *)
  authz,       (* the CA's authorization of each name: status and token    *)
  orders,      (* orders placed; the number of the last one                *)
  csr,         (* the key the requested certificate is for                 *)
  certFile,    (* what cert_path holds                                     *)
  keyFile,     (* the key that cert_key_path holds, 0 for none             *)
  faults,      (* faults so far                                            *)
  unsaved      (* auxiliary: the new keys that were not saved              *)

acmeVars == <<pc, first, names, todo, at, rc, tokens, slots, stop_fd, authz, orders,
              csr, certFile, keyFile, faults, unsaved>>
obtainVars == <<todo, at, rc, tokens, csr>>
fileVars == <<certFile, keyFile, unsaved>>
runVars == <<first, names, stop_fd>>

Table == 1..Slots
Empty == [s \in Table |-> NULL]
Token(n, d) == <<n, d>>

(* cert_path: "none", "empty", "leaf" when a write ended inside the chain  *)
(* after the leaf, or "whole"; the order and the key of the certificate;   *)
(* whether it is in its renewal window; its names.                         *)
NoCert == [body |-> "none", order |-> 0, key |-> 0, due |-> FALSE, names |-> {}]

(* portico_acme_cert_days_left and portico_acme_cert_covers parse the leaf *)
(* alone.                                                                  *)
Parses == certFile.body \in {"leaf", "whole"}
NeedsRenewal == ~Parses \/ certFile.due
Covers == Parses /\ names \subseteq certFile.names

(* The TLS loader wants the whole chain, and the key of the leaf.          *)
OnDisk == IF certFile.body = "whole" /\ certFile.key = keyFile THEN certFile.order ELSE 0

Fault(kind) ==
  /\ kind \in Faults /\ faults < MaxFaults
  /\ faults' = faults + 1

-----------------------------------------------------------------------------
(* The responder.                                                          *)

(* portico_acme_responder_provision: the token's slot, else the first free *)
(* one, else nothing.                                                      *)
Provision(table, t) ==
  LET same == {s \in Table : table[s] = t}
      free == {s \in Table : table[s] = NULL}
      pick == IF same # {} THEN same ELSE free
  IN IF pick = {} THEN table
     ELSE [table EXCEPT ![CHOOSE s \in pick : \A o \in pick : s <= o] = t]

(* portico_acme_responder_unprovision, for each token.                     *)
Unprovision(table, ts) == [s \in Table |-> IF table[s] \in ts THEN NULL ELSE table[s]]

(* portico_acme_responder_lookup.                                          *)
Answers(table, t) == \E s \in Table : table[s] = t

-----------------------------------------------------------------------------
AcmeInit ==
  /\ pc = "down" /\ first = FALSE /\ names = {}
  /\ todo = {} /\ at = NULL /\ rc = 0 /\ tokens = {} /\ csr = 0
  /\ slots = Empty
  /\ stop_fd = FALSE
  /\ authz = [d \in Domains |-> [st |-> "none", tok |-> NULL, told |-> FALSE]]
  /\ orders = 0
  /\ certFile = NoCert /\ keyFile = 0
  /\ faults = 0 /\ unsaved = {}

(* portico_acme_manager_start: a responder, then ensure.                   *)
Start ==
  /\ pc = "down"
  /\ pc' = "check" /\ first' = TRUE
  /\ names' \in Configs
  /\ slots' = Empty
  /\ UNCHANGED <<obtainVars, stop_fd, authz, orders, fileVars, faults>>

(* portico_acme_manager_ensure returned r: the first one fails the start   *)
(* or is followed by the renewal thread, a later one by its next sleep.    *)
After(r) == IF first THEN (IF r < 0 THEN "failed" ELSE "started") ELSE "sleep"

(* Mutant: any certificate that parses is left alone.                      *)
CheckParsesOnly ==
  /\ pc = "check"
  /\ pc' = IF Parses THEN After(0) ELSE "order"
  /\ UNCHANGED <<runVars, obtainVars, slots, authz, orders, fileVars, faults>>

(* The look at the file.                                                   *)
Check ==
  /\ pc = "check"
  /\ pc' = IF ~NeedsRenewal /\ Covers THEN After(0) ELSE "order"
  /\ UNCHANGED <<runVars, obtainVars, slots, authz, orders, fileVars, faults>>

Reusable(d) == authz[d].st = "valid" \/ (authz[d].st = "pending" /\ ~authz[d].told)

(* portico_acme_obtain connects and places an order.  The CA may carry     *)
(* over an authorization that is valid or that it has not been told of.    *)
Order ==
  /\ pc = "order"
  /\ orders' = orders + 1
  /\ \E kept \in SUBSET {d \in names : Reusable(d)} :
       authz' = [d \in Domains |->
                   IF d \in names \ kept
                   THEN [st |-> "pending", tok |-> Token(orders + 1, d), told |-> FALSE] ELSE authz[d]]
  /\ todo' = names /\ tokens' = {} /\ rc' = -1
  /\ pc' = "authz"
  /\ UNCHANGED <<runVars, at, slots, csr, fileVars, faults>>

(* A request failed, or was answered with a failure, or the CSR could not  *)
(* be made, or the CA did not validate in time: goto cleanup.              *)
ObtainFails ==
  /\ pc \in {"order", "authz", "ready", "poll", "csr", "issue"}
  /\ Fault("ca")
  /\ pc' = "cleanup" /\ rc' = -1
  /\ tokens' = IF pc = "order" THEN {} ELSE tokens
  /\ UNCHANGED <<runVars, todo, at, csr, slots, authz, orders, fileVars>>

(* An authorization is fetched.  A valid one is passed over; for another   *)
(* the token is provisioned and noted ...                                  *)
Done(d) ==
  /\ todo' = todo \ {d}
  /\ pc' = IF todo = {d} THEN "poll" ELSE "authz"

AuthzValid(d) ==
  /\ pc = "authz" /\ d \in todo
  /\ authz[d].st = "valid"
  /\ Done(d)
  /\ UNCHANGED <<runVars, rc, tokens, at, csr, slots, authz, orders, fileVars, faults>>

AuthzOpen(d) ==
  /\ pc = "authz" /\ d \in todo
  /\ authz[d].st # "valid"
  /\ slots' = Provision(slots, authz[d].tok)
  /\ tokens' = tokens \union {authz[d].tok}
  /\ at' = d /\ pc' = "ready"
  /\ UNCHANGED <<runVars, todo, rc, csr, authz, orders, fileVars, faults>>

(* ... and the CA is told; it may have heard it though the request fails.  *)
ChallengeReady ==
  /\ pc = "ready"
  /\ authz' = [authz EXCEPT ![at].told = TRUE]
  /\ \/ Done(at) /\ UNCHANGED faults
     \/ pc' = "cleanup" /\ todo' = {} /\ Fault("ca")
  /\ at' = NULL
  /\ UNCHANGED <<runVars, rc, tokens, csr, slots, orders, fileVars>>

(* poll_status of every authorization: all are valid, or one is in a       *)
(* terminal state; while one is pending its poll goes on.                  *)
AllValid ==
  /\ pc = "poll"
  /\ \A d \in names : authz[d].st = "valid"
  /\ pc' = "csr"
  /\ UNCHANGED <<runVars, obtainVars, slots, authz, orders, fileVars, faults>>

OneInvalid ==
  /\ pc = "poll"
  /\ \E d \in names : authz[d].st = "invalid"
  /\ pc' = "cleanup"
  /\ UNCHANGED <<runVars, obtainVars, slots, authz, orders, fileVars, faults>>

(* Mutant: every request has a new key.                                    *)
MakeCsrAlwaysNewKey ==
  /\ pc = "csr"
  /\ pc' = "issue"
  /\ csr' = orders /\ keyFile' = orders
  /\ UNCHANGED <<runVars, todo, rc, tokens, at, slots, authz, orders, certFile, unsaved, faults>>

(* acme_pkey_load_or_create: the key of cert_key_path, else a new one.     *)
CertKey == IF keyFile # 0 THEN keyFile ELSE orders

(* portico_acme_make_csr: that a new key could not be saved goes unnoticed. *)
MakeCsr ==
  /\ pc = "csr"
  /\ pc' = "issue"
  /\ csr' = CertKey
  /\ \/ keyFile' = csr' /\ UNCHANGED <<unsaved, faults>>
     \/ keyFile = 0 /\ Fault("key") /\ keyFile' = 0 /\ unsaved' = unsaved \union {csr'}
  /\ UNCHANGED <<runVars, todo, rc, tokens, at, slots, authz, orders, certFile>>

(* do_finalize, poll_status of the order, download_cert.                   *)
Issue ==
  /\ pc = "issue"
  /\ pc' = "cleanup" /\ rc' = 0
  /\ UNCHANGED <<runVars, todo, tokens, at, csr, slots, authz, orders, fileVars, faults>>

(* Mutant: the tokens of a failed attempt stay.                            *)
CleanupAfterSuccess ==
  /\ pc = "cleanup"
  /\ slots' = IF rc = 0 THEN Unprovision(slots, tokens) ELSE slots
  /\ pc' = IF rc = 0 THEN "open" ELSE After(-1)
  /\ csr' = IF rc = 0 THEN csr ELSE 0
  /\ todo' = {} /\ at' = NULL /\ tokens' = {} /\ rc' = 0
  /\ UNCHANGED <<runVars, authz, orders, fileVars, faults>>

(* cleanup: every noted token leaves the responder.                        *)
Cleanup ==
  /\ pc = "cleanup"
  /\ slots' = Unprovision(slots, tokens)
  /\ pc' = IF rc = 0 THEN "open" ELSE After(-1)
  /\ csr' = IF rc = 0 THEN csr ELSE 0
  /\ todo' = {} /\ at' = NULL /\ tokens' = {} /\ rc' = 0
  /\ UNCHANGED <<runVars, authz, orders, fileVars, faults>>

(* write_public opens the file, which empties it ...                       *)
OpenTrunc ==
  /\ pc = "open"
  /\ \/ /\ certFile' = [NoCert EXCEPT !.body = "empty"]
        /\ pc' = "write" /\ UNCHANGED faults
     \/ Fault("cert") /\ pc' = After(-1) /\ UNCHANGED certFile
  /\ UNCHANGED <<runVars, obtainVars, slots, authz, orders, keyFile, unsaved>>

(* ... and writes the chain, or less than the chain; or all of it, and     *)
(* close fails, which counts as a failure too.                             *)
Chain(body) == [body |-> body, order |-> orders, key |-> csr, due |-> FALSE, names |-> names]

(* Mutant: nobody is told of the new certificate.                          *)
WriteNoNotify ==
  /\ pc = "write"
  /\ certFile' = Chain("whole") /\ pc' = After(1)
  /\ csr' = 0
  /\ UNCHANGED <<runVars, todo, at, rc, tokens, slots, authz, orders, keyFile, unsaved, faults>>

Write ==
  /\ pc = "write"
  /\ \/ certFile' = Chain("whole") /\ pc' = "notify" /\ UNCHANGED faults
     \/ Fault("cert") /\ pc' = After(-1) /\ certFile' \in {certFile, Chain("leaf"), Chain("whole")}
  /\ csr' = 0
  /\ UNCHANGED <<runVars, todo, at, rc, tokens, slots, authz, orders, keyFile, unsaved>>

(* on_renewed returned.                                                    *)
Notified ==
  /\ pc \in {"notify", "reload"}
  /\ pc' = After(1)
  /\ UNCHANGED <<runVars, obtainVars, slots, authz, orders, fileVars, faults>>

(* The renewal thread is started, or is not: the start succeeds anyway.    *)
StartThread ==
  /\ pc = "started"
  /\ first' = FALSE
  /\ \/ pc' = "sleep" /\ UNCHANGED faults
     \/ Fault("thread") /\ pc' = "unattended"
  /\ UNCHANGED <<names, stop_fd, obtainVars, slots, authz, orders, fileVars>>

(* renew_loop: a stop ends the sleep and the thread, else the period does  *)
(* and the file is looked at again.                                        *)
Period ==
  /\ pc = "sleep" /\ ~stop_fd
  /\ pc' = "check"
  /\ UNCHANGED <<runVars, obtainVars, slots, authz, orders, fileVars, faults>>

(* portico_acme_manager_stop, when the server is up ...                    *)
Stop ==
  /\ pc # "down" /\ ~first /\ ~stop_fd
  /\ stop_fd' = TRUE
  /\ UNCHANGED <<pc, first, names, obtainVars, slots, authz, orders, fileVars, faults>>

(* ... joins the thread and stops the responder.                           *)
Joined ==
  /\ pc \in {"sleep", "unattended"} /\ stop_fd
  /\ pc' = "stopped"
  /\ slots' = Empty
  /\ UNCHANGED <<runVars, obtainVars, authz, orders, fileVars, faults>>

(* The process is gone.                                                    *)
AcmeGone ==
  /\ pc' = "down" /\ stop_fd' = FALSE /\ first' = FALSE /\ names' = {}
  /\ todo' = {} /\ at' = NULL /\ rc' = 0 /\ tokens' = {} /\ csr' = 0
  /\ slots' = Empty
  /\ UNCHANGED <<authz, orders, keyFile, unsaved>>

(* main returns.                                                           *)
Exit == AcmeGone /\ UNCHANGED <<certFile, faults>>

(* The process dies.  In a write it leaves the file empty or cut short.    *)
Crash ==
  /\ pc # "down"
  /\ Fault("crash")
  /\ AcmeGone
  /\ certFile' \in {certFile} \union (IF pc = "write" THEN {Chain("leaf")} ELSE {})

(* The CA asks the responder for the token of a challenge; it may find the *)
(* name pointing elsewhere.                                                *)
Validate(d) ==
  /\ authz[d].st = "pending" /\ authz[d].told
  /\ \/ /\ authz' = [authz EXCEPT ![d].st =
                      IF Answers(slots, authz[d].tok) THEN "valid" ELSE "invalid"]
        /\ UNCHANGED faults
     \/ Fault("ca") /\ authz' = [authz EXCEPT ![d].st = "invalid"]
  /\ UNCHANGED <<pc, runVars, obtainVars, slots, orders, fileVars>>

(* The certificate enters its renewal window.                              *)
Expire ==
  /\ Parses /\ ~certFile.due
  /\ orders < MaxOrders
  /\ certFile' = [certFile EXCEPT !.due = TRUE]
  /\ UNCHANGED <<pc, runVars, obtainVars, slots, authz, orders, keyFile, unsaved, faults>>

AcmeStep ==
  \/ Check \/ Order \/ ObtainFails \/ ChallengeReady
  \/ AllValid \/ OneInvalid \/ MakeCsr \/ Issue \/ Cleanup \/ OpenTrunc \/ Write \/ StartThread
  \/ \E d \in Domains : AuthzValid(d) \/ AuthzOpen(d)

-----------------------------------------------------------------------------
(* Properties.                                                             *)

(* A challenge the CA was told of can be answered until the attempt that   *)
(* told it is over: the table has room for every name of an order, because *)
(* each attempt, failed or not, took its tokens away.                      *)
ChallengesAnswered ==
  pc \in {"authz", "ready", "poll"} => \A t \in tokens : Answers(slots, t)

(* A certificate that ensure leaves alone can be loaded by the server,     *)
(* unless the chain was cut short after its leaf or the key was not saved. *)
CurrentLoads ==
  ~NeedsRenewal /\ pc # "down" => OnDisk # 0 \/ certFile.body = "leaf" \/ certFile.key \in unsaved
=============================================================================
