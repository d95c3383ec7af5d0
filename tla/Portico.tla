------------------------------ MODULE Portico ------------------------------
(***************************************************************************)
(* The portico_server process: the certificate manager keeps the default   *)
(* certificate file current, the server presents it.  main makes sure of a *)
(* certificate, creates the server, installs the certificates of added     *)
(* sites on a reload of the configuration, and stops both.  A renewal      *)
(* calls back into the server, which rebuilds its TLS contexts.            *)
(***************************************************************************)
EXTENDS Acme, TlsGroups

VARIABLE missed   (* auxiliary: the server was not told of what was written, *)
                  (* or its reload failed                                    *)

vars == <<acmeVars, tlsVars, missed>>

Init == AcmeInit /\ TlsInit /\ missed = FALSE

-----------------------------------------------------------------------------
(* start_acme, in a new process.                                           *)
StartAcme == Start /\ TlsGone /\ missed' = FALSE

(* A step of the manager; on_renewed is not called after a failed write.   *)
Manager ==
  /\ AcmeStep
  /\ missed' = (missed \/ (pc = "write" /\ faults' # faults))
  /\ UNCHANGED tlsVars

(* The renewal thread's period is over; it is hours long, so the server    *)
(* was created in the meantime.                                            *)
NextPeriod == server = "made" /\ Period /\ UNCHANGED <<tlsVars, missed>>

(* on_cert_renewed without a server does nothing, with one it reloads.     *)
NotifyNobody ==
  /\ pc = "notify" /\ server # "made"
  /\ Notified
  /\ UNCHANGED <<tlsVars, missed>>

Reload ==
  /\ pc = "notify"
  /\ pc' = "reload"
  /\ ReloadCall
  /\ UNCHANGED <<runVars, obtainVars, slots, stop_fd, authz, orders, fileVars, faults, missed>>

ReloadReturns ==
  /\ pc = "reload" /\ call["renewal"] = NoCall
  /\ Notified
  /\ UNCHANGED <<tlsVars, missed>>

(* A call of the server goes on; that the reload failed is reported to     *)
(* nobody.  Whoever publishes the certificate on disk makes up for it.     *)
ServerCall(c) ==
  /\ CallStep(c, OnDisk)
  /\ missed' = CASE call[c].step = "build" /\ call'[c] = NoCall -> missed \/ c = "renewal"
                 [] call[c].step = "swap" -> missed /\ call[c].ng[1].def # OnDisk
                 [] OTHER -> missed
  /\ UNCHANGED acmeVars

Handshake == HandshakeStep /\ UNCHANGED <<acmeVars, missed>>

(* main creates the server; if it cannot, or there is no certificate, the  *)
(* process ends.                                                           *)
CreateServer ==
  /\ pc \in {"sleep", "unattended"}
  /\ Create(OnDisk)
  /\ UNCHANGED <<acmeVars, missed>>

StartFails ==
  /\ \/ pc = "failed"
     \/ pc \in {"sleep", "unattended"} /\ server = "none"
  /\ Exit
  /\ UNCHANGED <<tlsVars, missed>>

(* do_reload installs the certificate of a site, one call after another    *)
(* for the sites of the configuration, whatever the renewal thread does.   *)
InstallSite(e) ==
  /\ ~stop_fd
  /\ AddCall(e)
  /\ UNCHANGED <<acmeVars, missed>>

(* main ends: the manager is stopped, the server destroyed.                *)
StopAcme ==
  /\ server = "made" /\ call["main"] = NoCall
  /\ Stop
  /\ UNCHANGED <<tlsVars, missed>>

AcmeStopped == Joined /\ UNCHANGED <<tlsVars, missed>>

DestroyServer == pc = "stopped" /\ TlsDestroy /\ UNCHANGED <<acmeVars, missed>>

Return == server = "destroyed" /\ Exit /\ TlsGone /\ missed' = FALSE

Dies == Crash /\ TlsGone /\ missed' = FALSE

CaValidates == (\E d \in Domains : Validate(d)) /\ UNCHANGED <<tlsVars, missed>>

CertExpires == Expire /\ UNCHANGED <<tlsVars, missed>>

(* What goes on by itself in the manager, main and the CA.                 *)
Renewal ==
  \/ Manager \/ NextPeriod \/ NotifyNobody \/ Reload \/ ReloadReturns
  \/ CreateServer \/ StartFails \/ CaValidates

Next ==
  \/ StartAcme \/ Renewal \/ Handshake \/ StopAcme \/ AcmeStopped
  \/ DestroyServer \/ Return \/ Dies \/ CertExpires
  \/ \E c \in Callers : ServerCall(c)
  \/ \E e \in Sites : InstallSite(e)

Spec == Init /\ [][Next]_vars

(* The threads run, the period ends, and the CA validates what it was told *)
(* of.  Nothing is assumed to fail, expire, stop, start or be added.       *)
FairSpec == Spec /\ WF_vars(Renewal) /\ WF_vars(ServerCall("renewal"))

-----------------------------------------------------------------------------
(* Properties.                                                             *)

(* The certificate new handshakes are shown is the one on disk, from the   *)
(* moment the renewal's callback returned, unless the write was reported   *)
(* as failed or the reload failed, or the call that published the live     *)
(* group was not alone.                                                    *)
ServedIsCurrent ==
  server = "made" /\ OnDisk # 0 /\ pc \notin {"notify", "reload"}
    => group[tls_ctx].def = OnDisk \/ missed \/ blended

(* The manager looks after the certificate.                                *)
Attended == pc \notin {"down", "failed", "unattended", "stopped"} /\ ~stop_fd

(* A certificate that is missing, due or short of a name is replaced while *)
(* somebody looks after it, whatever failed or crashed before.             *)
RenewalCompletes ==
  Attended /\ (NeedsRenewal \/ ~Covers) ~> ~Attended \/ (~NeedsRenewal /\ Covers)
=============================================================================
