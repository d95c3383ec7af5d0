----------------------------- MODULE MCPortico -----------------------------
(* Portico with a host in the configuration, another one that may be added *)
(* at run time, and a "*." host that covers it.                            *)
EXTENDS Portico

CONSTANTS d1, d2, a, b, w, p, q

MCDomains == {d1, d2}
MCConfigs == {{d1}, {d1, d2}}
MCConfigSni == <<[host |-> a, cert |-> p]>>
MCSites == {[host |-> b, cert |-> q], [host |-> w, cert |-> p]}
MCWild == {<<w, b>>}
=============================================================================
