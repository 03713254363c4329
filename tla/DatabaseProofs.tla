---------------------------- MODULE DatabaseProofs ---------------------------
(***************************************************************************)
(* What statements make of a connection, for the proofs about the programs *)
(* that execute them.                                                      *)
(***************************************************************************)
EXTENDS Database, TLAPS

(* A statement adds nothing to a connection but itself, and what is        *)
(* pending may become durable.                                             *)
LEMMA AfterAdds ==
    ASSUME NEW d \in Connection, NEW k \in Kind, NEW s \in Nat
    PROVE  /\ After(d, k, s) \in Connection
           /\ After(d, k, s).durable \subseteq d.durable \cup d.pending \cup {s}
           /\ After(d, k, s).pending \subseteq d.pending \cup {s}
  BY DEF Connection, Kind, After, Conn

LEMMA AfterBegin ==
    ASSUME NEW d \in Connection, NEW s \in Nat
    PROVE  After(d, "begin", s) = Conn(TRUE, d.pending, d.durable)
  BY DEF Connection, After, Conn

LEMMA AfterCommit ==
    ASSUME NEW d \in Connection, NEW s \in Nat
    PROVE  After(d, "commit", s) = Conn(FALSE, {}, d.durable \cup d.pending)
  BY DEF Connection, After, Conn

LEMMA AfterPlain ==
    ASSUME NEW d \in Connection, NEW s \in Nat, d.open
    PROVE  After(d, "plain", s) = Conn(TRUE, d.pending \cup {s}, d.durable)
  BY DEF Connection, After, Conn

LEMMA AfterPlainAlone ==
    ASSUME NEW d \in Connection, NEW s \in Nat, ~ d.open
    PROVE  After(d, "plain", s) = Conn(FALSE, d.pending, d.durable \cup {s})
  BY DEF Connection, After, Conn

LEMMA AbortDrops ==
    ASSUME NEW d \in Connection
    PROVE  /\ Abort(d) \in Connection
           /\ Abort(d).durable = d.durable /\ Abort(d).pending = {} /\ ~ Abort(d).open
  BY DEF Connection, Abort, Conn
==============================================================================
