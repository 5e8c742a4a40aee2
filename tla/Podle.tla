-------------------------------- MODULE Podle --------------------------------
(***************************************************************************)
(* Proofs of discrete log equivalence (src/jmclient/podle.py): the         *)
(* commitment a taker makes of a coin's key and an index, and its opening, *)
(* which a maker verifies.                                                 *)
(*                                                                         *)
(* The curve is any group of prime order; as nobody knows a relation of    *)
(* the generators G and J(i) to one another, a point is its coefficients   *)
(* on them.  sha256 of the commitment has no collisions (it is the point   *)
(* itself), and that of the challenge is a constant operator.              *)
(***************************************************************************)
EXTENDS Integers

CONSTANTS
  Order,            \* of the group
  Generators,       \* indices of J
  Sha256(_, _, _, _)

ASSUME OrderAssumption == Order \in Nat \ {0, 1}
ASSUME GeneratorsAssumption == Generators \subseteq Nat

G == -1      \* the place of G beside the indices
Basis == {G} \cup Generators
Point(g) == [h \in Basis |-> IF h = g THEN 1 ELSE 0]
getNUMS(i) == Point(i)

multiply(a, P) == [g \in Basis |-> (a * P[g]) % Order]
add_pubkeys(P, R) == [g \in Basis |-> (P[g] + R[g]) % Order]

getP2(priv, J) == multiply(priv, J)

get_commitment(podle) == podle.P2

(* generate_podle and reveal, with nonce k *)
generate_podle(priv, index, k) ==
  LET J == getNUMS(index)
      P == multiply(priv, Point(G))
      P2 == getP2(priv, J)
      e == Sha256(multiply(k, Point(G)), multiply(k, J), P, P2)
  IN [P |-> P, P2 |-> P2, s |-> (k + priv * e) % Order, e |-> e]

(* What the maker asks: this commitment, opened for some index in range    *)
verify(podle, commitment, index_range) ==
  /\ get_commitment(podle) = commitment
  /\ \E J \in {getNUMS(i) : i \in index_range} :
       LET minus_e == (-podle.e) % Order
           KG == add_pubkeys(multiply(podle.s, Point(G)), multiply(minus_e, podle.P))
           KJ == add_pubkeys(multiply(podle.s, J), multiply(minus_e, podle.P2))
       IN Sha256(KG, KJ, podle.P, podle.P2) = podle.e

(***************************************************************************)
(* What the scheme is relied on for.  Whatever the nonce, the opening of a *)
(* commitment is accepted where its index is; and a commitment is a matter *)
(* of key and index alone, so that to look for it among the used ones      *)
(* finds every use, on both sides.                                         *)
(***************************************************************************)
OpeningVerifies(privs, nonces) ==
  \A priv \in privs : \A k \in nonces : \A i \in Generators :
    LET podle == generate_podle(priv, i, k)
    IN verify(podle, get_commitment(podle), Generators \cap 0..i)

CommitmentIsOfKeyAndIndex(privs, nonces) ==
  \A x, y \in privs : \A k, l \in nonces : \A i, j \in Generators :
    get_commitment(generate_podle(x, i, k)) = get_commitment(generate_podle(y, j, l))
      <=> x = y /\ i = j
=============================================================================
