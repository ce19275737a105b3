---------------------------- MODULE MCWhiteboard ----------------------------
(* Instances of Whiteboard: small logic programs. *)
EXTENDS Whiteboard

CONSTANTS
  alpha, beta, gamma,
  BodyBound,       \* goals of a candidate
  CandidateBound   \* candidates of a query

MCQuery == {alpha, beta, gamma}
MCRootGoals == <<alpha, beta>>

(* Every program of two queries within the bounds. *)
WidePrograms ==
  [candidates : {c @@ (gamma :> <<>>) :
                   c \in [{alpha, beta} -> BoundedSeq(BoundedSeq({alpha, beta}, BodyBound), CandidateBound)]},
   incomplete : SUBSET {alpha, beta}]

(* Three queries, one candidate of at most two goals each, or two          *)
(* candidates of one goal: long cycles, deep proofs.                       *)
DeepPrograms ==
  [candidates : [Query -> {<<>>, << <<>> >>}
                   \cup {<<body>> : body \in [1 .. 2 -> Query]}
                   \cup {<< <<q>>, <<r>> >> : q \in Query, r \in Query}],
   incomplete : {{alpha}}]

MCPrograms == WidePrograms \cup DeepPrograms
=============================================================================
