------------------------------ MODULE MCImages ------------------------------
(***************************************************************************)
(* Model-checking instances of Images; workers are interchangeable.  The   *)
(* history either begins early, with a container that has written all it   *)
(* will, or late, with one that has not: retention needs all the moments,  *)
(* and a change of the live image only some of them.                       *)
(***************************************************************************)
EXTENDS Images, TLC

WorkerSymmetry == Permutations(Workers)

Early == now = 0 /\ ver = MaxVersion
Late  == now > 0 /\ ver = 1

MCInit == Init /\ (Early \/ Late)

MCSpec == MCInit /\ [][Next]_vars
=============================================================================
