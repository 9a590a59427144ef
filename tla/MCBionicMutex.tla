--------------------------- MODULE MCBionicMutex ---------------------------
(* Three threads race on a zeroed mutex, or one thread uses a mutex with a *)
(* non-zero static initialiser.                                            *)
EXTENDS BionicMutex

CONSTANTS t1, t2, t3, o1, o2, o3, o4

MCThreads == {t1, t2, t3}
MCObjects == {o1, o2, o3, o4}
MCScenarios ==
  {[word |-> Null, users |-> {t1, t2, t3}], [word |-> StaticInit, users |-> {t1}]}

\* Two threads and a non-zero static initialiser.
MCStaticRace == {[word |-> StaticInit, users |-> {t1, t2}]}
=============================================================================
