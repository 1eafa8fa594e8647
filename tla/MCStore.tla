------------------------------- MODULE MCStore -------------------------------
(* TLC instance of Store: see the cfg files for the processes.              *)
EXTENDS Store, TLC

CONSTANTS s1, s2, s3, r1

Sv(name, hash) == [name |-> name, hash |-> hash]
Ob(a, b, config) == [http |-> [e \in Endpoint |-> IF e = "a" THEN a ELSE b],
                     stdio |-> config]
Cf(k, l) == [c \in Config |-> IF c = "k" THEN k ELSE l]

\* A port whose server changes its tools and loses its name, then is another
\* one; a port whose server hides its tools; with and without a stdio config.
MCObservation == {Ob(Sv("A", "h1"), Sv("A", "h1"), Cf("c1", "c1")),
                  Ob(Sv(Empty, "h2"), Absent, Cf(Absent, Absent)),
                  Ob(Sv("B", "h1"), Sv("A", Empty), Cf(Absent, Absent))}

\* One scan with a server and a config, one with another config only.
MCConfigs == {Ob(Sv("A", "h1"), Absent, Cf("c1", Absent)), Ob(Absent, Absent, Cf("c2", Absent))}

MCSymmetry == Permutations(Scanner)
=============================================================================
