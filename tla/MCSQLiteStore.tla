--------------------------- MODULE MCSQLiteStore ---------------------------
(* Two small scenarios of SQLiteStore, chosen at the start: two migrations *)
(* beside two JSON writers and one SQLite writer, or a backup and its      *)
(* restore beside one migration, two SQLite writers and one JSON writer.   *)
EXTENDS SQLiteStore, TLC

CONSTANTS b1, x1

VARIABLE scenario

\* A backup and a restore of it.
ChainFrom == b1 :> "main" @@ x1 :> "backup"
ChainTo   == b1 :> "backup" @@ x1 :> "restored"

\* At most n of the processes p have begun, and they would do the same.
AtMost(n, p, begin) == Cardinality({a \in DOMAIN p : p[a].pc # begin}) <= n
Alike(p) == \A a, b \in DOMAIN p : p[a] = p[b]

\* Bound: two processes die.
Died(p) == Cardinality({a \in DOMAIN p : p[a].pc = "failed"})

Within ==
    /\ Died(wr) + Died(mig) + Died(cp) <= 2
    /\ \/ /\ scenario = "migration"
          /\ AtMost(0, cp, "check") /\ AtMost(1, sw, "start") /\ damage = 0
       \/ /\ scenario = "backup"
          /\ AtMost(1, mig, "check") /\ AtMost(1, wr, "start") /\ clock = 0

MCInit ==
    /\ Init
    /\ \/ scenario = "migration" /\ Alike(sw)
       \/ scenario = "backup" /\ Alike(wr)

MCSpec == MCInit /\ [][Next /\ UNCHANGED scenario /\ Within']_<<vars, scenario>>

Symm == Permutations(Writers) \cup Permutations(SqlWriters)
          \cup Permutations(Migrations)
===========================================================================
