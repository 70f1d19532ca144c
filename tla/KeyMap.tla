------------------------------- MODULE KeyMap --------------------------------
(***************************************************************************)
(* What bwct::AArray promises: each table is a map from keys to values.     *)
(* The operators give the tables after an operation from those before it.   *)
(***************************************************************************)
CONSTANTS Tables, Keys, Values,
          Absent   \* the value of a key that is not in the table

VARIABLE map   \* map[t][k]

NoKeys == [k \in Keys |-> Absent]

KInit == map = [t \in Tables |-> NoKeys]

\* Through operator[] or a list of pairs.
Put(m, t, k, v) == [m EXCEPT ![t][k] = v]

Remove(m, t, k) == [m EXCEPT ![t][k] = Absent]

Empty(m, t) == [m EXCEPT ![t] = NoKeys]

Copy(m, t, u) == [m EXCEPT ![t] = m[u]]

Move(m, t, u) == [m EXCEPT ![t] = m[u], ![u] = NoKeys]

Outcomes(m) ==
  {Put(m, t, k, v) : t \in Tables, k \in Keys, v \in Values}
  \cup {Remove(m, t, k) : t \in Tables, k \in Keys}
  \cup {Empty(m, t) : t \in Tables}
  \cup {Copy(m, t, u) : t, u \in Tables}
  \cup {Move(m, t, u) : t, u \in Tables}

KSpec == KInit /\ [][map' \in Outcomes(map)]_map
=============================================================================
