------------------------------ MODULE Instants ------------------------------
(***************************************************************************)
(* How the two stores keep and compare instants.                           *)
(*                                                                         *)
(* SQLite has no type for them: sqlite.rs binds to_rfc3339() of every      *)
(* DateTime to a TEXT column and to the bounds of a query, and the         *)
(* database compares the texts.  PostgreSQL keeps whole microseconds       *)
(* (TIMESTAMPTZ).  An instant is a number of ticks here, Base ticks to a   *)
(* microsecond, Base microseconds to a millisecond and Base of those to a  *)
(* second: Base is 1000 in the code, 2 in the runs.                        *)
(***************************************************************************)
EXTENDS Naturals, Sequences

CONSTANT Base

ASSUME BaseAssumption == Base \in Nat \ {0}

\* The seconds of an instant and its three groups of fractional digits.
Digits(t) == <<t \div (Base * Base * Base), (t \div (Base * Base)) % Base,
               (t \div Base) % Base, t % Base>>

\* The places of '+', '.' and of a group of digits in the order of ASCII.
Plus     == 0
Dot      == 1
Group(g) == g + 2

\* Faulty variant: the zone is written Z, which sorts after the digits.
Render_Zulu(d) ==
  LET Zulu == Base + 2 IN
  CASE d[2] = 0 /\ d[3] = 0 /\ d[4] = 0 -> <<d[1], Zulu>>
    [] d[3] = 0 /\ d[4] = 0 /\ d[2] # 0 -> <<d[1], Dot, Group(d[2]), Zulu>>
    [] d[4] = 0 /\ d[3] # 0 -> <<d[1], Dot, Group(d[2]), Group(d[3]), Zulu>>
    [] OTHER -> <<d[1], Dot, Group(d[2]), Group(d[3]), Group(d[4]), Zulu>>

\* to_rfc3339(): no fraction, or three, six or nine digits of it, as few as
\* show it all, and then +00:00.  Everything before has a fixed width.
Render(d) ==
  CASE d[2] = 0 /\ d[3] = 0 /\ d[4] = 0 -> <<d[1], Plus>>
    [] d[3] = 0 /\ d[4] = 0 /\ d[2] # 0 -> <<d[1], Dot, Group(d[2]), Plus>>
    [] d[4] = 0 /\ d[3] # 0 -> <<d[1], Dot, Group(d[2]), Group(d[3]), Plus>>
    [] OTHER -> <<d[1], Dot, Group(d[2]), Group(d[3]), Group(d[4]), Plus>>

\* One text sorts before another: the first place they differ in decides, and
\* a text sorts after its own beginning.
SortsBefore(x, y) ==
  \E i \in 1..Len(y) :
    /\ i <= Len(x) + 1
    /\ \A j \in 1..(i - 1) : x[j] = y[j]
    /\ i <= Len(x) => x[i] < y[i]

\* The comparison of two instants in a WHERE clause of SQLite.
TextBefore(t, u) == SortsBefore(Render(Digits(t)), Render(Digits(u)))

\* An instant as a TIMESTAMPTZ column keeps it.
Micros(t) == t - (t % Base)

=============================================================================
