-------------------------- MODULE ParseJobs_proofs --------------------------
(***************************************************************************)
(* What the exit status and the files of parse.py mean, for every number   *)
(* of slices, jobs and starts, and every way in which workers and main()   *)
(* fail, the user interrupts and the log is cut.                           *)
(***************************************************************************)
EXTENDS ParseJobs, TLAPS, FiniteSetTheorems, SequenceTheorems

LEMMA Numbers == N \in Nat /\ MaxRuns \in Nat \ {0} /\ Bbv \in BOOLEAN
                 /\ JobCounts \subseteq Nat /\ Rebuilds \subseteq BOOLEAN
                 /\ Cuts \subseteq 0..FullLog /\ FullLog = 3 * N
                 /\ MaxFaults \in Nat
BY ParseJobsAssumption DEF ParseJobsAssumption, FullLog

(***************************************************************************)
(* The lines of the log.                                                   *)
(***************************************************************************)
LEMMA FirstLine == LineKind(1) = "begin" /\ LineSlice(1) = 1
<1>1. (1 - 1) % 3 = 0 /\ (1 - 1) \div 3 = 0
  OBVIOUS
<1> QED  BY <1>1 DEF LineKind, LineSlice, Kinds

LEMMA NextLine ==
  ASSUME NEW p \in Nat \ {0}
  PROVE  /\ LineKind(p) \in {"begin", "file", "body"}
         /\ LineKind(p) = "begin" =>
              LineKind(p + 1) = "file" /\ LineSlice(p + 1) = LineSlice(p)
         /\ LineKind(p) = "file" =>
              LineKind(p + 1) = "body" /\ LineSlice(p + 1) = LineSlice(p)
         /\ LineKind(p) = "body" =>
              LineKind(p + 1) = "begin" /\ LineSlice(p + 1) = LineSlice(p) + 1
<1> DEFINE q == (p - 1) \div 3
           r == (p - 1) % 3
           u == ((p + 1) - 1) \div 3
           v == ((p + 1) - 1) % 3
<1>1. /\ q \in Nat /\ r \in 0..2 /\ p - 1 = 3 * q + r
      /\ u \in Nat /\ v \in 0..2 /\ p = 3 * u + v
  OBVIOUS
<1>2. LineKind(p) = Kinds[r + 1] /\ LineKind(p + 1) = Kinds[v + 1]
  BY DEF LineKind
<1>3. LineSlice(p) = q + 1 /\ LineSlice(p + 1) = u + 1
  BY DEF LineSlice
<1> HIDE DEF q, r, u, v
<1>4. CASE r = 0
  <2>1. v = 1 /\ u = q
    BY <1>1, <1>4
  <2> QED  BY <1>2, <1>3, <1>4, <2>1 DEF Kinds
<1>5. CASE r = 1
  <2>1. v = 2 /\ u = q
    BY <1>1, <1>5
  <2> QED  BY <1>2, <1>3, <1>5, <2>1 DEF Kinds
<1>6. CASE r = 2
  <2>1. v = 0 /\ u = q + 1
    BY <1>1, <1>6
  <2> QED  BY <1>2, <1>3, <1>6, <2>1 DEF Kinds
<1> QED  BY <1>1, <1>4, <1>5, <1>6

LEMMA LastLine ==
  ASSUME NEW p \in 1..FullLog
  PROVE  /\ LineSlice(p) \in Slices
         /\ p = FullLog => LineKind(p) = "body" /\ LineSlice(p) = N
<1> DEFINE q == (p - 1) \div 3
           r == (p - 1) % 3
<1>1. q \in Nat /\ r \in 0..2 /\ p - 1 = 3 * q + r
  BY Numbers
<1>2. LineKind(p) = Kinds[r + 1] /\ LineSlice(p) = q + 1
  BY DEF LineKind, LineSlice
<1> HIDE DEF q, r
<1>3. q + 1 \in 1..N
  BY <1>1, Numbers
<1>4. p = FullLog => r = 2 /\ q + 1 = N
  BY <1>1, Numbers
<1> QED  BY <1>2, <1>3, <1>4 DEF Slices, Kinds

(***************************************************************************)
(* The steps of a worker.                                                  *)
(***************************************************************************)
Length(s) == Len(Process[s])

(* The file that is opened and closed last. *)
Last(s) == IF s \in Repeats THEN "cfg2" ELSE "cfg1"

Entries == {"place", "open", "close", "rerun"} \X Files

(* Where the passes begin: behind the two steps for the .bb file, if any.  *)
Offset == IF Bbv THEN 2 ELSE 0

LEMMA PassIs ==
  ASSUME NEW dump \in Files, NEW cfg \in Files
  PROVE  /\ Pass(dump, cfg) \in Seq(Entries) /\ Len(Pass(dump, cfg)) = 5
         /\ Pass(dump, cfg)[1] = <<"place", dump>>
         /\ Pass(dump, cfg)[2] = <<"open", dump>>
         /\ Pass(dump, cfg)[3] = <<"open", cfg>>
         /\ Pass(dump, cfg)[4] = <<"close", dump>>
         /\ Pass(dump, cfg)[5] = <<"close", cfg>>
<1> USE DEF Entries
<1>1. <<"place", dump>> \in Entries /\ <<"open", dump>> \in Entries
      /\ <<"open", cfg>> \in Entries /\ <<"close", dump>> \in Entries
      /\ <<"close", cfg>> \in Entries
  OBVIOUS
<1> HIDE DEF Entries
<1> QED  BY <1>1 DEF Pass

LEMMA ConcatIs ==
  ASSUME NEW S, NEW x \in Seq(S), NEW y \in Seq(S), NEW k \in Nat, NEW m \in Nat,
         Len(x) = k, Len(y) = m
  PROVE  /\ x \o y \in Seq(S) /\ Len(x \o y) = k + m
         /\ \A i \in 1 .. k : (x \o y)[i] = x[i]
         /\ \A i \in 1 .. m : (x \o y)[k + i] = y[i]
<1>1. /\ x \o y \in Seq(S) /\ Len(x \o y) = Len(x) + Len(y)
      /\ \A i \in 1 .. Len(x) + Len(y) : (x \o y)[i] =
                  IF i <= Len(x) THEN x[i] ELSE y[i - Len(x)]
  BY ConcatProperties
<1> DEFINE z == x \o y
<1>2. /\ z \in Seq(S) /\ Len(z) = k + m
      /\ \A i \in 1 .. k + m : z[i] = IF i <= k THEN x[i] ELSE y[i - k]
  BY <1>1
<1> HIDE DEF z
<1>3. \A i \in 1 .. m : k + i \in 1 .. k + m /\ ~(k + i <= k) /\ (k + i) - k = i
  OBVIOUS
<1>4. \A i \in 1 .. m : z[k + i] = y[i]
  BY <1>2, <1>3
<1>5. \A i \in 1 .. k : z[i] = x[i]
  BY <1>2
<1> QED  BY <1>2, <1>4, <1>5 DEF z

(* The program of a worker, step by step. *)
LEMMA ProgramIs ==
  ASSUME NEW s \in Slices
  PROVE  /\ Process[s] \in Seq(Entries)
         /\ Len(Process[s]) = Offset + IF s \in Repeats THEN 11 ELSE 5
         /\ Bbv => /\ Process[s][1] = <<"open", "bb">>
                   /\ Process[s][2] = <<"close", "bb">>
         /\ Process[s][Offset + 1] = <<"place", "dump1">>
         /\ Process[s][Offset + 2] = <<"open", "dump1">>
         /\ Process[s][Offset + 3] = <<"open", "cfg1">>
         /\ Process[s][Offset + 4] = <<"close", "dump1">>
         /\ Process[s][Offset + 5] = <<"close", "cfg1">>
         /\ s \in Repeats =>
              /\ Process[s][Offset + 6] = <<"rerun", "dump1">>
              /\ Process[s][Offset + 7] = <<"place", "dump2">>
              /\ Process[s][Offset + 8] = <<"open", "dump2">>
              /\ Process[s][Offset + 9] = <<"open", "cfg2">>
              /\ Process[s][Offset + 10] = <<"close", "dump2">>
              /\ Process[s][Offset + 11] = <<"close", "cfg2">>
<1> DEFINE b == IF Bbv THEN << <<"open", "bb">>, <<"close", "bb">> >> ELSE <<>>
           p == Pass("dump1", "cfg1")
           q == Pass("dump2", "cfg2")
           u == << <<"rerun", "dump1">> >>
           v == IF s \in Repeats THEN u \o q ELSE <<>>
           a == b \o p
<1>1. /\ <<"open", "bb">> \in Entries /\ <<"close", "bb">> \in Entries
      /\ <<"rerun", "dump1">> \in Entries /\ Offset \in {0, 2}
  BY DEF Entries, Files, Offset
<1>2. /\ b \in Seq(Entries) /\ Len(b) = Offset
      /\ Bbv => b[1] = <<"open", "bb">> /\ b[2] = <<"close", "bb">>
  BY <1>1 DEF Offset
<1>3. /\ p \in Seq(Entries) /\ Len(p) = 5
      /\ p[1] = <<"place", "dump1">> /\ p[2] = <<"open", "dump1">>
      /\ p[3] = <<"open", "cfg1">> /\ p[4] = <<"close", "dump1">>
      /\ p[5] = <<"close", "cfg1">>
  BY PassIs DEF Files
<1>4. /\ q \in Seq(Entries) /\ Len(q) = 5
      /\ q[1] = <<"place", "dump2">> /\ q[2] = <<"open", "dump2">>
      /\ q[3] = <<"open", "cfg2">> /\ q[4] = <<"close", "dump2">>
      /\ q[5] = <<"close", "cfg2">>
  BY PassIs DEF Files
<1>5. u \in Seq(Entries) /\ Len(u) = 1 /\ u[1] = <<"rerun", "dump1">>
  BY <1>1
<1>6. Process[s] = a \o v
  BY DEF Process
<1> HIDE DEF b, p, q, u
<1>7. /\ u \o q \in Seq(Entries) /\ Len(u \o q) = 1 + 5
      /\ \A i \in 1..1 : (u \o q)[i] = u[i]
      /\ \A i \in 1..5 : (u \o q)[1 + i] = q[i]
  <2>1. u \in Seq(Entries) /\ q \in Seq(Entries) /\ Len(u) = 1 /\ Len(q) = 5
    BY <1>4, <1>5
  <2>2. u \in Seq(Entries) /\ q \in Seq(Entries) /\ Len(u) \in Nat /\ Len(q) \in Nat
    BY <2>1
  <2>3. /\ u \o q \in Seq(Entries) /\ Len(u \o q) = Len(u) + Len(q)
        /\ \A i \in 1 .. Len(u) : (u \o q)[i] = u[i]
        /\ \A i \in 1 .. Len(q) : (u \o q)[Len(u) + i] = q[i]
    BY <2>2, ConcatIs
  <2> QED  BY <2>1, <2>3
<1>8. /\ a \in Seq(Entries) /\ Len(a) = Offset + 5
      /\ \A i \in 1 .. Offset : a[i] = b[i]
      /\ \A i \in 1 .. 5 : a[Offset + i] = p[i]
  <2>1. b \in Seq(Entries) /\ p \in Seq(Entries) /\ Len(b) = Offset /\ Len(p) = 5
    BY <1>2, <1>3
  <2>2. b \in Seq(Entries) /\ p \in Seq(Entries) /\ Len(b) \in Nat /\ Len(p) \in Nat
    BY <2>1
  <2>3. /\ a \in Seq(Entries) /\ Len(a) = Len(b) + Len(p)
        /\ \A i \in 1 .. Len(b) : a[i] = b[i]
        /\ \A i \in 1 .. Len(p) : a[Len(b) + i] = p[i]
    BY <2>2, ConcatIs
  <2> QED  BY <2>1, <2>3
<1>9. /\ v \in Seq(Entries) /\ Len(v) = IF s \in Repeats THEN 6 ELSE 0
      /\ s \in Repeats => v[1] = u[1] /\ \A i \in 1..5 : v[1 + i] = q[i]
  BY <1>7
<1> DEFINE w == a \o v
<1>10. w = Process[s]
  BY <1>6
<1> HIDE DEF a, v
<1>11. /\ w \in Seq(Entries) /\ Len(w) = (Offset + 5) + Len(v)
       /\ \A i \in 1 .. Offset + 5 : w[i] = a[i]
       /\ \A i \in 1 .. Len(v) : w[(Offset + 5) + i] = v[i]
  <2>1. Offset + 5 \in Nat /\ Len(v) \in Nat
    BY <1>1, <1>9
  <2>2. a \in Seq(Entries) /\ v \in Seq(Entries) /\ Len(a) = Offset + 5
    BY <1>8, <1>9
  <2> QED  BY <2>1, <2>2, ConcatIs
<1> HIDE DEF w
<1>12. s \in Repeats => \A i \in 1 .. 6 : w[(Offset + 5) + i] = v[i]
  BY <1>9, <1>11
<1>13. w \in Seq(Entries) /\ Len(w) = Offset + IF s \in Repeats THEN 11 ELSE 5
  BY <1>1, <1>9, <1>11
<1>14. Bbv => w[1] = <<"open", "bb">> /\ w[2] = <<"close", "bb">>
  BY <1>2, <1>8, <1>11 DEF Offset
<1>15. /\ w[Offset + 1] = p[1] /\ w[Offset + 2] = p[2] /\ w[Offset + 3] = p[3]
       /\ w[Offset + 4] = p[4] /\ w[Offset + 5] = p[5]
  BY <1>1, <1>8, <1>11
<1>16. s \in Repeats =>
         /\ w[Offset + 6] = u[1] /\ w[Offset + 7] = q[1] /\ w[Offset + 8] = q[2]
         /\ w[Offset + 9] = q[3] /\ w[Offset + 10] = q[4] /\ w[Offset + 11] = q[5]
  BY <1>1, <1>9, <1>12
<1> QED  BY <1>3, <1>4, <1>5, <1>13, <1>14, <1>15, <1>16, <1>10

(* The files a worker of the slice writes, and when. *)
Used(s) ==
    (IF Bbv THEN {"bb"} ELSE {}) \cup {"dump1", "cfg1"}
    \cup (IF s \in Repeats THEN {"dump2", "cfg2"} ELSE {})

OpenAt(f) == CASE f = "bb" -> 1
               [] f = "dump1" -> Offset + 2
               [] f = "cfg1" -> Offset + 3
               [] f = "dump2" -> Offset + 8
               [] OTHER -> Offset + 9

CloseAt(f) == CASE f = "bb" -> 2
                [] f = "dump1" -> Offset + 4
                [] f = "cfg1" -> Offset + 5
                [] f = "dump2" -> Offset + 10
                [] OTHER -> Offset + 11

LEMMA Positions ==
  /\ OpenAt("bb") = 1 /\ CloseAt("bb") = 2
  /\ OpenAt("dump1") = Offset + 2 /\ CloseAt("dump1") = Offset + 4
  /\ OpenAt("cfg1") = Offset + 3 /\ CloseAt("cfg1") = Offset + 5
  /\ OpenAt("dump2") = Offset + 8 /\ CloseAt("dump2") = Offset + 10
  /\ OpenAt("cfg2") = Offset + 9 /\ CloseAt("cfg2") = Offset + 11
BY DEF OpenAt, CloseAt

(* The order of the steps. *)
LEMMA Order ==
  ASSUME NEW s \in Slices
  PROVE  /\ Len(Process[s]) \in 1..13
         /\ Used(s) \subseteq Files /\ Wanted(s) \subseteq Used(s)
         /\ Last(s) \in Wanted(s) /\ CloseAt(Last(s)) = Len(Process[s])
         /\ \A f \in Used(s) : /\ OpenAt(f) \in 1..Len(Process[s])
                               /\ CloseAt(f) \in 1..Len(Process[s])
                               /\ OpenAt(f) < CloseAt(f)
         /\ \A f \in Wanted(s) : OpenAt(f) <= OpenAt(Last(s))
         /\ \A f, g \in Used(s) : /\ OpenAt(f) = OpenAt(g) => f = g
                                  /\ CloseAt(f) = CloseAt(g) => f = g
                                  /\ OpenAt(f) # CloseAt(g)
<1>1. Len(Process[s]) = Offset + IF s \in Repeats THEN 11 ELSE 5
  BY ProgramIs
<1>2. Offset \in {0, 2} /\ (Bbv <=> Offset = 2)
  BY Numbers DEF Offset
<1>3. \A f \in Used(s) : \/ f = "bb" /\ Bbv
                         \/ f \in {"dump1", "cfg1"}
                         \/ f = "dump2" /\ s \in Repeats
                         \/ f = "cfg2" /\ s \in Repeats
  BY DEF Used
<1>4. Len(Process[s]) \in 1..13
  BY <1>1, <1>2
<1>5. /\ Used(s) \subseteq Files /\ Wanted(s) \subseteq Used(s)
      /\ Last(s) \in Wanted(s)
  BY DEF Used, Wanted, Last, Files
<1>6. CloseAt(Last(s)) = Len(Process[s])
  BY <1>1, Positions DEF Last
<1>7. \A f \in Used(s) : /\ OpenAt(f) \in 1..Len(Process[s])
                         /\ CloseAt(f) \in 1..Len(Process[s])
                         /\ OpenAt(f) < CloseAt(f)
  BY <1>1, <1>2, <1>3, Positions
<1>8. \A f \in Wanted(s) : OpenAt(f) <= OpenAt(Last(s))
  BY <1>2, Positions DEF Wanted, Last
<1>9. ASSUME NEW f \in Used(s), NEW g \in Used(s)
      PROVE  /\ OpenAt(f) = OpenAt(g) => f = g
             /\ CloseAt(f) = CloseAt(g) => f = g
             /\ OpenAt(f) # CloseAt(g)
  BY <1>2, <1>3, Positions
<1> QED  BY <1>4, <1>5, <1>6, <1>7, <1>8, <1>9

(* A step opens or closes a file, in its place, or is taken while no file  *)
(* is open: only then does a failure leave no file behind.                 *)
LEMMA StepIs ==
  ASSUME NEW s \in Slices, NEW i \in 1..Len(Process[s])
  PROVE  \/ \E f \in Used(s) : /\ Process[s][i][1] = "open" /\ Process[s][i][2] = f
                               /\ i = OpenAt(f)
         \/ \E f \in Used(s) : /\ Process[s][i][1] = "close" /\ Process[s][i][2] = f
                               /\ i = CloseAt(f)
         \/ /\ Process[s][i][1] \in {"place", "rerun"}
            /\ Process[s][i][2] \in Files
            /\ \A f \in Used(s) : ~(OpenAt(f) <= i /\ i <= CloseAt(f))
<1>1. Offset \in {0, 2} /\ (Bbv <=> Offset = 2)
  BY Numbers DEF Offset
<1>2. \A f \in Used(s) : \/ f = "bb" /\ Bbv
                         \/ f \in {"dump1", "cfg1"}
                         \/ f = "dump2" /\ s \in Repeats
                         \/ f = "cfg2" /\ s \in Repeats
  BY DEF Used
<1>3. /\ Bbv => "bb" \in Used(s)
      /\ "dump1" \in Used(s) /\ "cfg1" \in Used(s)
      /\ s \in Repeats => "dump2" \in Used(s) /\ "cfg2" \in Used(s)
  BY DEF Used
<1>4. \/ i \in Offset + 1 .. Offset + 5
      \/ Bbv /\ i \in 1..2
      \/ s \in Repeats /\ i \in Offset + 6 .. Offset + 11
  <2>1. Len(Process[s]) = Offset + IF s \in Repeats THEN 11 ELSE 5
    BY ProgramIs
  <2> QED  BY <1>1, <2>1
<1>5. CASE i \in Offset + 1 .. Offset + 5
  <2>1. CASE i = Offset + 1
    <3>1. Process[s][i] = <<"place", "dump1">>
      BY <2>1, ProgramIs
    <3>2. \A f \in Used(s) : ~(OpenAt(f) <= i /\ i <= CloseAt(f))
      BY <1>1, <1>2, <2>1, Positions
    <3> QED  BY <3>1, <3>2 DEF Files
  <2>2. CASE i = Offset + 2
    BY <1>3, <2>2, ProgramIs, Positions
  <2>3. CASE i = Offset + 3
    BY <1>3, <2>3, ProgramIs, Positions
  <2>4. CASE i = Offset + 4
    BY <1>3, <2>4, ProgramIs, Positions
  <2>5. CASE i = Offset + 5
    BY <1>3, <2>5, ProgramIs, Positions
  <2> QED  BY <1>1, <1>5, <2>1, <2>2, <2>3, <2>4, <2>5
<1>6. CASE Bbv /\ i \in 1..2
  <2>1. CASE i = 1
    BY <1>3, <1>6, <2>1, ProgramIs, Positions
  <2>2. CASE i = 2
    BY <1>3, <1>6, <2>2, ProgramIs, Positions
  <2> QED  BY <1>6, <2>1, <2>2
<1>7. CASE s \in Repeats /\ i \in Offset + 6 .. Offset + 11
  <2>1. CASE i = Offset + 6
    <3>1. Process[s][i] = <<"rerun", "dump1">>
      BY <1>7, <2>1, ProgramIs
    <3>2. \A f \in Used(s) : ~(OpenAt(f) <= i /\ i <= CloseAt(f))
      BY <1>1, <1>2, <2>1, Positions
    <3> QED  BY <3>1, <3>2 DEF Files
  <2>2. CASE i = Offset + 7
    <3>1. Process[s][i] = <<"place", "dump2">>
      BY <1>7, <2>2, ProgramIs
    <3>2. \A f \in Used(s) : ~(OpenAt(f) <= i /\ i <= CloseAt(f))
      BY <1>1, <1>2, <2>2, Positions
    <3> QED  BY <3>1, <3>2 DEF Files
  <2>3. CASE i = Offset + 8
    BY <1>3, <1>7, <2>3, ProgramIs, Positions
  <2>4. CASE i = Offset + 9
    BY <1>3, <1>7, <2>4, ProgramIs, Positions
  <2>5. CASE i = Offset + 10
    BY <1>3, <1>7, <2>5, ProgramIs, Positions
  <2>6. CASE i = Offset + 11
    BY <1>3, <1>7, <2>6, ProgramIs, Positions
  <2> QED  BY <1>1, <1>7, <2>1, <2>2, <2>3, <2>4, <2>5, <2>6
<1> QED  BY <1>4, <1>5, <1>6, <1>7

(***************************************************************************)
(* The inductive invariant.                                                *)
(***************************************************************************)
WorkerType == [state : WorkerStates, step : 1..13,
               named : BOOLEAN, whole : BOOLEAN]

CurType == [slice : Slices \cup {0}, named : BOOLEAN, whole : BOOLEAN]

(* The slice of the line read last. *)
Reached == IF pos = 1 THEN 0 ELSE LineSlice(pos - 1)

(* main() may still start the worker of the slice it is reading. *)
Reading == mainPc \in {"read", "submit"}

InlineIs(s) == mainPc = "inline" /\ cur.slice = s

Runs(s) == worker[run][s].state = "runs"

Idle(s) == worker[run][s].state = "none"

(* A worker is never past the end of its program. *)
InSteps ==
    \A r \in 1..MaxRuns : \A s \in Slices :
        worker[r][s].step <= Len(Process[s])

(* The checkpoint being read holds what the lines read so far have given.  *)
CurHolds ==
    /\ pos <= cut + 1
    /\ cur # None => pos > 1 /\ cur.slice = Reached
    /\ pos > 1 /\ LineKind(pos - 1) = "begin" =>
         cur # None /\ ~cur.named /\ ~cur.whole
    /\ pos > 1 /\ LineKind(pos - 1) = "file" =>
         cur = None \/ (cur.named /\ ~cur.whole)
    /\ pos > 1 /\ LineKind(pos - 1) = "body" =>
         cur = None \/ (cur.named /\ cur.whole)
    /\ cur.named => opened

(* Where main() is when it submits, runs a worker itself or closes. *)
MainAt ==
    /\ mainPc \in {"submit", "inline"} => pos > cut \/ LineKind(pos) = "begin"
    /\ mainPc = "close" => pos > cut
    /\ mainPc = "inline" => cur # None /\ jobs < 2 /\ opened

(* Workers of this run only, but for those left behind, and only of slices *)
(* that were read.                                                         *)
Generations ==
    /\ \A r \in 1..MaxRuns : \A s \in Slices :
         /\ r > run => worker[r][s].state = "none"
         /\ r < run /\ worker[r][s].state = "runs" => s \in orphaned
    /\ \A s \in Slices : /\ s > Reached => Idle(s)
                         /\ Reading /\ s = Reached => Idle(s)

(* main() waits for whatever runs, unless it leaves it behind, and knows   *)
(* of whatever has failed.                                                 *)
Pool ==
    /\ \A s \in Slices :
         /\ Runs(s) => IF mainPc = "exit" THEN s \in orphaned
                       ELSE s \in children \/ InlineIs(s)
         /\ Failed(s) =>
              s \in children \/ mainPc \in {"drain", "exit"} \/ InlineIs(s)
         /\ worker[run][s].state = "gone" => mainPc = "exit"
         /\ ~opened => Idle(s)
    /\ ~opened \/ jobs < 2 => children = {}

(* A slice is behind main() when it got a worker or may be skipped. *)
Dealt(s) == ~Idle(s) \/ (~rebuild /\ Exists(s))

Covered ==
    \A s \in Slices :
        /\ mainPc \in {"read", "submit", "inline"} /\ s < Reached => Dealt(s)
        /\ mainPc = "close" /\ s <= Reached => Dealt(s)
        /\ Reading /\ cur = None /\ pos > 1 /\ s = Reached => Dealt(s)

(* What a worker that ended well has left. *)
Made ==
    \A s \in Slices :
        worker[run][s].state = "ok" =>
            /\ Exists(s)
            /\ cut = FullLog /\ s \notin orphaned => Complete(s)

(* Only a cut log gives a worker less than a slice. *)
Given ==
    \A s \in Slices :
        Runs(s) /\ cut = FullLog => worker[run][s].named /\ worker[run][s].whole

(* The worker of that run has the file open. *)
Holds(r, s, f) ==
    /\ f \in Used(s) /\ worker[r][s].state = "runs" /\ worker[r][s].named
    /\ OpenAt(f) < worker[r][s].step /\ worker[r][s].step <= CloseAt(f)

(* A worker has opened what its step says, and closed it unless another    *)
(* one may have interfered.                                                *)
Progress ==
    /\ \A r \in 1..MaxRuns : \A s \in Slices : worker[r][s].state = "runs" =>
         \A f \in Used(s) :
            OpenAt(f) < worker[r][s].step => files[s][f] # "absent"
    /\ \A s \in Slices : Runs(s) /\ s \notin orphaned =>
         \A f \in Used(s) :
            /\ Holds(run, s, f) => files[s][f] = "partial"
            /\ worker[run][s].whole /\ CloseAt(f) < worker[run][s].step =>
                 files[s][f] = "whole"

(* A worker ended while its files were open. *)
Broken(s) == \E r \in 1..MaxRuns : worker[r][s].state \in {"gone", "torn"}

(* A file is open in a worker, or one that broke off has left it. *)
Torn ==
    \A s \in Slices : \A f \in Files : files[s][f] = "partial" =>
        Broken(s) \/ \E r \in 1..MaxRuns : Holds(r, s, f)

(* No further slice of this run gets a worker. *)
Over == pos > cut /\ ~Reading

LastOf(r, s) == \A t \in Slices : t > s => worker[r][t].state = "none"

Shortened ==
    \A s \in Slices :
        /\ \A f \in Files : files[s][f] = "short" =>
             \E r \in 1..MaxRuns : /\ worker[r][s].state # "none"
                                   /\ r <= run /\ LastOf(r, s)
                                   /\ r = run => Over
        /\ \A r \in 1..MaxRuns :
             worker[r][s].state = "runs" /\ ~worker[r][s].whole =>
               LastOf(r, s) /\ (r = run => Over)

(* The files of a slice appear in the order in which exists() needs them. *)
LastOpened == \A s \in Slices : files[s][Last(s)] # "absent" => Exists(s)

(* Without --rebuild a worker only gets a slice that lacks a file. *)
Lacking ==
    ~rebuild =>
        /\ \A s \in Slices \ orphaned : Runs(s) /\ worker[run][s].named =>
             files[s][Last(s)] \in {"absent", "partial"}
        /\ Reading /\ cur.named /\ cur.slice \notin orphaned =>
             files[cur.slice][Last(cur.slice)] = "absent"

Inv == /\ TypeOK /\ InSteps /\ CurHolds /\ MainAt /\ Generations /\ Pool
       /\ Covered /\ Made /\ Given /\ Progress /\ Torn /\ Shortened
       /\ LastOpened /\ Lacking

(***************************************************************************)
(* The records and functions that the actions change.                      *)
(***************************************************************************)
LEMMA Types ==
  TypeOK <=>
    /\ files \in [Slices -> [Files -> FileStates]]
    /\ worker \in [1..MaxRuns -> [Slices -> WorkerType]]
    /\ run \in 1..MaxRuns /\ rebuild \in BOOLEAN /\ jobs \in JobCounts
    /\ cut \in 0..FullLog /\ pos \in 1..(FullLog + 1)
    /\ mainPc \in {"read", "submit", "inline", "close", "drain", "exit"}
    /\ cur \in CurType
    /\ opened \in BOOLEAN /\ children \subseteq Slices /\ status \in {0, 1}
    /\ Cardinality(children) <= jobs
    /\ orphaned \subseteq Slices /\ mishaps \in 0..MaxFaults
BY DEF TypeOK, WorkerType, CurType

LEMMA NoneIs == /\ None \in CurType /\ None.slice = 0
                /\ None.named = FALSE /\ None.whole = FALSE
BY DEF None, CurType

LEMMA NewCurIs ==
  ASSUME NEW s \in Slices
  PROVE  LET c == [slice |-> s, named |-> FALSE, whole |-> FALSE]
         IN c \in CurType /\ c.slice = s /\ c.named = FALSE /\ c.whole = FALSE
            /\ c # None
<1>1. s # 0
  BY Numbers DEF Slices
<1> QED  BY <1>1 DEF None, CurType

LEMMA NameIs ==
  ASSUME NEW c \in CurType
  PROVE  LET d == [c EXCEPT !.named = TRUE]
         IN d \in CurType /\ d.slice = c.slice /\ d.named = TRUE
            /\ d.whole = c.whole /\ d # None
BY DEF None, CurType

LEMMA WholeIs ==
  ASSUME NEW c \in CurType
  PROVE  LET d == [c EXCEPT !.whole = TRUE]
         IN d \in CurType /\ d.slice = c.slice /\ d.named = c.named
            /\ d.whole = TRUE /\ d # None
BY DEF None, CurType

LEMMA StartIs ==
  ASSUME NEW c \in CurType
  PROVE  /\ Start(c) \in WorkerType /\ Start(c).state = "runs"
         /\ Start(c).step = 1
         /\ Start(c).named = c.named /\ Start(c).whole = c.whole
BY DEF Start, WorkerType, CurType, WorkerStates

LEMMA IdleIs ==
  IdleWorker \in WorkerType /\ IdleWorker.state = "none" /\ IdleWorker.step = 1
BY DEF IdleWorker, WorkerType, WorkerStates

LEMMA SetState ==
  ASSUME NEW w \in WorkerType, NEW e \in WorkerStates
  PROVE  LET v == [w EXCEPT !.state = e]
         IN v \in WorkerType /\ v.state = e /\ v.step = w.step
BY DEF WorkerType

LEMMA EndedIs ==
  ASSUME NEW e \in WorkerStates
  PROVE  Ended(e) \in WorkerType /\ Ended(e).state = e /\ Ended(e).step = 1
BY IdleIs, SetState DEF Ended

LEMMA AdvanceIs ==
  ASSUME NEW w \in WorkerType, w.step + 1 \in 1..13
  PROVE  LET v == [w EXCEPT !.step = w.step + 1]
         IN v \in WorkerType /\ v.state = w.state /\ v.step = w.step + 1
            /\ v.named = w.named /\ v.whole = w.whole
BY DEF WorkerType

LEMMA WorkerFields ==
  ASSUME NEW w \in WorkerType
  PROVE  /\ w.state \in WorkerStates /\ w.step \in 1..13
         /\ w.named \in BOOLEAN /\ w.whole \in BOOLEAN
BY DEF WorkerType

LEMMA CurFields ==
  ASSUME NEW c \in CurType
  PROVE  /\ c.slice \in Slices \cup {0}
         /\ c.named \in BOOLEAN /\ c.whole \in BOOLEAN
BY DEF CurType

LEMMA PutWorker ==
  ASSUME NEW f \in [1..MaxRuns -> [Slices -> WorkerType]],
         NEW r \in 1..MaxRuns, NEW s \in Slices, NEW w \in WorkerType,
         NEW g, g = [f EXCEPT ![r][s] = w]
  PROVE  /\ g \in [1..MaxRuns -> [Slices -> WorkerType]]
         /\ \A q \in 1..MaxRuns : \A t \in Slices :
              g[q][t] = IF q = r /\ t = s THEN w ELSE f[q][t]
OBVIOUS

LEMMA PutFile ==
  ASSUME NEW f \in [Slices -> [Files -> FileStates]],
         NEW s \in Slices, NEW n \in Files, NEW v \in FileStates,
         NEW g, g = [f EXCEPT ![s][n] = v]
  PROVE  /\ g \in [Slices -> [Files -> FileStates]]
         /\ \A t \in Slices : \A m \in Files :
              g[t][m] = IF t = s /\ m = n THEN v ELSE f[t][m]
OBVIOUS

(***************************************************************************)
(* Reading the log.                                                        *)
(***************************************************************************)
LEMMA LineBefore ==
  ASSUME NEW p \in Nat \ {0}, p > 1
  PROVE  /\ LineKind(p - 1) \in {"begin", "file", "body"}
         /\ LineKind(p) = "begin" =>
              LineKind(p - 1) = "body" /\ LineSlice(p) = LineSlice(p - 1) + 1
         /\ LineKind(p) = "file" =>
              LineKind(p - 1) = "begin" /\ LineSlice(p) = LineSlice(p - 1)
         /\ LineKind(p) = "body" =>
              LineKind(p - 1) = "file" /\ LineSlice(p) = LineSlice(p - 1)
<1> DEFINE q == p - 1
<1>1. q \in Nat \ {0} /\ p = q + 1
  OBVIOUS
<1> HIDE DEF q
<1>2. /\ LineKind(q) \in {"begin", "file", "body"}
      /\ LineKind(q) = "begin" =>
           LineKind(q + 1) = "file" /\ LineSlice(q + 1) = LineSlice(q)
      /\ LineKind(q) = "file" =>
           LineKind(q + 1) = "body" /\ LineSlice(q + 1) = LineSlice(q)
      /\ LineKind(q) = "body" =>
           LineKind(q + 1) = "begin" /\ LineSlice(q + 1) = LineSlice(q) + 1
  BY <1>1, NextLine
<1> QED  BY <1>1, <1>2 DEF q

LEMMA ReachedIs ==
  ASSUME TypeOK
  PROVE  /\ Reached \in 0..N
         /\ pos > 1 => Reached \in Slices
         /\ pos <= cut =>
              /\ LineKind(pos) \in {"begin", "file", "body"}
              /\ LineSlice(pos) \in Slices
              /\ LineKind(pos) = "begin" => LineSlice(pos) = Reached + 1
              /\ LineKind(pos) # "begin" => pos > 1 /\ LineSlice(pos) = Reached
              /\ LineKind(pos) = "file" => LineKind(pos - 1) = "begin"
              /\ LineKind(pos) = "body" => LineKind(pos - 1) = "file"
         /\ pos > 1 => LineKind(pos - 1) \in {"begin", "file", "body"}
         /\ pos > 1 /\ LineKind(pos) = "begin" => LineKind(pos - 1) = "body"
<1>1. pos \in 1..(FullLog + 1) /\ cut \in 0..FullLog /\ FullLog \in Nat
  BY Types, Numbers
<1>2. pos \in Nat \ {0} /\ (pos > 1 => pos - 1 \in 1..FullLog)
      /\ (pos <= cut => pos \in 1..FullLog)
  BY <1>1
<1>3. pos > 1 => Reached = LineSlice(pos - 1) /\ Reached \in Slices
  BY <1>1, <1>2, LastLine DEF Reached
<1>4. Reached \in 0..N
  BY <1>1, <1>3, Numbers DEF Reached, Slices
<1>5. pos <= cut => LineSlice(pos) \in Slices /\ LineKind(pos) \in {"begin", "file", "body"}
  BY <1>2, LastLine, NextLine
<1>6. CASE pos = 1
  BY <1>4, <1>5, <1>6, FirstLine DEF Reached
<1>7. CASE pos > 1
  BY <1>2, <1>3, <1>4, <1>5, <1>7, LineBefore
<1> QED  BY <1>1, <1>6, <1>7

LEMMA NextReached ==
  ASSUME TypeOK, pos' = pos + 1
  PROVE  Reached' = LineSlice(pos) /\ pos' > 1 /\ pos' - 1 = pos
<1>1. pos \in Nat \ {0}
  BY Types, Numbers
<1>2. pos + 1 # 1 /\ (pos + 1) - 1 = pos
  BY <1>1
<1> QED  BY <1>1, <1>2 DEF Reached

(* Back from submit_task(). *)
LEMMA Continues ==
  ASSUME TypeOK, CurHolds, pos > cut \/ LineKind(pos) = "begin",
         cut' = cut, opened' = opened, Continue
  PROVE  /\ pos' \in 1..(FullLog + 1) /\ cur' \in CurType
         /\ mainPc' \in {"read", "close"} /\ CurHolds' /\ MainAt'
         /\ mainPc' = "read" =>
              /\ Reached' = Reached + 1 /\ cur' # None /\ cur'.named = FALSE
         /\ mainPc' = "close" =>
              pos > cut /\ pos' = pos /\ cur' = cur /\ Reached' = Reached
<1>1. pos \in 1..(FullLog + 1) /\ cut \in 0..FullLog /\ FullLog \in Nat
      /\ cur \in CurType
  BY Types, Numbers
<1>2. CASE pos <= cut
  <2> DEFINE c == [slice |-> LineSlice(pos), named |-> FALSE, whole |-> FALSE]
  <2>1. cur' = c /\ pos' = pos + 1 /\ mainPc' = "read" /\ LineKind(pos) = "begin"
    BY <1>1, <1>2 DEF Continue
  <2>2. LineSlice(pos) \in Slices /\ LineSlice(pos) = Reached + 1
    BY <1>2, <2>1, ReachedIs
  <2>3. c \in CurType /\ c.slice = LineSlice(pos) /\ c.named = FALSE
        /\ c.whole = FALSE /\ c # None
    BY <2>2, NewCurIs
  <2> HIDE DEF c
  <2>4. Reached' = LineSlice(pos) /\ pos' > 1 /\ pos' - 1 = pos
    BY <2>1, NextReached
  <2>5. pos' \in 1..(FullLog + 1) /\ pos' <= cut' + 1
    BY <1>1, <1>2, <2>1
  <2>6. CurHolds'
    BY <2>1, <2>3, <2>4, <2>5 DEF CurHolds
  <2>7. MainAt'
    BY <2>1 DEF MainAt
  <2> QED  BY <2>1, <2>2, <2>3, <2>4, <2>5, <2>6, <2>7
<1>3. CASE ~(pos <= cut)
  <2>1. mainPc' = "close" /\ cur' = cur /\ pos' = pos /\ pos > cut
    BY <1>1, <1>3 DEF Continue
  <2>2. Reached' = Reached
    BY <2>1 DEF Reached
  <2>3. CurHolds'
    BY <2>1, <2>2 DEF CurHolds
  <2>4. MainAt'
    BY <2>1 DEF MainAt
  <2> QED  BY <1>1, <2>1, <2>2, <2>3, <2>4
<1> QED  BY <1>2, <1>3

(***************************************************************************)
(* The steps of main() that start no worker.                               *)
(***************************************************************************)
LEMMA FewerChildren ==
  ASSUME TypeOK, NEW T, T \subseteq children
  PROVE  T \subseteq Slices /\ Cardinality(T) <= jobs
<1>1. children \subseteq Slices /\ Cardinality(children) <= jobs /\ jobs \in Nat
  BY Types, Numbers
<1>2. IsFiniteSet(Slices)
  BY Numbers, FS_Interval DEF Slices
<1>3. IsFiniteSet(children)
  BY <1>1, <1>2, FS_Subset
<1>4. IsFiniteSet(T) /\ Cardinality(T) <= Cardinality(children)
  BY <1>3, FS_Subset
<1>5. Cardinality(T) \in Nat /\ Cardinality(children) \in Nat
  BY <1>3, <1>4, FS_CardinalityType
<1> QED  BY <1>1, <1>4, <1>5

LEMMA QuietKeeps ==
  ASSUME Inv, files' = files, worker' = worker, run' = run,
         rebuild' = rebuild, cut' = cut, orphaned \subseteq orphaned',
         Over => Over'
  PROVE  /\ InSteps' /\ Made' /\ Given' /\ Progress' /\ Torn' /\ Shortened'
         /\ LastOpened'
<1>1. InSteps'
  BY DEF Inv, InSteps
<1>2. Made'
  BY DEF Inv, Made, Exists, Complete
<1>3. Given'
  BY DEF Inv, Given, Runs
<1>4. Progress'
  BY DEF Inv, Progress, Runs, Holds
<1>5. Torn'
  BY DEF Inv, Torn, Broken, Holds
<1>6. Shortened'
  BY DEF Inv, Shortened, Runs, LastOf
<1>7. LastOpened'
  BY DEF Inv, LastOpened, Exists
<1> QED  BY <1>1, <1>2, <1>3, <1>4, <1>5, <1>6, <1>7

(* main() goes on without reading. *)
LEMMA Pauses ==
  ASSUME Inv, Pool', files' = files, worker' = worker, run' = run,
         rebuild' = rebuild, jobs' = jobs, cut' = cut, pos' = pos, cur' = cur,
         opened' = opened, children' \subseteq children, status' \in {0, 1},
         orphaned \subseteq orphaned', orphaned' \subseteq Slices,
         mishaps' \in 0..MaxFaults,
         \/ mainPc' = mainPc
         \/ mainPc' \in {"drain", "exit"}
         \/ /\ mainPc = "read" /\ mainPc' = "submit"
            /\ pos > cut \/ LineKind(pos) = "begin"
  PROVE  Inv'
<1>1. Over => Over'
  BY DEF Over, Reading
<1>2. Reached' = Reached /\ (Reading' => Reading)
  BY DEF Reached, Reading
<1>3. \A s : (Idle(s) <=> Idle(s)') /\ (Exists(s) <=> Exists(s)')
  BY DEF Idle, Exists
<1>4. \A s : Dealt(s) <=> Dealt(s)'
  BY <1>3 DEF Dealt
<1>5. TypeOK'
  <2>1. children' \subseteq Slices /\ Cardinality(children') <= jobs'
    BY FewerChildren DEF Inv
  <2> QED  BY <2>1, Types DEF Inv, TypeOK
<1>6. CurHolds'
  BY <1>2 DEF Inv, CurHolds
<1>7. MainAt'
  BY DEF Inv, MainAt
<1>8. Generations'
  BY <1>2, <1>3 DEF Inv, Generations
<1>9. Covered'
  BY <1>2, <1>4 DEF Inv, Covered, Reading
<1>10. Lacking'
  BY <1>2 DEF Inv, Lacking, Runs
<1> QED  BY <1>1, <1>5, <1>6, <1>7, <1>8, <1>9, <1>10, QuietKeeps DEF Inv

LEMMA ReadBeginOk == Inv /\ ReadBegin => Inv'
<1> SUFFICES ASSUME Inv, ReadBegin PROVE Inv'
  OBVIOUS
<1>1. Pool'
  BY DEF ReadBegin, Inv, Pool, Runs, Failed, Idle, InlineIs
<1> QED  BY <1>1, Pauses, Types DEF ReadBegin, Inv

LEMMA ReadEndOk == Inv /\ ReadEnd => Inv'
<1> SUFFICES ASSUME Inv, ReadEnd PROVE Inv'
  OBVIOUS
<1>1. Pool'
  BY DEF ReadEnd, Inv, Pool, Runs, Failed, Idle, InlineIs
<1> QED  BY <1>1, Pauses, Types DEF ReadEnd, Inv

LEMMA SubmitUnopenedOk == Inv /\ SubmitUnopened => Inv'
<1> SUFFICES ASSUME Inv, SubmitUnopened PROVE Inv'
  OBVIOUS
<1>1. Pool'
  BY DEF SubmitUnopened, Inv, Pool, Runs, Failed, Idle, InlineIs
<1> QED  BY <1>1, Pauses, Types DEF SubmitUnopened, Inv

(* os.wait() in a full pool or at the end: a failure leads to the drain. *)
LEMMA ReapOk ==
  ASSUME Inv, mainPc \in {"submit", "close"}, NEW s \in children, Reap(s)
  PROVE  Inv'
<1>1. worker[run][s].state \in {"ok", "failed", "torn"}
  BY DEF Reap, Dead, Failed
<1>2. Pool'
  BY <1>1 DEF Reap, Inv, Pool, Runs, Failed, Idle, InlineIs
<1> QED  BY <1>2, Pauses, Types DEF Reap, Inv

LEMMA CloseExitsOk == Inv /\ CloseExits => Inv'
<1> SUFFICES ASSUME Inv, CloseExits PROVE Inv'
  OBVIOUS
<1>1. Pool'
  BY DEF CloseExits, Inv, Pool, Runs, Failed, Idle, InlineIs
<1> QED  BY <1>1, Pauses, Types DEF CloseExits, Inv

LEMMA DrainOk == Inv /\ (DrainWaits \/ DrainExits) => Inv'
<1>1. ASSUME Inv, DrainWaits PROVE Inv'
  <2>1. PICK s \in children : Dead(s) /\ children' = children \ {s}
    BY <1>1 DEF DrainWaits
  <2>2. worker[run][s].state \in {"ok", "failed", "torn"}
    BY <2>1 DEF Dead, Failed
  <2>3. Pool'
    BY <1>1, <2>1, <2>2 DEF DrainWaits, Inv, Pool, Runs, Failed, Idle, InlineIs
  <2> QED  BY <1>1, <2>1, <2>3, Pauses, Types DEF DrainWaits, Inv
<1>2. ASSUME Inv, DrainExits PROVE Inv'
  <2>1. Pool'
    BY <1>2 DEF DrainExits, Inv, Pool, Runs, Failed, Idle, InlineIs
  <2> QED  BY <1>2, <2>1, Pauses, Types DEF DrainExits, Inv
<1> QED  BY <1>1, <1>2

(* The number of faults stays within its bound. *)
LEMMA MishapIs ==
  ASSUME TypeOK, NEW kind, Mishap(kind)
  PROVE  mishaps' \in 0..MaxFaults
<1>1. mishaps \in 0..MaxFaults /\ MaxFaults \in Nat
  BY Types, Numbers
<1>2. mishaps < MaxFaults /\ mishaps' = mishaps + 1
  BY DEF Mishap
<1> QED  BY <1>1, <1>2

(* main() dies of an exception: what still runs is left behind. *)
LEMMA RaisesOk == Inv /\ Raises => Inv'
<1> SUFFICES ASSUME Inv, Raises PROVE Inv'
  OBVIOUS
<1>1. mishaps' \in 0..MaxFaults
  BY MishapIs DEF Raises, Inv
<1>2. orphaned \subseteq orphaned' /\ orphaned' \subseteq Slices
  BY Types DEF Raises, Inv
<1>3. Pool'
  BY DEF Raises, Inv, Pool, Runs, Failed, Idle, InlineIs
<1> QED  BY <1>1, <1>2, <1>3, Pauses DEF Raises

(* A file line: the slice is skipped or gets its name. *)
LEMMA ReadFileOk == Inv /\ ReadFile => Inv'
<1> SUFFICES ASSUME Inv, ReadFile PROVE Inv'
  OBVIOUS
<1> DEFINE c == [cur EXCEPT !.named = TRUE]
<1>1. /\ mainPc = "read" /\ pos <= cut /\ LineKind(pos) = "file"
      /\ pos' = pos + 1
      /\ IF rebuild \/ ~Exists(cur.slice)
         THEN cur' = c /\ opened' = TRUE
         ELSE cur' = None /\ opened' = opened
      /\ UNCHANGED <<files, worker, run, rebuild, jobs, cut, mainPc, children,
                     status, orphaned, mishaps>>
  BY DEF ReadFile
<1>2. TypeOK /\ CurHolds
  BY DEF Inv
<1>3. /\ pos \in 1..(FullLog + 1) /\ cut \in 0..FullLog /\ FullLog \in Nat
      /\ cur \in CurType /\ opened \in BOOLEAN
  BY <1>2, Types, Numbers
<1>4. /\ c \in CurType /\ c.slice = cur.slice /\ c.named = TRUE
      /\ c.whole = cur.whole /\ c # None
  BY <1>3, NameIs
<1> HIDE DEF c
<1>5. /\ pos > 1 /\ LineSlice(pos) = Reached /\ LineKind(pos - 1) = "begin"
      /\ Reached \in Slices
  BY <1>1, <1>2, ReachedIs
<1>6. Reached' = Reached /\ pos' > 1 /\ pos' - 1 = pos
  BY <1>1, <1>2, <1>5, NextReached
<1>7. cur # None /\ cur.slice = Reached /\ ~cur.named /\ ~cur.whole
  BY <1>2, <1>5 DEF CurHolds
<1>8. pos' \in 1..(FullLog + 1) /\ pos' <= cut' + 1
  BY <1>1, <1>3
<1>9. (Over => Over') /\ Reading /\ Reading'
  BY <1>1 DEF Over, Reading
<1>10. \A s : (Idle(s) <=> Idle(s)') /\ (Exists(s) <=> Exists(s)')
  BY <1>1 DEF Idle, Exists
<1>11. \A s : Dealt(s) <=> Dealt(s)'
  BY <1>1, <1>10 DEF Dealt
<1>12. TypeOK'
  BY <1>1, <1>2, <1>3, <1>4, <1>8, NoneIs, Types DEF TypeOK, CurType
<1>13. CurHolds'
  BY <1>1, <1>4, <1>6, <1>7, <1>8, NoneIs DEF CurHolds
<1>14. MainAt'
  BY <1>1 DEF MainAt
<1>15. Generations'
  BY <1>1, <1>6, <1>9, <1>10 DEF Inv, Generations
<1>16. Pool'
  BY <1>1, <1>3, <1>10 DEF Inv, Pool, Runs, Failed, Idle, InlineIs
<1>17. Covered'
  <2>1. cur' = None => Dealt(Reached)
    BY <1>1, <1>4, <1>7 DEF Dealt
  <2> QED  BY <1>1, <1>6, <1>9, <1>11, <2>1 DEF Inv, Covered
<1>18. Lacking'
  <2>1. ASSUME ~rebuild', cur'.named
        PROVE  files[cur'.slice][Last(cur'.slice)] = "absent"
    <3>1. ~Exists(cur.slice) /\ cur' = c
      BY <1>1, <2>1, NoneIs
    <3> QED  BY <1>4, <1>5, <1>7, <3>1 DEF Inv, LastOpened
  <2> QED  BY <1>1, <2>1 DEF Inv, Lacking, Runs
<1> QED  BY <1>1, <1>9, <1>12, <1>13, <1>14, <1>15, <1>16, <1>17, <1>18,
            QuietKeeps DEF Inv

(* The body: the checkpoint is whole. *)
LEMMA ReadBodyOk == Inv /\ ReadBody => Inv'
<1> SUFFICES ASSUME Inv, ReadBody PROVE Inv'
  OBVIOUS
<1> DEFINE c == [cur EXCEPT !.whole = TRUE]
<1>1. /\ mainPc = "read" /\ pos <= cut /\ LineKind(pos) = "body"
      /\ pos' = pos + 1 /\ cur' = IF cur = None THEN None ELSE c
      /\ UNCHANGED <<files, worker, run, rebuild, jobs, cut, mainPc, opened,
                     children, status, orphaned, mishaps>>
  BY DEF ReadBody
<1>2. TypeOK /\ CurHolds
  BY DEF Inv
<1>3. /\ pos \in 1..(FullLog + 1) /\ cut \in 0..FullLog /\ FullLog \in Nat
      /\ cur \in CurType
  BY <1>2, Types, Numbers
<1>4. /\ c \in CurType /\ c.slice = cur.slice /\ c.named = cur.named
      /\ c.whole = TRUE /\ c # None
  BY <1>3, WholeIs
<1> HIDE DEF c
<1>5. /\ pos > 1 /\ LineSlice(pos) = Reached /\ LineKind(pos - 1) = "file"
  BY <1>1, <1>2, ReachedIs
<1>6. Reached' = Reached /\ pos' > 1 /\ pos' - 1 = pos
  BY <1>1, <1>2, <1>5, NextReached
<1>7. cur = None \/ (cur.slice = Reached /\ cur.named)
  BY <1>2, <1>5 DEF CurHolds
<1>8. pos' \in 1..(FullLog + 1) /\ pos' <= cut' + 1
  BY <1>1, <1>3
<1>9. (Over => Over') /\ Reading /\ Reading'
  BY <1>1 DEF Over, Reading
<1>10. \A s : (Idle(s) <=> Idle(s)') /\ (Exists(s) <=> Exists(s)')
  BY <1>1 DEF Idle, Exists
<1>11. \A s : Dealt(s) <=> Dealt(s)'
  BY <1>1, <1>10 DEF Dealt
<1>12. TypeOK'
  BY <1>1, <1>2, <1>4, <1>8, NoneIs, Types DEF TypeOK, CurType
<1>13. CurHolds'
  BY <1>1, <1>2, <1>4, <1>6, <1>7, <1>8, NoneIs DEF CurHolds
<1>14. MainAt'
  BY <1>1 DEF MainAt
<1>15. Generations'
  BY <1>1, <1>6, <1>9, <1>10 DEF Inv, Generations
<1>16. Pool'
  BY <1>1, <1>10 DEF Inv, Pool, Runs, Failed, Idle, InlineIs
<1>17. Covered'
  <2>1. cur' = None => cur = None
    BY <1>1, <1>4
  <2> QED  BY <1>1, <1>5, <1>6, <1>9, <1>11, <2>1 DEF Inv, Covered
<1>18. Lacking'
  <2>1. cur'.named => cur.named /\ cur'.slice = cur.slice
    BY <1>1, <1>4, NoneIs
  <2> QED  BY <1>1, <1>9, <2>1 DEF Inv, Lacking, Runs
<1> QED  BY <1>1, <1>9, <1>12, <1>13, <1>14, <1>15, <1>16, <1>17, <1>18,
            QuietKeeps DEF Inv

(* main() reads on after a slice that is dealt with. *)
LEMMA ContinueOk ==
  ASSUME Inv, mainPc \in {"submit", "inline"}, Continue, files' = files,
         worker' = worker, run' = run, rebuild' = rebuild, jobs' = jobs,
         cut' = cut, opened' = opened, children' = children, status' = status,
         orphaned' = orphaned, mishaps' = mishaps,
         pos > 1 => Dealt(Reached),
         \A s \in Slices : InlineIs(s) => worker[run][s].state = "ok"
  PROVE  Inv'
<1>1. TypeOK /\ CurHolds /\ (pos > cut \/ LineKind(pos) = "begin")
  BY DEF Inv, MainAt
<1>2. /\ pos' \in 1..(FullLog + 1) /\ cur' \in CurType
      /\ mainPc' \in {"read", "close"} /\ CurHolds' /\ MainAt'
      /\ mainPc' = "read" =>
           /\ Reached' = Reached + 1 /\ cur' # None /\ cur'.named = FALSE
      /\ mainPc' = "close" =>
           pos > cut /\ pos' = pos /\ cur' = cur /\ Reached' = Reached
  BY <1>1, Continues
<1>3. Reached \in 0..N /\ Slices = 1..N /\ N \in Nat /\ (pos > 1 => Reached \in Slices)
      /\ (Reached # 0 => pos > 1)
  BY <1>1, ReachedIs, Numbers, Types DEF Slices, Reached
<1>4. \A s : (Idle(s) <=> Idle(s)') /\ (Exists(s) <=> Exists(s)')
  BY DEF Idle, Exists
<1>5. \A s : Dealt(s) <=> Dealt(s)'
  BY <1>4 DEF Dealt
<1>6. TypeOK'
  BY <1>1, <1>2, Types DEF TypeOK, CurType
<1>7. Over => Over'
  <2>1. Over => mainPc' = "close"
    BY <1>1, Types, Numbers DEF Over, Continue
  <2> QED  BY <1>2, <2>1 DEF Over, Reading
<1>8. Generations'
  <2>1. ASSUME NEW s \in Slices, s > Reached'
        PROVE  Idle(s)'
    BY <1>2, <1>3, <1>4, <2>1 DEF Inv, Generations
  <2>2. ASSUME NEW s \in Slices, Reading', s = Reached'
        PROVE  Idle(s)'
    BY <1>2, <1>3, <1>4, <2>2 DEF Inv, Generations, Reading
  <2> QED  BY <2>1, <2>2 DEF Inv, Generations
<1>9. Pool'
  BY <1>2, <1>4 DEF Inv, Pool, Runs, Failed, Idle, InlineIs
<1>10. Covered'
  <2>1. ASSUME NEW s \in Slices, s <= Reached
        PROVE  Dealt(s)
    BY <1>3, <2>1 DEF Inv, Covered
  <2>2. ASSUME NEW s \in Slices,
               \/ mainPc' \in {"read", "submit", "inline"} /\ s < Reached'
               \/ mainPc' = "close" /\ s <= Reached'
        PROVE  s <= Reached
    BY <1>2, <1>3, <2>2
  <2>3. ~(Reading' /\ cur' = None)
    BY <1>2 DEF Reading
  <2> QED  BY <1>5, <2>1, <2>2, <2>3 DEF Covered
<1>11. Lacking'
  <2>1. ~(Reading' /\ cur'.named)
    BY <1>2 DEF Reading
  <2> QED  BY <2>1 DEF Inv, Lacking, Runs
<1> QED  BY <1>2, <1>6, <1>7, <1>8, <1>9, <1>10, <1>11, QuietKeeps DEF Inv

LEMMA SubmitNothingOk == Inv /\ SubmitNothing => Inv'
<1> SUFFICES ASSUME Inv, SubmitNothing PROVE Inv'
  OBVIOUS
<1>1. pos > 1 => Dealt(Reached)
  <2>1. pos > 1 => Reached \in Slices
    BY ReachedIs DEF Inv
  <2> QED  BY <2>1 DEF SubmitNothing, Inv, Covered, Reading
<1> QED  BY <1>1, ContinueOk DEF SubmitNothing, InlineIs

LEMMA InlineReturnsInv == Inv /\ InlineReturns => Inv'
<1> SUFFICES ASSUME Inv, InlineReturns PROVE Inv'
  OBVIOUS
<1>1. /\ mainPc = "inline" /\ cur # None /\ jobs < 2 /\ children = {}
      /\ worker[run][cur.slice].state \in {"ok", "failed", "torn"}
      /\ cur.slice = Reached /\ pos > 1
  BY DEF InlineReturns, Dead, Failed, Inv, MainAt, Pool, CurHolds
<1>2. CASE Failed(cur.slice)
  <2>1. mainPc' = "exit" /\ status' = 1 /\ cur' = cur /\ pos' = pos
        /\ UNCHANGED <<files, worker, run, rebuild, jobs, cut, opened, children,
                       orphaned, mishaps>>
    BY <1>2 DEF InlineReturns
  <2>2. \A s \in Slices : ~Runs(s)
    BY <1>1, <1>2 DEF Inv, Pool, Runs, Failed, InlineIs
  <2>3. Pool'
    BY <1>1, <2>1, <2>2 DEF Inv, Pool, Runs, Failed, Idle, InlineIs
  <2> QED  BY <2>1, <2>3, Pauses, Types DEF Inv
<1>3. CASE ~Failed(cur.slice)
  <2>1. Continue /\ UNCHANGED <<files, worker, run, rebuild, jobs, cut, opened,
                                children, status, orphaned, mishaps>>
    BY <1>3 DEF InlineReturns
  <2>2. Dealt(Reached)
    BY <1>1 DEF Dealt, Idle
  <2> QED  BY <1>1, <1>3, <2>1, <2>2, ContinueOk DEF InlineIs, Failed
<1> QED  BY <1>2, <1>3

(***************************************************************************)
(* The start of a worker.                                                  *)
(***************************************************************************)
LEMMA Starts ==
  ASSUME Inv, mainPc = "submit", cur # None, opened,
         worker' = [worker EXCEPT ![run][cur.slice] = Start(cur)],
         files' = files, run' = run, rebuild' = rebuild, cut' = cut,
         orphaned' = orphaned, pos > cut => Over'
  PROVE  /\ worker' \in [1..MaxRuns -> [Slices -> WorkerType]]
         /\ cur.slice \in Slices /\ cur.slice = Reached /\ pos > 1
         /\ \A r \in 1..MaxRuns : \A s \in Slices :
              ~(r = run /\ s = cur.slice) => worker'[r][s] = worker[r][s]
         /\ worker'[run][cur.slice].state = "runs"
         /\ InSteps' /\ Made' /\ Given' /\ Progress' /\ Torn' /\ Shortened'
         /\ LastOpened'
         /\ ~rebuild' => \A s \in Slices \ orphaned :
                           Runs(s)' /\ worker'[run][s].named =>
                             files'[s][Last(s)] \in {"absent", "partial"}
<1> DEFINE c == cur.slice
           w == Start(cur)
<1>1. TypeOK /\ CurHolds /\ MainAt /\ Reading /\ ~Over
  BY DEF Inv, Reading, Over
<1>2. /\ pos \in 1..(FullLog + 1) /\ cut \in 0..FullLog /\ FullLog \in Nat
      /\ cur \in CurType /\ run \in 1..MaxRuns /\ MaxRuns \in Nat
      /\ worker \in [1..MaxRuns -> [Slices -> WorkerType]]
  BY <1>1, Types, Numbers
<1>3. pos > 1 /\ c = Reached /\ c \in Slices
  BY <1>1, ReachedIs DEF CurHolds
<1>4. /\ w \in WorkerType /\ w.state = "runs" /\ w.step = 1
      /\ w.named = cur.named /\ w.whole = cur.whole
  BY <1>2, StartIs
<1>5. /\ worker' \in [1..MaxRuns -> [Slices -> WorkerType]]
      /\ \A r \in 1..MaxRuns : \A s \in Slices :
           worker'[r][s] = IF r = run /\ s = c THEN w ELSE worker[r][s]
  BY <1>2, <1>3, <1>4, PutWorker
<1>6. Idle(c) /\ \A s \in Slices : s > c => Idle(s)
  BY <1>1, <1>3 DEF Inv, Generations
<1>7. LineKind(pos - 1) = "body" => cur.named /\ cur.whole
  BY <1>1, <1>3 DEF CurHolds
<1>8. pos <= cut \/ cut = FullLog => cur.named /\ cur.whole
  <2>1. CASE LineKind(pos) = "begin"
    BY <1>1, <1>3, <1>7, <2>1, ReachedIs
  <2>2. CASE pos > cut /\ cut = FullLog
    <3>1. pos - 1 = FullLog /\ FullLog \in 1..FullLog
      BY <1>2, <1>3, <2>2
    <3>2. LineKind(FullLog) = "body"
      BY <3>1, LastLine
    <3> QED  BY <1>7, <3>1, <3>2
  <2> QED  BY <1>1, <1>2, <2>1, <2>2 DEF MainAt
<1> HIDE DEF c, w
<1>9. InSteps'
  <2> DEFINE n == Len(Process[c])
  <2>1. n \in 1..13
    BY <1>3, Order
  <2> HIDE DEF n
  <2>2. w.step <= n
    BY <1>4, <2>1
  <2> QED  BY <1>5, <2>2 DEF Inv, InSteps, n
<1>10. Made'
  BY <1>2, <1>4, <1>5 DEF Inv, Made, Exists, Complete
<1>11. Given'
  BY <1>2, <1>4, <1>5, <1>8 DEF Inv, Given, Runs
<1>12. Progress'
  <2>1. \A f \in Used(c) : ~(OpenAt(f) < w.step) /\ ~(CloseAt(f) < w.step)
    BY <1>3, <1>4, Order
  <2>2. worker'[run][c] = w
    BY <1>2, <1>3, <1>5
  <2>3. ASSUME NEW r \in 1..MaxRuns, NEW s \in Slices, worker'[r][s].state = "runs",
               NEW f \in Used(s), OpenAt(f) < worker'[r][s].step
        PROVE  files'[s][f] # "absent"
    <3>1. worker'[r][s] = worker[r][s]
      BY <1>5, <2>1, <2>2, <2>3
    <3> QED  BY <2>3, <3>1 DEF Inv, Progress
  <2>4. ASSUME NEW s \in Slices \ orphaned, Runs(s)', NEW f \in Used(s)
        PROVE  /\ Holds(run, s, f)' => files'[s][f] = "partial"
               /\ worker'[run][s].whole /\ CloseAt(f) < worker'[run][s].step =>
                    files'[s][f] = "whole"
    <3>1. CASE s = c
      BY <2>1, <2>2, <3>1 DEF Holds
    <3>2. CASE s # c
      <4>1. worker'[run][s] = worker[run][s]
        BY <1>2, <1>5, <3>2
      <4> QED  BY <2>4, <4>1 DEF Inv, Progress, Runs, Holds
    <3> QED  BY <3>1, <3>2
  <2> QED  BY <2>3, <2>4 DEF Progress
<1>13. Torn'
  <2> SUFFICES ASSUME NEW s \in Slices, NEW f \in Files, files[s][f] = "partial"
               PROVE  Broken(s)' \/ \E r \in 1..MaxRuns : Holds(r, s, f)'
    BY DEF Torn
  <2>1. CASE Broken(s)
    <3>1. PICK r \in 1..MaxRuns : worker[r][s].state \in {"gone", "torn"}
      BY <2>1 DEF Broken
    <3>2. worker'[r][s] = worker[r][s]
      BY <1>5, <1>6, <3>1 DEF Idle
    <3> QED  BY <3>1, <3>2 DEF Broken
  <2>2. ASSUME NEW r \in 1..MaxRuns, Holds(r, s, f)
        PROVE  Holds(r, s, f)'
    <3>1. worker'[r][s] = worker[r][s]
      BY <1>5, <1>6, <2>2 DEF Holds, Idle
    <3> QED  BY <2>2, <3>1 DEF Holds
  <2> QED  BY <2>1, <2>2 DEF Inv, Torn
<1>14. Shortened'
  <2>1. ASSUME NEW s \in Slices, NEW f \in Files, files[s][f] = "short"
        PROVE  \E r \in 1..MaxRuns : /\ worker'[r][s].state # "none"
                                     /\ r <= run' /\ LastOf(r, s)'
                                     /\ r = run' => Over'
    <3>1. PICK r \in 1..MaxRuns : /\ worker[r][s].state # "none"
                                  /\ r <= run /\ LastOf(r, s)
                                  /\ r = run => Over
      BY <2>1 DEF Inv, Shortened
    <3>2. r # run /\ \A t \in Slices : worker'[r][t] = worker[r][t]
      BY <1>1, <1>5, <3>1
    <3> QED  BY <3>1, <3>2 DEF LastOf
  <2>2. ASSUME NEW r \in 1..MaxRuns, NEW s \in Slices,
               worker'[r][s].state = "runs", ~worker'[r][s].whole
        PROVE  LastOf(r, s)' /\ (r = run' => Over')
    <3>1. CASE r = run /\ s = c
      <4>1. ~cur.whole
        BY <1>4, <1>5, <2>2, <3>1
      <4>2. Over'
        BY <1>2, <1>8, <4>1
      <4>3. \A t \in Slices : t > s => worker'[run][t] = worker[run][t]
        BY <1>2, <1>3, <1>5, <3>1, Numbers DEF Slices
      <4> QED  BY <1>6, <3>1, <4>2, <4>3 DEF LastOf, Idle
    <3>2. CASE ~(r = run /\ s = c)
      <4>1. worker'[r][s] = worker[r][s]
        BY <1>5, <3>2
      <4>2. LastOf(r, s) /\ r # run
        BY <1>1, <2>2, <4>1 DEF Inv, Shortened
      <4>3. \A t \in Slices : worker'[r][t] = worker[r][t]
        BY <1>5, <4>2
      <4> QED  BY <4>2, <4>3 DEF LastOf
    <3> QED  BY <3>1, <3>2
  <2> QED  BY <2>1, <2>2 DEF Shortened
<1>15. LastOpened'
  BY DEF Inv, LastOpened, Exists
<1>16. ASSUME ~rebuild', NEW s \in Slices \ orphaned, Runs(s)', worker'[run][s].named
       PROVE  files'[s][Last(s)] \in {"absent", "partial"}
  <2>1. CASE s = c
    <3>1. cur.named
      BY <1>2, <1>4, <1>5, <1>16, <2>1
    <3> QED  BY <1>1, <1>16, <2>1, <3>1 DEF Inv, Lacking, c
  <2>2. CASE s # c
    <3>1. worker'[run][s] = worker[run][s]
      BY <1>2, <1>5, <2>2
    <3> QED  BY <1>16, <3>1 DEF Inv, Lacking, Runs
  <2> QED  BY <2>1, <2>2
<1> QED
  <2>1. \A r \in 1..MaxRuns : \A s \in Slices :
          ~(r = run /\ s = c) => worker'[r][s] = worker[r][s]
    BY <1>5
  <2>2. worker'[run][c].state = "runs"
    BY <1>2, <1>3, <1>4, <1>5
  <2> QED  BY <1>3, <1>5, <1>9, <1>10, <1>11, <1>12, <1>13, <1>14, <1>15, <1>16,
              <2>1, <2>2 DEF c

LEMMA SubmitInlineOk == Inv /\ SubmitInline => Inv'
<1> SUFFICES ASSUME Inv, SubmitInline PROVE Inv'
  OBVIOUS
<1>1. /\ mainPc = "submit" /\ cur # None /\ opened /\ jobs < 2
      /\ mainPc' = "inline"
      /\ worker' = [worker EXCEPT ![run][cur.slice] = Start(cur)]
      /\ files' = files /\ run' = run /\ rebuild' = rebuild /\ jobs' = jobs
      /\ cut' = cut /\ pos' = pos /\ cur' = cur /\ opened' = opened
      /\ children' = children /\ status' = status
      /\ orphaned' = orphaned /\ mishaps' = mishaps
  BY DEF SubmitInline
<1>2. ~Reading' /\ (pos > cut => Over')
  BY <1>1 DEF Reading, Over
<1>3. /\ worker' \in [1..MaxRuns -> [Slices -> WorkerType]]
      /\ cur.slice \in Slices /\ cur.slice = Reached /\ pos > 1
      /\ \A r \in 1..MaxRuns : \A s \in Slices :
           ~(r = run /\ s = cur.slice) => worker'[r][s] = worker[r][s]
      /\ worker'[run][cur.slice].state = "runs"
      /\ InSteps' /\ Made' /\ Given' /\ Progress' /\ Torn' /\ Shortened'
      /\ LastOpened'
      /\ ~rebuild' => \A s \in Slices \ orphaned :
                        Runs(s)' /\ worker'[run][s].named =>
                          files'[s][Last(s)] \in {"absent", "partial"}
  BY <1>1, <1>2, Starts
<1>4. TypeOK /\ run \in 1..MaxRuns /\ MaxRuns \in Nat
  BY Types, Numbers DEF Inv
<1>5. \A s \in Slices : s # cur.slice => worker'[run][s] = worker[run][s]
  BY <1>3, <1>4
<1>6. Reached' = Reached
  BY <1>1 DEF Reached
<1>7. TypeOK'
  BY <1>1, <1>3, <1>4, Types DEF TypeOK, WorkerType
<1>8. CurHolds'
  BY <1>1, <1>6 DEF Inv, CurHolds
<1>9. MainAt'
  BY <1>1 DEF Inv, MainAt
<1>10. Generations'
  <2>1. ASSUME NEW r \in 1..MaxRuns, NEW s \in Slices
        PROVE  /\ r > run' => worker'[r][s].state = "none"
               /\ r < run' /\ worker'[r][s].state = "runs" => s \in orphaned'
    BY <1>1, <1>3, <1>4 DEF Inv, Generations
  <2>2. ASSUME NEW s \in Slices, s > Reached'
        PROVE  Idle(s)'
    <3>1. s > Reached /\ s # cur.slice
      BY <1>3, <1>6, <2>2, Numbers DEF Slices
    <3> QED  BY <1>1, <1>5, <3>1 DEF Inv, Generations, Idle
  <2> QED  BY <1>2, <2>1, <2>2 DEF Generations
<1>11. Pool'
  BY <1>1, <1>3, <1>5 DEF Inv, Pool, Runs, Failed, Idle, InlineIs
<1>12. Covered'
  <2>1. ASSUME NEW s \in Slices, s < Reached
        PROVE  Dealt(s)'
    <3>1. s # cur.slice
      BY <1>3, <2>1, Numbers DEF Slices
    <3>2. Dealt(s)
      BY <1>1, <2>1 DEF Inv, Covered
    <3> QED  BY <1>1, <1>5, <3>1, <3>2 DEF Dealt, Idle, Exists
  <2> QED  BY <1>1, <1>2, <1>6, <2>1 DEF Covered
<1>13. Lacking'
  BY <1>1, <1>2, <1>3 DEF Lacking
<1> QED  BY <1>3, <1>7, <1>8, <1>9, <1>10, <1>11, <1>12, <1>13 DEF Inv

LEMMA MoreChildren ==
  ASSUME TypeOK, ~PoolFull, NEW s \in Slices
  PROVE  children \cup {s} \subseteq Slices /\ Cardinality(children \cup {s}) <= jobs
<1>1. children \subseteq Slices /\ Cardinality(children) <= jobs /\ jobs \in Nat
  BY Types, Numbers
<1>2. IsFiniteSet(Slices)
  BY Numbers, FS_Interval DEF Slices
<1>3. IsFiniteSet(children)
  BY <1>1, <1>2, FS_Subset
<1>4. Cardinality(children) \in Nat
  BY <1>3, FS_CardinalityType
<1>5. Cardinality(children \cup {s}) =
        IF s \in children THEN Cardinality(children) ELSE Cardinality(children) + 1
  BY <1>3, FS_AddElement
<1> QED  BY <1>1, <1>4, <1>5 DEF PoolFull

LEMMA SubmitForksOk == Inv /\ SubmitForks => Inv'
<1> SUFFICES ASSUME Inv, SubmitForks PROVE Inv'
  OBVIOUS
<1>1. /\ mainPc = "submit" /\ cur # None /\ opened /\ jobs >= 2 /\ ~PoolFull
      /\ Continue
      /\ worker' = [worker EXCEPT ![run][cur.slice] = Start(cur)]
      /\ children' = children \cup {cur.slice}
      /\ files' = files /\ run' = run /\ rebuild' = rebuild /\ jobs' = jobs
      /\ cut' = cut /\ opened' = opened /\ status' = status
      /\ orphaned' = orphaned /\ mishaps' = mishaps
  BY DEF SubmitForks
<1>2. /\ TypeOK /\ CurHolds /\ (pos > cut \/ LineKind(pos) = "begin")
      /\ run \in 1..MaxRuns /\ MaxRuns \in Nat /\ jobs \in Nat
  BY <1>1, Types, Numbers DEF Inv, MainAt
<1>3. /\ pos' \in 1..(FullLog + 1) /\ cur' \in CurType
      /\ mainPc' \in {"read", "close"} /\ CurHolds' /\ MainAt'
      /\ mainPc' = "read" =>
           /\ Reached' = Reached + 1 /\ cur' # None /\ cur'.named = FALSE
      /\ mainPc' = "close" =>
           pos > cut /\ pos' = pos /\ cur' = cur /\ Reached' = Reached
  BY <1>1, <1>2, Continues
<1>4. pos > cut => Over'
  <2>1. pos > cut => mainPc' = "close"
    BY <1>1, <1>2, Types, Numbers DEF Continue
  <2> QED  BY <1>1, <1>3, <2>1 DEF Over, Reading
<1>5. /\ worker' \in [1..MaxRuns -> [Slices -> WorkerType]]
      /\ cur.slice \in Slices /\ cur.slice = Reached /\ pos > 1
      /\ \A r \in 1..MaxRuns : \A s \in Slices :
           ~(r = run /\ s = cur.slice) => worker'[r][s] = worker[r][s]
      /\ worker'[run][cur.slice].state = "runs"
      /\ InSteps' /\ Made' /\ Given' /\ Progress' /\ Torn' /\ Shortened'
      /\ LastOpened'
      /\ ~rebuild' => \A s \in Slices \ orphaned :
                        Runs(s)' /\ worker'[run][s].named =>
                          files'[s][Last(s)] \in {"absent", "partial"}
  BY <1>1, <1>4, Starts
<1>6. \A s \in Slices : s # cur.slice => worker'[run][s] = worker[run][s]
  BY <1>2, <1>5
<1>7. Reached \in 1..N /\ Slices = 1..N /\ N \in Nat
  BY <1>5, Numbers DEF Slices
<1>8. TypeOK'
  <2>1. children' \subseteq Slices /\ Cardinality(children') <= jobs'
    BY <1>1, <1>2, <1>5, MoreChildren
  <2> QED  BY <1>1, <1>2, <1>3, <1>5, <2>1, Types DEF TypeOK, WorkerType, CurType
<1>9. Generations'
  <2>1. ASSUME NEW r \in 1..MaxRuns, NEW s \in Slices
        PROVE  /\ r > run' => worker'[r][s].state = "none"
               /\ r < run' /\ worker'[r][s].state = "runs" => s \in orphaned'
    BY <1>1, <1>2, <1>5 DEF Inv, Generations
  <2>2. ASSUME NEW s \in Slices, s > Reached' \/ (Reading' /\ s = Reached')
        PROVE  Idle(s)'
    <3>1. s > Reached /\ s # cur.slice
      BY <1>3, <1>5, <1>7, <2>2 DEF Reading
    <3> QED  BY <1>1, <1>6, <3>1 DEF Inv, Generations, Idle
  <2> QED  BY <2>1, <2>2 DEF Generations
<1>10. Pool'
  BY <1>1, <1>2, <1>3, <1>5, <1>6 DEF Inv, Pool, Runs, Failed, Idle, InlineIs
<1>11. Covered'
  <2>1. ASSUME NEW s \in Slices,
               \/ mainPc' \in {"read", "submit", "inline"} /\ s < Reached'
               \/ mainPc' = "close" /\ s <= Reached'
        PROVE  Dealt(s)'
    <3>1. s <= Reached
      BY <1>3, <1>7, <2>1
    <3>2. CASE s = cur.slice
      BY <1>1, <1>5, <3>2 DEF Dealt, Idle
    <3>3. CASE s # cur.slice
      <4>1. s < Reached
        BY <1>5, <1>7, <3>1, <3>3
      <4>2. Dealt(s)
        BY <1>1, <4>1 DEF Inv, Covered
      <4> QED  BY <1>1, <1>6, <3>3, <4>2 DEF Dealt, Idle, Exists
    <3> QED  BY <3>2, <3>3
  <2>2. ~(Reading' /\ cur' = None)
    BY <1>3 DEF Reading
  <2> QED  BY <2>1, <2>2 DEF Covered
<1>12. Lacking'
  <2>1. ~(Reading' /\ cur'.named)
    BY <1>3 DEF Reading
  <2> QED  BY <1>1, <1>5, <2>1 DEF Lacking
<1> QED  BY <1>3, <1>5, <1>8, <1>9, <1>10, <1>11, <1>12 DEF Inv

(***************************************************************************)
(* The steps of a worker.                                                  *)
(***************************************************************************)
LEMMA LengthIs ==
  ASSUME NEW s \in Slices
  PROVE  /\ Length(s) = Len(Process[s]) /\ Length(s) \in 1..13
         /\ CloseAt(Last(s)) = Length(s)
BY Order DEF Length

LEMMA OpenRange ==
  ASSUME NEW s \in Slices
  PROVE  \A f \in Used(s) : OpenAt(f) \in Nat /\ CloseAt(f) \in Nat
<1> SUFFICES ASSUME NEW f \in Used(s)
             PROVE  OpenAt(f) \in Nat /\ CloseAt(f) \in Nat
  OBVIOUS
<1> DEFINE n == Len(Process[s])
<1>1. n \in Nat /\ OpenAt(f) \in 1..n /\ CloseAt(f) \in 1..n
  BY Order
<1> HIDE DEF n
<1> QED  BY <1>1

(* No other run's worker is at work on the slice. *)
Alone(r, s) == \A q \in (1..MaxRuns) \ {r} : worker[q][s].state # "runs"

Own(w) == IF w.whole THEN "whole" ELSE "short"

(* A step opens its file, closes it, or leaves all files as they are. *)
Wrote(r, s) ==
    /\ files' \in [Slices -> [Files -> FileStates]]
    /\ \A t \in Slices : t # s => files'[t] = files[t]
    /\ \A f \in Files : files[s][f] # "absent" => files'[s][f] # "absent"
    /\ \A f \in Files : f \notin Used(s) => files'[s][f] = files[s][f]
    /\ \A f \in Used(s) :
         /\ worker[r][s].step = OpenAt(f) =>
              /\ files'[s][f] \in {"partial", "mixed"}
              /\ Alone(r, s) => files'[s][f] = "partial"
         /\ worker[r][s].step = CloseAt(f) =>
              /\ files'[s][f] \in {"mixed", Own(worker[r][s])}
              /\ Alone(r, s) /\ files[s][f] # "mixed" =>
                   files'[s][f] = Own(worker[r][s])
         /\ worker[r][s].step # OpenAt(f) /\ worker[r][s].step # CloseAt(f) =>
              files'[s][f] = files[s][f]

LEMMA StepWrites ==
  ASSUME files \in [Slices -> [Files -> FileStates]],
         NEW r \in 1..MaxRuns, NEW s \in Slices,
         NEW w \in WorkerType, w = worker[r][s], w.step <= Length(s),
         NEW g, g = Process[s][w.step][2],
         NEW v \in Written(r, s, g),
         files' = [files EXCEPT ![s][g] = v]
  PROVE  Wrote(r, s)
<1> DEFINE i == w.step
           o == Own(w)
           kind == Process[s][i][1]
<1>1. i \in 1..Len(Process[s])
  <2> DEFINE n == Length(s)
  <2>1. n = Len(Process[s]) /\ n \in 1..13
    BY LengthIs
  <2>2. i \in 1..13 /\ i <= n
    BY WorkerFields
  <2> HIDE DEF n, i
  <2>3. i \in 1..n
    BY <2>1, <2>2
  <2> QED  BY <2>1, <2>3
<1>2. \/ \E f \in Used(s) : kind = "open" /\ g = f /\ i = OpenAt(f)
      \/ \E f \in Used(s) : kind = "close" /\ g = f /\ i = CloseAt(f)
      \/ /\ kind \in {"place", "rerun"}
         /\ g \in Files
         /\ \A f \in Used(s) : ~(OpenAt(f) <= i /\ i <= CloseAt(f))
  BY <1>1, StepIs
<1>3. /\ kind = "open" => /\ v \in {"partial", "mixed"}
                          /\ Alone(r, s) => v = "partial"
      /\ kind = "close" => /\ v \in {"mixed", o}
                           /\ Alone(r, s) /\ files[s][g] # "mixed" => v = o
      /\ kind \in {"place", "rerun"} => v = files[s][g]
  <2> DEFINE shared == \E q \in (1..MaxRuns) \ {r} : HasOpen(q, s, g)
  <2>1. Alone(r, s) => ~shared
    BY DEF Alone, HasOpen
  <2>2. Written(r, s, g) =
          CASE kind = "open" -> {IF shared THEN "mixed" ELSE "partial"}
            [] kind = "close" -> IF shared THEN {"mixed"}
                                 ELSE IF files[s][g] = "mixed" THEN {"mixed", o}
                                 ELSE {o}
            [] OTHER -> {files[s][g]}
    BY DEF Written, Own
  <2> HIDE DEF shared, o, kind
  <2>3. CASE kind = "open"
    BY <2>1, <2>2, <2>3
  <2>4. CASE kind = "close"
    BY <2>1, <2>2, <2>4
  <2>5. CASE kind \in {"place", "rerun"}
    BY <2>2, <2>5
  <2> QED  BY <2>3, <2>4, <2>5
<1>4. /\ Used(s) \subseteq Files
      /\ \A f \in Used(s) : OpenAt(f) \in Nat /\ CloseAt(f) \in Nat
                            /\ OpenAt(f) < CloseAt(f)
      /\ \A f, h \in Used(s) : /\ OpenAt(f) = OpenAt(h) => f = h
                               /\ CloseAt(f) = CloseAt(h) => f = h
                               /\ OpenAt(f) # CloseAt(h)
  <2>1. \A f \in Used(s) : OpenAt(f) \in Nat /\ CloseAt(f) \in Nat
    BY OpenRange
  <2> QED  BY <2>1, Order
<1>5. o \in {"whole", "short"}
  BY DEF Own
<1> HIDE DEF o, kind
<1>6. g \in Files
  BY <1>2, <1>4
<1>7. v \in FileStates
  BY <1>2, <1>3, <1>5, <1>6 DEF FileStates
<1>8. i \in Nat
  BY WorkerFields
<1> HIDE DEF i
<1>9. /\ files' \in [Slices -> [Files -> FileStates]]
      /\ \A t \in Slices : \A m \in Files :
           files'[t][m] = IF t = s /\ m = g THEN v ELSE files[t][m]
  BY <1>6, <1>7, PutFile
<1>10. \A t \in Slices : t # s => files'[t] = files[t]
  OBVIOUS
<1>11. \A f \in Files : f # g => files'[s][f] = files[s][f]
  BY <1>9
<1>12. files'[s][g] = v
  BY <1>6, <1>9
<1>13. \A f \in Files : f \notin Used(s) => files'[s][f] = files[s][f]
  BY <1>2, <1>3, <1>11, <1>12
<1>14. \A f \in Files : files[s][f] # "absent" => files'[s][f] # "absent"
  BY <1>2, <1>3, <1>5, <1>11, <1>12
<1>15. ASSUME NEW f \in Used(s)
       PROVE  /\ i = OpenAt(f) => /\ files'[s][f] \in {"partial", "mixed"}
                                  /\ Alone(r, s) => files'[s][f] = "partial"
              /\ i = CloseAt(f) => /\ files'[s][f] \in {"mixed", o}
                                   /\ Alone(r, s) /\ files[s][f] # "mixed" =>
                                        files'[s][f] = o
              /\ i # OpenAt(f) /\ i # CloseAt(f) => files'[s][f] = files[s][f]
  <2>1. CASE i = OpenAt(f)
    <3>1. kind = "open" /\ g = f
      BY <1>2, <1>4, <1>8, <2>1
    <3> QED  BY <1>3, <1>4, <1>12, <2>1, <3>1
  <2>2. CASE i = CloseAt(f)
    <3>1. kind = "close" /\ g = f
      BY <1>2, <1>4, <1>8, <2>2
    <3> QED  BY <1>3, <1>4, <1>12, <2>2, <3>1
  <2>3. CASE i # OpenAt(f) /\ i # CloseAt(f)
    <3>1. g # f \/ v = files[s][g]
      BY <1>2, <1>3, <2>3
    <3> QED  BY <1>4, <1>11, <1>12, <2>3, <3>1
  <2> QED  BY <2>1, <2>2, <2>3
<1> QED  BY <1>9, <1>10, <1>13, <1>14, <1>15 DEF Wrote, i, o

(* What a step of a running worker leaves alone. *)
LEMMA WorkerMoves ==
  ASSUME Inv, NEW r \in 1..MaxRuns, NEW s \in Slices, worker[r][s].state = "runs",
         NEW w \in WorkerType, w.state \in {"runs", "ok", "failed", "torn"},
         w.step <= Length(s),
         worker' = [worker EXCEPT ![r][s] = w],
         files' \in [Slices -> [Files -> FileStates]],
         \A t \in Slices : t # s => files'[t] = files[t],
         \A f \in Files : files[s][f] # "absent" => files'[s][f] # "absent",
         mishaps' \in 0..MaxFaults,
         UNCHANGED <<run, rebuild, jobs, cut, mainPc, pos, cur, opened,
                     children, status, orphaned>>
  PROVE  /\ r <= run /\ (s \notin orphaned => r = run /\ Alone(r, s))
         /\ worker'[r][s] = w
         /\ \A q \in 1..MaxRuns : \A t \in Slices :
              ~(q = r /\ t = s) => worker'[q][t] = worker[q][t]
         /\ \A q \in 1..MaxRuns : \A t \in Slices :
              worker'[q][t].state = "none" <=> worker[q][t].state = "none"
         /\ Over' <=> Over
         /\ TypeOK' /\ InSteps' /\ CurHolds' /\ MainAt' /\ Generations' /\ Pool'
         /\ Covered'
         /\ ~rebuild' /\ Reading' /\ cur'.named /\ cur'.slice \notin orphaned' =>
              files'[cur'.slice][Last(cur'.slice)] = "absent"
<1>1. /\ run \in 1..MaxRuns /\ MaxRuns \in Nat /\ TypeOK
      /\ worker \in [1..MaxRuns -> [Slices -> WorkerType]]
      /\ files \in [Slices -> [Files -> FileStates]]
  BY Types, Numbers DEF Inv
<1>2. r <= run /\ (s \notin orphaned => r = run /\ Alone(r, s))
  <2>1. \A q \in 1..MaxRuns : worker[q][s].state = "runs" =>
          q <= run /\ (q < run => s \in orphaned)
    BY <1>1 DEF Inv, Generations
  <2>2. s \notin orphaned =>
          \A q \in 1..MaxRuns : worker[q][s].state = "runs" => q = run
    BY <1>1, <2>1
  <2> QED  BY <2>1, <2>2 DEF Alone
<1>3. /\ worker' \in [1..MaxRuns -> [Slices -> WorkerType]]
      /\ \A q \in 1..MaxRuns : \A t \in Slices :
           worker'[q][t] = IF q = r /\ t = s THEN w ELSE worker[q][t]
  BY <1>1, PutWorker
<1>4. worker'[r][s] = w
  BY <1>3
<1>5. \A q \in 1..MaxRuns : \A t \in Slices :
        ~(q = r /\ t = s) => worker'[q][t] = worker[q][t]
  BY <1>3
<1>6. \A q \in 1..MaxRuns : \A t \in Slices :
        worker'[q][t].state = "none" <=> worker[q][t].state = "none"
  BY <1>3
<1>7. \A t \in Slices : Idle(t)' <=> Idle(t)
  BY <1>1, <1>6 DEF Idle
<1>8. Reached' = Reached /\ (Reading' <=> Reading) /\ (Over' <=> Over)
  BY DEF Reached, Reading, Over
<1>9. TypeOK'
  BY <1>1, <1>3, Types DEF TypeOK, WorkerType, FileStates
<1>10. InSteps'
  BY <1>3, LengthIs DEF Inv, InSteps
<1>11. CurHolds' /\ MainAt'
  BY <1>8 DEF Inv, CurHolds, MainAt
<1>12. Generations'
  <2>1. ASSUME NEW q \in 1..MaxRuns, NEW t \in Slices
        PROVE  /\ q > run' => worker'[q][t].state = "none"
               /\ q < run' /\ worker'[q][t].state = "runs" => t \in orphaned'
    <3>1. CASE q = r /\ t = s
      BY <1>1, <1>2, <3>1
    <3>2. CASE ~(q = r /\ t = s)
      BY <1>5, <3>2 DEF Inv, Generations
    <3> QED  BY <3>1, <3>2
  <2> QED  BY <1>7, <1>8, <2>1 DEF Inv, Generations
<1>13. Pool'
  <2>1. ASSUME NEW t \in Slices, worker'[run][t] = worker[run][t]
        PROVE  /\ Runs(t)' <=> Runs(t)
               /\ Failed(t)' <=> Failed(t)
               /\ InlineIs(t)' <=> InlineIs(t)
               /\ worker'[run][t].state = worker[run][t].state
    BY <2>1 DEF Runs, Failed, InlineIs
  <2>2. CASE r = run
    <3>1. Runs(s) /\ worker'[run][s] = w
      BY <1>4, <2>2 DEF Runs
    <3>2. \A t \in Slices : t # s => worker'[run][t] = worker[run][t]
      BY <1>1, <1>5
    <3>3. InlineIs(s)' <=> InlineIs(s)
      BY DEF InlineIs
    <3>4. ~opened => Idle(s)'
      BY <1>7 DEF Inv, Pool
    <3>5. /\ Runs(s)' => IF mainPc = "exit" THEN s \in orphaned
                         ELSE s \in children \/ InlineIs(s)
          /\ Failed(s)' => s \in children \/ mainPc \in {"drain", "exit"} \/ InlineIs(s)
          /\ worker'[run][s].state # "gone"
      BY <3>1 DEF Inv, Pool
    <3> QED  BY <1>7, <2>1, <3>2, <3>3, <3>4, <3>5 DEF Inv, Pool
  <2>3. CASE r # run
    <3>1. \A t \in Slices : worker'[run][t] = worker[run][t]
      BY <1>1, <1>5, <2>3
    <3> QED  BY <1>7, <2>1, <3>1 DEF Inv, Pool
  <2> QED  BY <2>2, <2>3
<1>14. Covered'
  <2>1. ASSUME NEW t \in Slices, Dealt(t)
        PROVE  Dealt(t)'
    <3>1. \A f \in Files : files[t][f] # "absent" => files'[t][f] # "absent"
      OBVIOUS
    <3>2. Exists(t) => Exists(t)'
      BY <3>1, Order DEF Exists
    <3> QED  BY <1>7, <2>1, <3>2 DEF Dealt
  <2> QED  BY <1>8, <2>1 DEF Inv, Covered
<1>15. ASSUME ~rebuild', Reading', cur'.named, cur'.slice \notin orphaned'
       PROVE  files'[cur'.slice][Last(cur'.slice)] = "absent"
  <2>1. cur # None
    BY <1>15, NoneIs
  <2>2. cur.slice = Reached /\ Reached \in Slices
    BY <1>1, <2>1, ReachedIs DEF Inv, CurHolds
  <2>3. Idle(Reached)
    BY <1>8, <1>15, <2>2 DEF Inv, Generations
  <2>4. cur.slice # s
    BY <1>2, <1>15, <2>2, <2>3 DEF Idle
  <2> QED  BY <1>8, <1>15, <2>2, <2>4 DEF Inv, Lacking
<1> QED  BY <1>2, <1>4, <1>5, <1>6, <1>8, <1>9, <1>10, <1>11, <1>12, <1>13, <1>14,
            <1>15

(* A worker ends early; it has broken off unless none of its files is open. *)
LEMMA WorkerEndsOk ==
  ASSUME Inv, NEW r \in 1..MaxRuns, NEW s \in Slices, worker[r][s].state = "runs",
         NEW e \in {"failed", "torn"},
         e = "torn" \/ \A f \in Files : ~Holds(r, s, f),
         worker' = [worker EXCEPT ![r][s] = Ended(e)], files' = files,
         mishaps' \in 0..MaxFaults,
         UNCHANGED <<run, rebuild, jobs, cut, mainPc, pos, cur, opened,
                     children, status, orphaned>>
  PROVE  Inv'
<1> DEFINE w == Ended(e)
<1>1. w \in WorkerType /\ w.state = e /\ w.step = 1
  BY EndedIs DEF WorkerStates
<1>2. worker' = [worker EXCEPT ![r][s] = w]
  OBVIOUS
<1> HIDE DEF w
<1>3. TypeOK /\ files \in [Slices -> [Files -> FileStates]] /\ run \in 1..MaxRuns
  BY Types DEF Inv
<1>4. w.step <= Length(s) /\ w.state \in {"runs", "ok", "failed", "torn"}
      /\ files' \in [Slices -> [Files -> FileStates]]
      /\ \A t \in Slices : t # s => files'[t] = files[t]
      /\ \A f \in Files : files[s][f] # "absent" => files'[s][f] # "absent"
  BY <1>1, <1>3, LengthIs
<1>5. /\ r <= run /\ (s \notin orphaned => r = run /\ Alone(r, s))
      /\ worker'[r][s] = w
      /\ \A q \in 1..MaxRuns : \A t \in Slices :
           ~(q = r /\ t = s) => worker'[q][t] = worker[q][t]
      /\ \A q \in 1..MaxRuns : \A t \in Slices :
           worker'[q][t].state = "none" <=> worker[q][t].state = "none"
      /\ Over' <=> Over
      /\ TypeOK' /\ InSteps' /\ CurHolds' /\ MainAt' /\ Generations' /\ Pool'
      /\ Covered'
      /\ ~rebuild' /\ Reading' /\ cur'.named /\ cur'.slice \notin orphaned' =>
           files'[cur'.slice][Last(cur'.slice)] = "absent"
  BY <1>1, <1>2, <1>3, <1>4, WorkerMoves
<1>6. \A q \in 1..MaxRuns : \A t \in Slices :
        worker'[q][t].state \in {"runs", "ok"} => worker'[q][t] = worker[q][t]
  BY <1>1, <1>5
<1>7. Made'
  BY <1>3, <1>6 DEF Inv, Made, Exists, Complete
<1>8. Given'
  BY <1>3, <1>6 DEF Inv, Given, Runs
<1>9. Progress'
  BY <1>3, <1>6 DEF Inv, Progress, Runs, Holds
<1>10. Torn'
  <2> SUFFICES ASSUME NEW t \in Slices, NEW f \in Files, files[t][f] = "partial"
               PROVE  Broken(t)' \/ \E q \in 1..MaxRuns : Holds(q, t, f)'
    BY DEF Torn
  <2>1. CASE Broken(t)
    <3>1. PICK q \in 1..MaxRuns : worker[q][t].state \in {"gone", "torn"}
      BY <2>1 DEF Broken
    <3>2. worker'[q][t] = worker[q][t]
      BY <1>5, <3>1
    <3> QED  BY <3>1, <3>2 DEF Broken
  <2>2. ASSUME NEW q \in 1..MaxRuns, Holds(q, t, f)
        PROVE  Broken(t)' \/ Holds(q, t, f)'
    <3>1. CASE q = r /\ t = s
      BY <1>1, <1>5, <2>2, <3>1 DEF Broken
    <3>2. CASE ~(q = r /\ t = s)
      BY <1>5, <2>2, <3>2 DEF Holds
    <3> QED  BY <3>1, <3>2
  <2> QED  BY <2>1, <2>2 DEF Inv, Torn
<1>11. Shortened'
  <2>1. \A q \in 1..MaxRuns : \A t \in Slices : LastOf(q, t)' <=> LastOf(q, t)
    BY <1>5 DEF LastOf
  <2> QED  BY <1>3, <1>5, <1>6, <2>1 DEF Inv, Shortened
<1>12. LastOpened'
  BY DEF Inv, LastOpened, Exists
<1>13. Lacking'
  BY <1>3, <1>5, <1>6 DEF Inv, Lacking, Runs
<1> QED  BY <1>5, <1>7, <1>8, <1>9, <1>10, <1>11, <1>12, <1>13 DEF Inv

(* Between an open and a close a worker neither looks for a place nor      *)
(* runs the program again: it fails there without an open file.            *)
LEMMA WorkerFailsOk ==
  ASSUME Inv, NEW r \in 1..MaxRuns, NEW s \in Slices, WorkerFails(r, s)
  PROVE  Inv'
<1> DEFINE i == worker[r][s].step
<1>1. /\ worker[r][s].state = "runs"
      /\ ~worker[r][s].named \/ Process[s][i][1] \in {"place", "rerun"}
      /\ worker' = [worker EXCEPT ![r][s] = Ended("failed")] /\ files' = files
      /\ UNCHANGED <<run, rebuild, jobs, cut, mainPc, pos, cur, opened,
                     children, status, orphaned>>
  BY DEF WorkerFails
<1>2. mishaps' \in 0..MaxFaults
  <2>1. CASE UNCHANGED mishaps
    BY <2>1, Types DEF Inv
  <2>2. CASE \E kind \in {"place", "rerun"} : Mishap(kind)
    BY <2>2, MishapIs DEF Inv
  <2> QED  BY <2>1, <2>2 DEF WorkerFails
<1>3. ASSUME NEW f \in Files, Holds(r, s, f) PROVE FALSE
  <2>1. /\ f \in Used(s) /\ worker[r][s].named
        /\ OpenAt(f) < i /\ i <= CloseAt(f)
    BY <1>3 DEF Holds
  <2>2. i \in 1..Len(Process[s])
    <3> DEFINE n == Len(Process[s])
    <3>1. n \in 1..13 /\ i \in 1..13 /\ i <= n
      BY Types, Order, WorkerFields DEF Inv, InSteps
    <3> HIDE DEF n, i
    <3>2. i \in 1..n
      BY <3>1
    <3> QED  BY <3>2 DEF n
  <2>3. \A g \in Used(s) : ~(OpenAt(g) <= i /\ i <= CloseAt(g))
    BY <1>1, <2>1, <2>2, StepIs
  <2>4. OpenAt(f) \in Nat /\ i \in 1..13
    BY <2>1, OpenRange, Types, WorkerFields DEF Inv
  <2> HIDE DEF i
  <2>5. OpenAt(f) <= i
    BY <2>1, <2>4
  <2> QED  BY <2>1, <2>3, <2>5
<1> QED  BY <1>1, <1>2, <1>3, WorkerEndsOk

LEMMA WorkerTearsOk ==
  ASSUME Inv, NEW r \in 1..MaxRuns, NEW s \in Slices, WorkerTears(r, s)
  PROVE  Inv'
<1>1. mishaps' \in 0..MaxFaults
  BY MishapIs DEF WorkerTears, Inv
<1> QED  BY <1>1, WorkerEndsOk DEF WorkerTears

(* What a step of process() does. *)
LEMMA StepDoes ==
  ASSUME Inv, NEW r \in 1..MaxRuns, NEW s \in Slices, WorkerSteps(r, s),
         NEW w, w = worker[r][s]
  PROVE  /\ r <= run /\ (s \notin orphaned => r = run /\ Alone(r, s))
         /\ w.state = "runs" /\ w.named
         /\ Length(s) \in 1..13 /\ w.step \in 1..Length(s)
         /\ w.whole \in BOOLEAN
         /\ Wrote(r, s)
         /\ IF w.step = Length(s)
            THEN worker'[r][s].state = "ok"
            ELSE /\ worker'[r][s].state = "runs"
                 /\ worker'[r][s].step = w.step + 1
                 /\ worker'[r][s].named = w.named
                 /\ worker'[r][s].whole = w.whole
         /\ \A q \in 1..MaxRuns : \A t \in Slices :
              ~(q = r /\ t = s) => worker'[q][t] = worker[q][t]
         /\ \A q \in 1..MaxRuns : \A t \in Slices :
              worker'[q][t].state = "none" <=> worker[q][t].state = "none"
         /\ run' = run /\ rebuild' = rebuild /\ cut' = cut /\ orphaned' = orphaned
         /\ Over' <=> Over
         /\ TypeOK' /\ InSteps' /\ CurHolds' /\ MainAt' /\ Generations' /\ Pool'
         /\ Covered'
         /\ ~rebuild' /\ Reading' /\ cur'.named /\ cur'.slice \notin orphaned' =>
              files'[cur'.slice][Last(cur'.slice)] = "absent"
<1> DEFINE g == Process[s][w.step][2]
           x == [w EXCEPT !.step = w.step + 1]
           y == IF w.step = Length(s) THEN Ended("ok") ELSE x
<1>1. TypeOK /\ InSteps
      /\ files \in [Slices -> [Files -> FileStates]] /\ run \in 1..MaxRuns
      /\ worker \in [1..MaxRuns -> [Slices -> WorkerType]] /\ w \in WorkerType
      /\ mishaps \in 0..MaxFaults
  BY Types DEF Inv
<1>2. /\ w.state = "runs" /\ w.named
      /\ \E c \in Written(r, s, g) : files' = [files EXCEPT ![s][g] = c]
      /\ worker' = [worker EXCEPT ![r][s] = y]
      /\ UNCHANGED <<run, rebuild, jobs, cut, mainPc, pos, cur, opened,
                     children, status, orphaned, mishaps>>
  BY <1>1 DEF WorkerSteps, Length
<1>3. w.step <= Length(s) /\ Length(s) \in 1..13
  BY <1>1, LengthIs DEF InSteps
<1>4. w.step \in 1..13 /\ w.named \in BOOLEAN /\ w.whole \in BOOLEAN
  BY <1>1, WorkerFields
<1>5. Ended("ok") \in WorkerType /\ Ended("ok").state = "ok" /\ Ended("ok").step = 1
  BY EndedIs DEF WorkerStates
<1>6. w.step # Length(s) => w.step + 1 \in 1..13 /\ w.step + 1 <= Length(s)
  BY <1>3, <1>4
<1>7. w.step # Length(s) => /\ x \in WorkerType /\ x.state = w.state
                    /\ x.step = w.step + 1 /\ x.named = w.named
                    /\ x.whole = w.whole
  BY <1>1, <1>6, AdvanceIs
<1>8. Wrote(r, s)
  <2>1. w.step <= Length(s) /\ w \in WorkerType /\ g = Process[s][w.step][2]
    BY <1>1, <1>3
  <2>2. PICK v \in Written(r, s, g) : files' = [files EXCEPT ![s][g] = v]
    BY <1>2
  <2> HIDE DEF g
  <2> QED  BY <1>1, <2>1, <2>2, StepWrites
<1>9. y \in WorkerType /\ y.state \in {"runs", "ok", "failed", "torn"}
      /\ y.step <= Length(s)
  <2> HIDE DEF x
  <2>1. 1 <= Length(s)
    BY <1>3
  <2> QED  BY <1>2, <1>5, <1>6, <1>7, <2>1
<1>10. IF w.step = Length(s)
       THEN y.state = "ok"
       ELSE /\ y.state = "runs" /\ y.step = w.step + 1
            /\ y.named = w.named /\ y.whole = w.whole
  <2> HIDE DEF x
  <2> QED  BY <1>2, <1>5, <1>7
<1>11. w.step \in 1..Length(s)
  BY <1>3, <1>4
<1> HIDE DEF y
<1>12. /\ r <= run /\ (s \notin orphaned => r = run /\ Alone(r, s))
       /\ worker'[r][s] = y
       /\ \A q \in 1..MaxRuns : \A t \in Slices :
            ~(q = r /\ t = s) => worker'[q][t] = worker[q][t]
       /\ \A q \in 1..MaxRuns : \A t \in Slices :
            worker'[q][t].state = "none" <=> worker[q][t].state = "none"
       /\ Over' <=> Over
       /\ TypeOK' /\ InSteps' /\ CurHolds' /\ MainAt' /\ Generations' /\ Pool'
       /\ Covered'
       /\ ~rebuild' /\ Reading' /\ cur'.named /\ cur'.slice \notin orphaned' =>
            files'[cur'.slice][Last(cur'.slice)] = "absent"
  <2>1. worker[r][s].state = "runs" /\ worker' = [worker EXCEPT ![r][s] = y]
        /\ mishaps' \in 0..MaxFaults
        /\ UNCHANGED <<run, rebuild, jobs, cut, mainPc, pos, cur, opened,
                       children, status, orphaned>>
    BY <1>1, <1>2
  <2>2. /\ files' \in [Slices -> [Files -> FileStates]]
        /\ \A t \in Slices : t # s => files'[t] = files[t]
        /\ \A f \in Files : files[s][f] # "absent" => files'[s][f] # "absent"
    BY <1>8 DEF Wrote
  <2> QED  BY <1>9, <2>1, <2>2, WorkerMoves
<1>13. run' = run /\ rebuild' = rebuild /\ cut' = cut /\ orphaned' = orphaned
  BY <1>2
<1> QED  BY <1>2, <1>3, <1>4, <1>8, <1>10, <1>11, <1>12, <1>13

LEMMA WorkerStepsOk ==
  ASSUME Inv, NEW r \in 1..MaxRuns, NEW s \in Slices, WorkerSteps(r, s)
  PROVE  Inv'
<1> DEFINE w == worker[r][s]
           x == worker'[r][s]
           i == w.step
           n == Length(s)
<1>1. /\ r <= run /\ (s \notin orphaned => r = run /\ Alone(r, s))
      /\ w.state = "runs" /\ w.named /\ n \in 1..13 /\ i \in 1..n
      /\ w.whole \in BOOLEAN
      /\ Wrote(r, s)
      /\ IF i = n
         THEN x.state = "ok"
         ELSE /\ x.state = "runs" /\ x.step = i + 1
              /\ x.named = w.named /\ x.whole = w.whole
      /\ \A q \in 1..MaxRuns : \A t \in Slices :
           ~(q = r /\ t = s) => worker'[q][t] = worker[q][t]
      /\ \A q \in 1..MaxRuns : \A t \in Slices :
           worker'[q][t].state = "none" <=> worker[q][t].state = "none"
      /\ run' = run /\ rebuild' = rebuild /\ cut' = cut /\ orphaned' = orphaned
      /\ Over' <=> Over
      /\ TypeOK' /\ InSteps' /\ CurHolds' /\ MainAt' /\ Generations' /\ Pool'
      /\ Covered'
      /\ ~rebuild' /\ Reading' /\ cur'.named /\ cur'.slice \notin orphaned' =>
           files'[cur'.slice][Last(cur'.slice)] = "absent"
  BY StepDoes
<1>2. /\ \A t \in Slices : t # s => files'[t] = files[t]
      /\ \A f \in Files : files[s][f] # "absent" => files'[s][f] # "absent"
      /\ \A f \in Files : f \notin Used(s) => files'[s][f] = files[s][f]
      /\ \A f \in Used(s) :
           /\ i = OpenAt(f) => /\ files'[s][f] \in {"partial", "mixed"}
                               /\ Alone(r, s) => files'[s][f] = "partial"
           /\ i = CloseAt(f) => /\ files'[s][f] \in {"mixed", Own(w)}
                                /\ Alone(r, s) /\ files[s][f] # "mixed" =>
                                     files'[s][f] = Own(w)
           /\ i # OpenAt(f) /\ i # CloseAt(f) => files'[s][f] = files[s][f]
  BY <1>1 DEF Wrote
<1>3. /\ Used(s) \subseteq Files /\ Wanted(s) \subseteq Used(s)
      /\ Last(s) \in Wanted(s) /\ CloseAt(Last(s)) = n
      /\ \A f \in Wanted(s) : OpenAt(f) <= OpenAt(Last(s))
      /\ \A f, g \in Used(s) : /\ OpenAt(f) = OpenAt(g) => f = g
                               /\ CloseAt(f) = CloseAt(g) => f = g
                               /\ OpenAt(f) # CloseAt(g)
  BY Order, LengthIs
<1>4. \A f \in Used(s) : /\ OpenAt(f) \in Nat /\ CloseAt(f) \in Nat
                         /\ OpenAt(f) < CloseAt(f) /\ CloseAt(f) <= n
  <2> SUFFICES ASSUME NEW f \in Used(s)
               PROVE  /\ OpenAt(f) \in Nat /\ CloseAt(f) \in Nat
                      /\ OpenAt(f) < CloseAt(f) /\ CloseAt(f) <= n
    OBVIOUS
  <2>1. OpenAt(f) \in 1..n /\ CloseAt(f) \in 1..n /\ OpenAt(f) < CloseAt(f)
    BY Order DEF Length
  <2> HIDE DEF n
  <2> QED  BY <1>1, <2>1
<1>5. run \in 1..MaxRuns
  BY Types DEF Inv
<1>6. \A f \in Used(s) : OpenAt(f) < i => files[s][f] # "absent"
  BY <1>1 DEF Inv, Progress
<1>7. s \notin orphaned =>
        \A f \in Used(s) : /\ OpenAt(f) < i /\ i <= CloseAt(f) =>
                                files[s][f] = "partial"
                           /\ w.whole /\ CloseAt(f) < i => files[s][f] = "whole"
  BY <1>1 DEF Inv, Progress, Runs, Holds
<1>8. /\ r = run /\ cut = FullLog => w.whole
      /\ ~w.whole => LastOf(r, s) /\ (r = run => Over)
      /\ ~rebuild /\ s \notin orphaned => files[s][Last(s)] \in {"absent", "partial"}
  BY <1>1, <1>5 DEF Inv, Given, Shortened, Lacking, Runs
<1>9. w.whole => Own(w) = "whole"
  BY DEF Own
<1>10. Own(w) \in {"whole", "short"} /\ (Own(w) = "short" => ~w.whole)
  BY DEF Own
<1> HIDE DEF w, x, i, n
(* All wanted files are there when the last one is open. *)
<1>11. \A f \in Used(s) : OpenAt(f) <= i => files'[s][f] # "absent"
  <2> SUFFICES ASSUME NEW f \in Used(s), OpenAt(f) <= i
               PROVE  files'[s][f] # "absent"
    OBVIOUS
  <2>1. CASE OpenAt(f) = i
    BY <1>2, <2>1
  <2>2. CASE OpenAt(f) # i
    <3>1. OpenAt(f) < i
      BY <1>1, <1>4, <2>2
    <3> QED  BY <1>2, <1>3, <1>6, <3>1
  <2> QED  BY <2>1, <2>2
<1>12. ASSUME s \notin orphaned, NEW f \in Used(s), w.whole, CloseAt(f) <= i
       PROVE  files'[s][f] = "whole"
  <2>1. CASE CloseAt(f) = i
    <3>1. OpenAt(f) < i /\ i <= CloseAt(f)
      BY <1>1, <1>4, <2>1
    <3>2. files[s][f] = "partial"
      BY <1>7, <1>12, <3>1
    <3> QED  BY <1>1, <1>2, <1>9, <1>12, <2>1, <3>2
  <2>2. CASE CloseAt(f) # i
    <3>1. CloseAt(f) < i /\ OpenAt(f) # i
      BY <1>1, <1>4, <1>12, <2>2
    <3> QED  BY <1>2, <1>7, <1>12, <2>2, <3>1
  <2> QED  BY <2>1, <2>2
<1>13. ASSUME s \notin orphaned, NEW f \in Used(s), OpenAt(f) <= i, i < CloseAt(f)
       PROVE  files'[s][f] = "partial"
  <2>1. CASE OpenAt(f) = i
    BY <1>1, <1>2, <1>13, <2>1
  <2>2. CASE OpenAt(f) # i
    <3>1. OpenAt(f) < i /\ i <= CloseAt(f) /\ i # CloseAt(f)
      BY <1>1, <1>4, <1>13, <2>2
    <3> QED  BY <1>2, <1>7, <1>13, <2>2, <3>1
  <2> QED  BY <2>1, <2>2
<1>14. Made'
  <2>1. ASSUME r = run, x.state = "ok"
        PROVE  Exists(s)' /\ (cut = FullLog /\ s \notin orphaned => Complete(s)')
    <3>1. i = n
      BY <1>1, <2>1
    <3>2. \A f \in Used(s) : OpenAt(f) <= i /\ CloseAt(f) <= i
      BY <1>1, <1>4, <3>1
    <3>3. Exists(s)'
      BY <1>3, <1>11, <3>2 DEF Exists
    <3>4. cut = FullLog /\ s \notin orphaned => Complete(s)'
      BY <1>3, <1>8, <1>12, <2>1, <3>2 DEF Complete
    <3> QED  BY <3>3, <3>4
  <2>2. ASSUME NEW t \in Slices, ~(r = run /\ t = s), worker'[run][t].state = "ok"
        PROVE  Exists(t)' /\ (cut = FullLog /\ t \notin orphaned => Complete(t)')
    <3>1. worker[run][t].state = "ok"
      BY <1>1, <1>5, <2>2
    <3>2. Exists(t) /\ (cut = FullLog /\ t \notin orphaned => Complete(t))
      BY <3>1 DEF Inv, Made
    <3>3. CASE t = s
      <4>1. s \in orphaned
        BY <1>1, <2>2, <3>3
      <4>2. Exists(s)'
        BY <1>2, <1>3, <3>2, <3>3 DEF Exists
      <4> QED  BY <3>3, <4>1, <4>2
    <3>4. CASE t # s
      BY <1>2, <3>2, <3>4 DEF Exists, Complete
    <3> QED  BY <3>3, <3>4
  <2> QED  BY <1>1, <2>1, <2>2 DEF Made, x
<1>15. Given'
  <2>1. r = run /\ Runs(s)' /\ cut = FullLog => x.named /\ x.whole
    BY <1>1, <1>8 DEF Runs, x
  <2>2. ASSUME NEW t \in Slices, ~(r = run /\ t = s)
        PROVE  worker'[run][t] = worker[run][t]
    BY <1>1, <1>5, <2>2
  <2> QED  BY <1>1, <2>1, <2>2 DEF Inv, Given, Runs, x
<1>16. Progress'
  <2>1. ASSUME x.state = "runs"
        PROVE  x.step = i + 1 /\ x.whole = w.whole /\ i # n
    BY <1>1, <2>1
  <2>2. ASSUME NEW q \in 1..MaxRuns, NEW t \in Slices, worker'[q][t].state = "runs",
               NEW f \in Used(t), OpenAt(f) < worker'[q][t].step
        PROVE  files'[t][f] # "absent"
    <3>1. CASE q = r /\ t = s
      <4>1. x.step = i + 1 /\ OpenAt(f) < x.step
        BY <2>1, <2>2, <3>1 DEF x
      <4>2. OpenAt(f) <= i
        BY <1>1, <1>4, <3>1, <4>1
      <4> QED  BY <1>11, <3>1, <4>2
    <3>2. CASE ~(q = r /\ t = s)
      <4>1. worker'[q][t] = worker[q][t]
        BY <1>1, <3>2
      <4>2. files[t][f] # "absent" /\ f \in Files
        BY <2>2, <4>1, Order DEF Inv, Progress
      <4> QED  BY <1>2, <4>2
    <3> QED  BY <3>1, <3>2
  <2>3. ASSUME s \notin orphaned, Runs(s)', NEW f \in Used(s)
        PROVE  /\ Holds(run, s, f)' => files'[s][f] = "partial"
               /\ worker'[run][s].whole /\ CloseAt(f) < worker'[run][s].step =>
                    files'[s][f] = "whole"
    <3>1. worker'[run][s] = x /\ x.step = i + 1 /\ x.whole = w.whole
      BY <1>1, <2>1, <2>3 DEF Runs, x
    <3>2. /\ OpenAt(f) < x.step /\ x.step <= CloseAt(f) =>
               OpenAt(f) <= i /\ i < CloseAt(f)
          /\ CloseAt(f) < x.step => CloseAt(f) <= i
      BY <1>1, <1>4, <3>1
    <3>3. Holds(run, s, f)' => OpenAt(f) < x.step /\ x.step <= CloseAt(f)
      BY <1>1, <3>1 DEF Holds
    <3>4. Holds(run, s, f)' => files'[s][f] = "partial"
      BY <1>13, <2>3, <3>2, <3>3
    <3>5. x.whole /\ CloseAt(f) < x.step => files'[s][f] = "whole"
      BY <1>12, <2>3, <3>1, <3>2
    <3> QED  BY <3>1, <3>4, <3>5
  <2>4. ASSUME NEW t \in Slices \ orphaned, t # s, Runs(t)', NEW f \in Used(t)
        PROVE  /\ Holds(run, t, f)' => files'[t][f] = "partial"
               /\ worker'[run][t].whole /\ CloseAt(f) < worker'[run][t].step =>
                    files'[t][f] = "whole"
    <3>1. worker'[run][t] = worker[run][t] /\ files'[t] = files[t]
      BY <1>1, <1>2, <1>5, <2>4
    <3> QED  BY <1>1, <2>4, <3>1 DEF Inv, Progress, Runs, Holds
  <2> QED  BY <1>1, <2>2, <2>3, <2>4 DEF Progress
<1>17. Torn'
  <2>1. ASSUME NEW t \in Slices, Broken(t)
        PROVE  Broken(t)'
    <3>1. PICK q \in 1..MaxRuns : worker[q][t].state \in {"gone", "torn"}
      BY <2>1 DEF Broken
    <3>2. worker'[q][t] = worker[q][t]
      BY <1>1, <3>1 DEF w
    <3> QED  BY <3>1, <3>2 DEF Broken
  <2>2. ASSUME NEW q \in 1..MaxRuns, NEW t \in Slices, NEW f \in Files,
               Holds(q, t, f), ~(q = r /\ t = s)
        PROVE  Holds(q, t, f)'
    <3>1. worker'[q][t] = worker[q][t]
      BY <1>1, <2>2
    <3> QED  BY <2>2, <3>1 DEF Holds
  <2>3. ASSUME NEW f \in Used(s), OpenAt(f) <= i, i < CloseAt(f)
        PROVE  Holds(r, s, f)'
    <3>1. i # n
      BY <1>1, <1>4, <2>3
    <3>2. x.state = "runs" /\ x.named /\ x.step = i + 1
      BY <1>1, <3>1
    <3>3. OpenAt(f) < x.step /\ x.step <= CloseAt(f)
      BY <1>1, <1>4, <2>3, <3>2
    <3> QED  BY <3>2, <3>3 DEF Holds, x
  <2>4. ASSUME NEW f \in Files, files'[s][f] = "partial"
        PROVE  Broken(s)' \/ \E q \in 1..MaxRuns : Holds(q, s, f)'
    <3>1. ~(f \in Used(s) /\ i = CloseAt(f))
      BY <1>2, <1>10, <2>4
    <3>2. CASE f \in Used(s) /\ i = OpenAt(f)
      <4>1. OpenAt(f) <= i /\ i < CloseAt(f)
        BY <1>1, <1>4, <3>2
      <4> QED  BY <2>3, <3>2, <4>1
    <3>3. CASE ~(f \in Used(s) /\ i = OpenAt(f))
      <4>1. files[s][f] = "partial"
        BY <1>2, <2>4, <3>1, <3>3
      <4>2. CASE Broken(s)
        BY <2>1, <4>2
      <4>3. ASSUME NEW q \in 1..MaxRuns, Holds(q, s, f)
            PROVE  Holds(q, s, f)'
        <5>1. CASE q = r
          <6>1. f \in Used(s) /\ OpenAt(f) < i /\ i <= CloseAt(f)
            BY <4>3, <5>1 DEF Holds, i, w
          <6>2. OpenAt(f) <= i /\ i < CloseAt(f)
            BY <1>1, <1>4, <3>1, <6>1
          <6> QED  BY <2>3, <5>1, <6>1, <6>2
        <5>2. CASE q # r
          BY <2>2, <4>3, <5>2
        <5> QED  BY <5>1, <5>2
      <4> QED  BY <4>1, <4>2, <4>3 DEF Inv, Torn
    <3> QED  BY <3>2, <3>3
  <2>5. ASSUME NEW t \in Slices, t # s, NEW f \in Files, files'[t][f] = "partial"
        PROVE  Broken(t)' \/ \E q \in 1..MaxRuns : Holds(q, t, f)'
    <3>1. files[t][f] = "partial"
      BY <1>2, <2>5
    <3>2. Broken(t) \/ \E q \in 1..MaxRuns : Holds(q, t, f)
      BY <3>1 DEF Inv, Torn
    <3> QED  BY <2>1, <2>2, <2>5, <3>2
  <2> QED  BY <2>4, <2>5 DEF Torn
<1>18. Shortened'
  <2>1. \A q \in 1..MaxRuns : \A t \in Slices : LastOf(q, t)' <=> LastOf(q, t)
    BY <1>1 DEF LastOf
  <2>2. ASSUME NEW t \in Slices, NEW f \in Files, files'[t][f] = "short",
               files[t][f] = "short"
        PROVE  \E q \in 1..MaxRuns : /\ worker'[q][t].state # "none"
                                     /\ q <= run' /\ LastOf(q, t)'
                                     /\ q = run' => Over'
    <3>1. PICK q \in 1..MaxRuns : /\ worker[q][t].state # "none"
                                  /\ q <= run /\ LastOf(q, t)
                                  /\ q = run => Over
      BY <2>2 DEF Inv, Shortened
    <3> QED  BY <1>1, <2>1, <3>1
  <2>3. ASSUME NEW f \in Files, files'[s][f] = "short", files[s][f] # "short"
        PROVE  \E q \in 1..MaxRuns : /\ worker'[q][s].state # "none"
                                     /\ q <= run' /\ LastOf(q, s)'
                                     /\ q = run' => Over'
    <3>1. ~w.whole
      BY <1>2, <1>10, <2>3
    <3>2. worker'[r][s].state # "none"
      BY <1>1 DEF x
    <3> QED  BY <1>1, <1>8, <2>1, <3>1, <3>2
  <2>4. ASSUME NEW q \in 1..MaxRuns, NEW t \in Slices,
               worker'[q][t].state = "runs", ~worker'[q][t].whole
        PROVE  LastOf(q, t)' /\ (q = run' => Over')
    <3>1. CASE q = r /\ t = s
      <4>1. ~w.whole
        BY <1>1, <2>4, <3>1 DEF x
      <4> QED  BY <1>1, <1>8, <2>1, <3>1, <4>1
    <3>2. CASE ~(q = r /\ t = s)
      <4>1. worker'[q][t] = worker[q][t]
        BY <1>1, <3>2
      <4>2. LastOf(q, t) /\ (q = run => Over)
        BY <2>4, <4>1 DEF Inv, Shortened
      <4> QED  BY <1>1, <2>1, <4>2
    <3> QED  BY <3>1, <3>2
  <2>5. ASSUME NEW t \in Slices, NEW f \in Files, files'[t][f] = "short"
        PROVE  \E q \in 1..MaxRuns : /\ worker'[q][t].state # "none"
                                     /\ q <= run' /\ LastOf(q, t)'
                                     /\ q = run' => Over'
    <3>1. CASE t = s
      BY <2>2, <2>3, <2>5, <3>1
    <3>2. CASE t # s
      BY <1>2, <2>2, <2>5, <3>2
    <3> QED  BY <3>1, <3>2
  <2> QED  BY <2>4, <2>5 DEF Shortened
<1>19. LastOpened'
  <2>1. ASSUME files'[s][Last(s)] # "absent"
        PROVE  Exists(s)'
    <3>1. CASE files[s][Last(s)] # "absent"
      <4>1. Exists(s)
        BY <3>1 DEF Inv, LastOpened
      <4> QED  BY <1>2, <1>3, <4>1 DEF Exists
    <3>2. CASE files[s][Last(s)] = "absent"
      <4>1. OpenAt(Last(s)) <= i
        BY <1>1, <1>2, <1>3, <1>4, <2>1, <3>2
      <4>2. \A f \in Wanted(s) : OpenAt(f) <= i
        BY <1>1, <1>3, <1>4, <4>1
      <4> QED  BY <1>3, <1>11, <4>2 DEF Exists
    <3> QED  BY <3>1, <3>2
  <2>2. ASSUME NEW t \in Slices, t # s, files'[t][Last(t)] # "absent"
        PROVE  Exists(t)'
    BY <1>2, <2>2 DEF Inv, LastOpened, Exists
  <2> QED  BY <2>1, <2>2 DEF LastOpened
<1>20. Lacking'
  <2>1. ASSUME ~rebuild, s \notin orphaned, Runs(s)'
        PROVE  files'[s][Last(s)] \in {"absent", "partial"}
    <3>1. x.state = "runs" /\ i # n
      BY <1>1, <2>1 DEF Runs, x
    <3>2. Last(s) \in Used(s) /\ i # CloseAt(Last(s))
      BY <1>3, <3>1
    <3>3. CASE i = OpenAt(Last(s))
      BY <1>1, <1>2, <2>1, <3>2, <3>3
    <3>4. CASE i # OpenAt(Last(s))
      BY <1>2, <1>8, <2>1, <3>2, <3>4
    <3> QED  BY <3>3, <3>4
  <2>2. ASSUME ~rebuild, NEW t \in Slices \ orphaned, t # s, Runs(t)',
               worker'[run][t].named
        PROVE  files'[t][Last(t)] \in {"absent", "partial"}
    <3>1. worker'[run][t] = worker[run][t] /\ files'[t] = files[t]
      BY <1>1, <1>2, <1>5, <2>2
    <3> QED  BY <1>1, <2>2, <3>1 DEF Inv, Lacking, Runs
  <2> QED  BY <1>1, <2>1, <2>2 DEF Lacking
<1> QED  BY <1>1, <1>14, <1>15, <1>16, <1>17, <1>18, <1>19, <1>20 DEF Inv

(***************************************************************************)
(* The user.                                                               *)
(***************************************************************************)
LEMMA InterruptOk == Inv /\ Interrupt => Inv'
<1> SUFFICES ASSUME Inv, Interrupt PROVE Inv'
  OBVIOUS
<1> DEFINE e == Ended("gone")
<1>1. /\ worker' = [worker EXCEPT ![run] = [t \in Slices |->
                      IF worker[run][t].state = "runs" THEN e ELSE worker[run][t]]]
      /\ mainPc' = "exit" /\ status' = 0
      /\ UNCHANGED <<files, run, rebuild, jobs, cut, pos, cur, opened, children,
                     orphaned>>
  BY DEF Interrupt
<1>2. e \in WorkerType /\ e.state = "gone" /\ e.step = 1
  BY EndedIs DEF WorkerStates
<1>3. TypeOK /\ worker \in [1..MaxRuns -> [Slices -> WorkerType]] /\ run \in 1..MaxRuns
      /\ mishaps' \in 0..MaxFaults
  BY Types, MishapIs DEF Inv, Interrupt
<1> HIDE DEF e
<1>4. /\ worker' \in [1..MaxRuns -> [Slices -> WorkerType]]
      /\ \A q \in 1..MaxRuns : \A t \in Slices :
           worker'[q][t] = IF q = run /\ worker[q][t].state = "runs" THEN e
                                                         ELSE worker[q][t]
  BY <1>1, <1>2, <1>3
<1>5. \A q \in 1..MaxRuns : \A t \in Slices :
        /\ worker'[q][t].state = "none" <=> worker[q][t].state = "none"
        /\ worker[q][t].state = "gone" => worker'[q][t].state = "gone"
        /\ q # run => worker'[q][t] = worker[q][t]
  BY <1>2, <1>4
<1>6. \A t \in Slices :
        /\ worker'[run][t].state # "runs"
        /\ worker[run][t].state = "runs" => worker'[run][t].state = "gone"
        /\ worker'[run][t].state = "gone" \/ worker'[run][t] = worker[run][t]
  BY <1>2, <1>3, <1>4
<1>7. Reached' = Reached /\ ~Reading' /\ (Over => Over')
  BY <1>1 DEF Reached, Reading, Over
<1>8. \A t \in Slices : (Idle(t)' <=> Idle(t)) /\ ~Runs(t)'
  BY <1>1, <1>3, <1>5, <1>6 DEF Idle, Runs
<1>9. TypeOK'
  BY <1>1, <1>3, <1>4, Types DEF TypeOK, WorkerType
<1>10. InSteps'
  <2> SUFFICES ASSUME NEW q \in 1..MaxRuns, NEW t \in Slices
               PROVE  worker'[q][t].step <= Length(t)
    BY LengthIs DEF InSteps
  <2>1. Length(t) \in 1..13 /\ worker[q][t].step <= Length(t)
    BY LengthIs DEF Inv, InSteps
  <2> QED  BY <1>2, <1>4, <2>1
<1>11. CurHolds' /\ MainAt'
  BY <1>1, <1>7 DEF Inv, CurHolds, MainAt
<1>12. Generations'
  <2>1. ASSUME NEW q \in 1..MaxRuns, NEW t \in Slices
        PROVE  /\ q > run' => worker'[q][t].state = "none"
               /\ q < run' /\ worker'[q][t].state = "runs" => t \in orphaned'
    BY <1>1, <1>3, <1>5, Numbers DEF Inv, Generations
  <2> QED  BY <1>7, <1>8, <2>1 DEF Inv, Generations
<1>13. Pool'
  BY <1>1, <1>8 DEF Inv, Pool
<1>14. Covered' /\ Given' /\ Lacking'
  BY <1>1, <1>7, <1>8 DEF Covered, Given, Lacking
<1>15. Made'
  BY <1>1, <1>6 DEF Inv, Made, Exists, Complete
<1>16. Torn' /\ Progress'
  <2>1. \A q \in 1..MaxRuns : \A t \in Slices :
          worker'[q][t].state = "runs" => worker'[q][t] = worker[q][t]
    BY <1>2, <1>4
  <2>2. Progress'
    BY <1>1, <1>8, <2>1 DEF Inv, Progress
  <2>3. ASSUME NEW t \in Slices, NEW q \in 1..MaxRuns,
               worker[q][t].state \in {"gone", "torn"}
        PROVE  Broken(t)'
    <3>1. worker'[q][t] = worker[q][t]
      BY <1>4, <2>3
    <3> QED  BY <2>3, <3>1 DEF Broken
  <2>4. ASSUME NEW t \in Slices, NEW q \in 1..MaxRuns, NEW f \in Files,
               Holds(q, t, f)
        PROVE  Broken(t)' \/ Holds(q, t, f)'
    <3>1. CASE q = run
      <4>1. worker'[q][t].state = "gone"
        BY <1>2, <1>4, <2>4, <3>1 DEF Holds
      <4> QED  BY <4>1 DEF Broken
    <3>2. CASE q # run
      BY <1>5, <2>4, <3>2 DEF Holds
    <3> QED  BY <3>1, <3>2
  <2>5. ASSUME NEW t \in Slices, NEW f \in Files, files'[t][f] = "partial"
        PROVE  Broken(t)' \/ \E q \in 1..MaxRuns : Holds(q, t, f)'
    <3>1. Broken(t) \/ \E q \in 1..MaxRuns : Holds(q, t, f)
      BY <1>1, <2>5 DEF Inv, Torn
    <3> QED  BY <2>3, <2>4, <3>1 DEF Broken
  <2> QED  BY <2>2, <2>5 DEF Torn
<1>17. Shortened'
  <2>1. \A q \in 1..MaxRuns : \A t \in Slices : LastOf(q, t)' <=> LastOf(q, t)
    BY <1>5 DEF LastOf
  <2>2. ASSUME NEW t \in Slices, NEW f \in Files, files'[t][f] = "short"
        PROVE  \E q \in 1..MaxRuns : /\ worker'[q][t].state # "none"
                                     /\ q <= run' /\ LastOf(q, t)'
                                     /\ q = run' => Over'
    <3>1. PICK q \in 1..MaxRuns : /\ worker[q][t].state # "none"
                                  /\ q <= run /\ LastOf(q, t)
                                  /\ q = run => Over
      BY <1>1, <2>2 DEF Inv, Shortened
    <3> QED  BY <1>1, <1>5, <1>7, <2>1, <3>1
  <2>3. ASSUME NEW q \in 1..MaxRuns, NEW t \in Slices,
               worker'[q][t].state = "runs", ~worker'[q][t].whole
        PROVE  LastOf(q, t)' /\ (q = run' => Over')
    <3>1. worker'[q][t] = worker[q][t]
      BY <1>2, <1>4, <2>3
    <3> QED  BY <1>1, <1>7, <2>1, <2>3, <3>1 DEF Inv, Shortened
  <2> QED  BY <2>2, <2>3 DEF Shortened
<1>18. LastOpened'
  BY <1>1 DEF Inv, LastOpened, Exists
<1> QED  BY <1>9, <1>10, <1>11, <1>12, <1>13, <1>14, <1>15, <1>16, <1>17, <1>18 DEF Inv

LEMMA RestartOk == Inv /\ Restart => Inv'
<1> SUFFICES ASSUME Inv, Restart PROVE Inv'
  OBVIOUS
<1>1. /\ mainPc = "exit" /\ run < MaxRuns /\ run' = run + 1
      /\ rebuild' \in Rebuilds /\ jobs' \in JobCounts /\ cut' \in {cut, FullLog}
      /\ mainPc' = "read" /\ pos' = 1 /\ cur' = None
      /\ opened' = FALSE /\ children' = {} /\ status' = 0
      /\ orphaned' = {s \in orphaned :
                        \E r \in 1..run : worker[r][s].state = "runs"}
      /\ files' = files /\ worker' = worker /\ mishaps' = mishaps
  BY DEF Restart
<1>2. TypeOK /\ run \in 1..MaxRuns /\ MaxRuns \in Nat /\ cut \in 0..FullLog
      /\ FullLog \in Nat /\ N \in Nat
  BY Types, Numbers DEF Inv
<1>3. run' \in 1..MaxRuns /\ run' > run /\ cut' \in 0..FullLog
  BY <1>1, <1>2
<1>4. Reached' = 0 /\ ~(pos' > 1)
  BY <1>1 DEF Reached
<1>5. \A t \in Slices : Idle(t)' /\ ~Runs(t)' /\ ~Failed(t)'
                         /\ worker'[run'][t].state = "none"
  BY <1>1, <1>2, <1>3 DEF Inv, Generations, Idle, Runs, Failed
<1>6. TypeOK'
  <2>1. Cardinality({}) = 0 /\ jobs' \in Nat
    BY <1>1, FS_EmptySet, Numbers
  <2>2. Cardinality(children') <= jobs'
    BY <1>1, <2>1
  <2>3. pos' \in 1..(FullLog + 1) /\ cur' \in CurType /\ rebuild' \in BOOLEAN
    BY <1>1, <1>2, NoneIs, Numbers
  <2>4. orphaned' \subseteq Slices /\ mishaps' \in 0..MaxFaults
    BY <1>1, Types DEF Inv
  <2> QED  BY <1>1, <1>2, <1>3, <2>2, <2>3, <2>4, Types DEF TypeOK, CurType
<1>7. InSteps'
  BY <1>1 DEF Inv, InSteps
<1>8. CurHolds' /\ MainAt'
  <2>1. pos' <= cut' + 1
    <3> DEFINE c == cut'
    <3>1. c \in 0..FullLog /\ FullLog \in Nat
      BY <1>2, <1>3
    <3> HIDE DEF c
    <3>2. 1 <= c + 1
      BY <3>1
    <3> QED  BY <1>1, <3>2 DEF c
  <2>2. ~cur'.named
    BY <1>1, NoneIs
  <2> QED  BY <1>1, <1>4, <2>1, <2>2 DEF CurHolds, MainAt
<1>9. Generations'
  <2>1. ASSUME NEW q \in 1..MaxRuns, NEW t \in Slices
        PROVE  /\ q > run' => worker'[q][t].state = "none"
               /\ q < run' /\ worker'[q][t].state = "runs" => t \in orphaned'
    <3>1. q > run' => worker'[q][t].state = "none"
      BY <1>1, <1>2 DEF Inv, Generations
    <3>2. ASSUME q < run', worker[q][t].state = "runs"
          PROVE  t \in orphaned /\ q \in 1..run
      <4>1. q \in 1..run
        BY <1>1, <1>2, <3>2
      <4>2. CASE q = run
        BY <1>1, <3>2, <4>1, <4>2 DEF Inv, Pool, Runs
      <4>3. CASE q # run
        BY <1>2, <3>2, <4>1, <4>3 DEF Inv, Generations
      <4> QED  BY <4>1, <4>2, <4>3
    <3> QED  BY <1>1, <3>1, <3>2
  <2> QED  BY <1>5, <2>1 DEF Generations
<1>10. Pool'
  BY <1>1, <1>5 DEF Pool
<1>11. Covered'
  <2>1. \A t \in Slices : ~(t < Reached') /\ ~(t <= Reached')
    BY <1>2, <1>4 DEF Slices
  <2> QED  BY <1>4, <2>1 DEF Covered
<1>12. Made' /\ Given' /\ Progress'
  <2>1. Made' /\ Given'
    BY <1>5 DEF Made, Given
  <2> QED  BY <1>1, <1>5, <2>1 DEF Inv, Progress
<1>13. Torn'
  BY <1>1 DEF Inv, Torn, Broken, Holds
<1>14. Shortened'
  <2>1. ASSUME NEW t \in Slices, NEW f \in Files, files'[t][f] = "short"
        PROVE  \E q \in 1..MaxRuns : /\ worker'[q][t].state # "none"
                                     /\ q <= run' /\ LastOf(q, t)'
                                     /\ q = run' => Over'
    <3>1. PICK q \in 1..MaxRuns : /\ worker[q][t].state # "none"
                                  /\ q <= run /\ LastOf(q, t)
                                  /\ q = run => Over
      BY <1>1, <2>1 DEF Inv, Shortened
    <3>2. q <= run' /\ q # run' /\ LastOf(q, t)'
      BY <1>1, <1>2, <3>1 DEF LastOf
    <3> QED  BY <1>1, <3>1, <3>2
  <2>2. ASSUME NEW q \in 1..MaxRuns, NEW t \in Slices,
               worker'[q][t].state = "runs", ~worker'[q][t].whole
        PROVE  LastOf(q, t)' /\ (q = run' => Over')
    <3>1. LastOf(q, t) /\ worker[q][t].state = "runs"
      BY <1>1, <2>2 DEF Inv, Shortened
    <3>2. q # run'
      BY <1>1, <1>5, <2>2
    <3> QED  BY <1>1, <3>1, <3>2 DEF LastOf
  <2> QED  BY <2>1, <2>2 DEF Shortened
<1>15. LastOpened'
  BY <1>1 DEF Inv, LastOpened, Exists
<1>16. Lacking'
  BY <1>1, <1>5, NoneIs DEF Lacking
<1> QED  BY <1>6, <1>7, <1>8, <1>9, <1>10, <1>11, <1>12, <1>13, <1>14, <1>15, <1>16
         DEF Inv

LEMMA InitOk == Init => Inv
<1> SUFFICES ASSUME Init PROVE Inv
  OBVIOUS
<1>1. /\ run = 1 /\ rebuild \in Rebuilds /\ jobs \in JobCounts /\ cut \in Cuts
      /\ mainPc = "read" /\ pos = 1 /\ cur = None
      /\ opened = FALSE /\ children = {} /\ status = 0
      /\ orphaned = {} /\ mishaps = 0
      /\ files = [s \in Slices |-> [f \in Files |-> "absent"]]
      /\ worker = [r \in 1..MaxRuns |-> [s \in Slices |-> IdleWorker]]
  BY DEF Init
<1>2. 1 \in 1..MaxRuns /\ FullLog \in Nat /\ cut \in 0..FullLog /\ N \in Nat
      /\ rebuild \in BOOLEAN /\ jobs \in Nat /\ mishaps \in 0..MaxFaults
  BY <1>1, Numbers
<1>3. /\ worker \in [1..MaxRuns -> [Slices -> WorkerType]]
      /\ \A r \in 1..MaxRuns : \A s \in Slices :
           worker[r][s].state = "none" /\ worker[r][s].step = 1
  BY <1>1, IdleIs
<1>4. /\ files \in [Slices -> [Files -> FileStates]]
      /\ \A s \in Slices : \A f \in Files : files[s][f] = "absent"
  BY <1>1 DEF FileStates
<1>5. Reached = 0 /\ ~(pos > 1)
  BY <1>1 DEF Reached
<1>6. \A s \in Slices : /\ Idle(s) /\ ~Runs(s) /\ ~Failed(s)
                         /\ worker[run][s].state = "none"
  BY <1>1, <1>2, <1>3 DEF Idle, Runs, Failed
<1>7. TypeOK
  <2>1. Cardinality({}) = 0
    BY FS_EmptySet
  <2>2. Cardinality(children) <= jobs
    BY <1>1, <1>2, <2>1
  <2>3. pos \in 1..(FullLog + 1) /\ cur \in CurType
    BY <1>1, <1>2, NoneIs
  <2> QED  BY <1>1, <1>2, <1>3, <1>4, <2>2, <2>3, Types
<1>8. InSteps
  <2> SUFFICES ASSUME NEW q \in 1..MaxRuns, NEW t \in Slices
               PROVE  worker[q][t].step <= Length(t)
    BY LengthIs DEF InSteps
  <2>1. Length(t) \in 1..13
    BY LengthIs
  <2> QED  BY <1>3, <2>1
<1>9. CurHolds /\ MainAt
  BY <1>1, <1>2, <1>5, NoneIs DEF CurHolds, MainAt
<1>10. Generations
  BY <1>1, <1>3, <1>6 DEF Generations
<1>11. Pool
  BY <1>1, <1>6 DEF Pool
<1>12. Covered
  <2>1. \A t \in Slices : ~(t < Reached) /\ ~(t <= Reached)
    BY <1>2, <1>5 DEF Slices
  <2> QED  BY <1>5, <2>1 DEF Covered
<1>13. Made /\ Given /\ Progress
  BY <1>3, <1>6 DEF Made, Given, Progress
<1>14. Torn /\ Shortened
  BY <1>3, <1>4 DEF Torn, Shortened
<1>15. LastOpened /\ Lacking
  BY <1>1, <1>4, <1>6, NoneIs, Order DEF LastOpened, Lacking
<1> QED  BY <1>7, <1>8, <1>9, <1>10, <1>11, <1>12, <1>13, <1>14, <1>15 DEF Inv

LEMMA StepOk == Inv /\ [Next]_vars => Inv'
<1> SUFFICES ASSUME Inv, [Next]_vars PROVE Inv'
  OBVIOUS
<1>1. CASE Main
  <2>1. CASE ReadBegin \/ ReadEnd \/ SubmitUnopened \/ CloseExits
    BY <2>1, ReadBeginOk, ReadEndOk, SubmitUnopenedOk, CloseExitsOk
  <2>2. CASE ReadFile \/ ReadBody
    BY <2>2, ReadFileOk, ReadBodyOk
  <2>3. CASE SubmitNothing \/ InlineReturns
    BY <2>3, SubmitNothingOk, InlineReturnsInv
  <2>4. CASE SubmitInline \/ SubmitForks
    BY <2>4, SubmitInlineOk, SubmitForksOk
  <2>5. CASE SubmitWaits
    BY <2>5, ReapOk DEF SubmitWaits
  <2>6. CASE CloseWaits
    BY <2>6, ReapOk DEF CloseWaits
  <2>7. CASE DrainWaits \/ DrainExits
    BY <2>7, DrainOk
  <2>8. CASE ReadRaises \/ ForkRaises
    BY <2>8, RaisesOk DEF ReadRaises, ForkRaises
  <2> QED  BY <1>1, <2>1, <2>2, <2>3, <2>4, <2>5, <2>6, <2>7, <2>8 DEF Main
<1>2. CASE \E r \in 1..MaxRuns, s \in Slices : Worker(r, s)
  BY <1>2, WorkerStepsOk, WorkerFailsOk, WorkerTearsOk DEF Worker
<1>3. CASE Interrupt \/ Restart
  BY <1>3, InterruptOk, RestartOk
<1>4. CASE UNCHANGED vars
  <2>1. UNCHANGED <<files, worker, run, rebuild, jobs, cut, pos, cur, opened,
                    children, status, mainPc, orphaned, mishaps>>
    BY <1>4 DEF vars
  <2>2. status \in {0, 1} /\ orphaned \subseteq Slices /\ mishaps \in 0..MaxFaults
    BY Types DEF Inv
  <2>3. Pool'
    BY <2>1 DEF Inv, Pool, Runs, Failed, Idle, InlineIs
  <2> QED  BY <2>1, <2>2, <2>3, Pauses
<1> QED  BY <1>1, <1>2, <1>3, <1>4 DEF Next

LEMMA Invariance == Spec => []Inv
<1>1. Init => Inv
  BY InitOk
<1>2. Inv /\ [Next]_vars => Inv'
  BY StepOk
<1> QED  BY <1>1, <1>2, PTL DEF Spec

(***************************************************************************)
(* One process writes the files of a slice, whatever was interrupted or    *)
(* failed before, unless a main() that died of an exception has left a     *)
(* worker of the slice behind; the pool of forked workers never exceeds    *)
(* --jobs, and of a log that was cut only the last slice can be short.     *)
(***************************************************************************)
THEOREM OneWriter == Spec => []JobsInv
<1>1. Inv => JobsInv
  <2> SUFFICES ASSUME Inv PROVE JobsInv
    OBVIOUS
  <2>1. run \in 1..MaxRuns /\ MaxRuns \in Nat
    BY Types, Numbers DEF Inv
  <2>2. OneWriterPerSlice
    <3>1. ASSUME NEW s \in Slices \ orphaned, NEW r \in 1..MaxRuns,
                 worker[r][s].state = "runs"
          PROVE  r = run
      BY <2>1, <3>1 DEF Inv, Generations
    <3> QED  BY <3>1 DEF OneWriterPerSlice
  <2>3. OnlyLastSliceShort
    BY DEF Inv, Shortened, LastOf, OnlyLastSliceShort
  <2> QED  BY <2>2, <2>3 DEF Inv, JobsInv
<1> QED  BY <1>1, Invariance, PTL

(***************************************************************************)
(* When main() leaves with status 0 nothing runs and nothing has failed,   *)
(* and a whole log was read to its last slice.                             *)
(***************************************************************************)
LEMMA AtTheEnd ==
  ASSUME Inv, CloseExits, NEW s \in Slices
  PROVE  /\ worker[run][s].state \in {"none", "ok"} /\ ~Failed(s)
         /\ cut = FullLog => Dealt(s)
<1>1. mainPc = "close" /\ children = {} /\ pos > cut
  BY DEF CloseExits, Inv, MainAt
<1>2. worker[run][s].state \in {"none", "ok"} /\ ~Failed(s)
  <2>1. worker[run][s].state \in WorkerStates
    BY Types, WorkerFields DEF Inv
  <2>2. ~Failed(s)
    BY <1>1 DEF Inv, Pool, InlineIs
  <2> QED  BY <1>1, <2>1, <2>2 DEF WorkerStates, Inv, Pool, Runs, Failed, InlineIs
<1>3. ASSUME cut = FullLog PROVE Dealt(s)
  <2>1. /\ pos \in 1..(FullLog + 1) /\ FullLog = 3 * N /\ N \in Nat /\ s \in 1..N
        /\ FullLog \in Nat
    BY Types, Numbers DEF Inv, Slices
  <2>2. pos = FullLog + 1 /\ pos # 1 /\ FullLog \in 1..FullLog /\ pos - 1 = FullLog
    BY <1>1, <1>3, <2>1
  <2>3. Reached = N
    BY <2>2, LastLine DEF Reached
  <2> QED  BY <1>1, <2>1, <2>3 DEF Inv, Covered
<1> QED  BY <1>2, <1>3

(***************************************************************************)
(* The exit status of parse.py tells the truth: with 0 no worker of the    *)
(* run has failed, and after a whole log every slice has complete files    *)
(* unless an interrupt, a file that could not be written, two writers or a *)
(* cut log has damaged it, or a dead main() has left its worker behind.    *)
(***************************************************************************)
THEOREM StatusTells == Spec => StatusIsTrue
<1>1. ASSUME Inv, CloseExits, cut = FullLog
      PROVE  \A s \in Slices : Complete(s) \/ Damaged(s) \/ s \in orphaned
  <2> SUFFICES ASSUME NEW s \in Slices, ~Damaged(s), s \notin orphaned
               PROVE  Complete(s)
    OBVIOUS
  <2>1. worker[run][s].state \in {"none", "ok"} /\ Dealt(s)
    BY <1>1, AtTheEnd
  <2>2. CASE worker[run][s].state = "ok"
    BY <1>1, <2>2 DEF Inv, Made
  <2>3. CASE worker[run][s].state = "none"
    <3>1. Exists(s)
      BY <2>1, <2>3 DEF Dealt, Idle
    <3>2. \A r \in 1..MaxRuns : \A f \in Files : ~Holds(r, s, f)
      <4>1. run \in 1..MaxRuns /\ MaxRuns \in Nat
        BY <1>1, Types, Numbers DEF Inv
      <4>2. ASSUME NEW r \in 1..MaxRuns PROVE worker[r][s].state # "runs"
        BY <1>1, <2>3, <4>1 DEF Inv, Generations
      <4> QED  BY <4>2 DEF Holds
    <3>3. ASSUME NEW f \in Wanted(s) PROVE files[s][f] = "whole"
      <4>1. f \in Files /\ files[s][f] \in FileStates
        BY <1>1, Types, Order DEF Inv
      <4>2. files[s][f] # "absent"
        BY <3>1 DEF Exists
      <4>3. files[s][f] \notin {"short", "mixed"}
        BY <4>1 DEF Damaged
      <4>4. files[s][f] # "partial"
        BY <1>1, <3>2, <4>1 DEF Inv, Torn, Broken, Damaged
      <4> QED  BY <4>1, <4>2, <4>3, <4>4 DEF FileStates
    <3> QED  BY <3>3 DEF Complete
  <2> QED  BY <2>1, <2>2, <2>3
<1>2. ASSUME Inv, CloseExits PROVE \A s \in Slices : ~Failed(s)
  BY <1>2, AtTheEnd
<1>3. Inv /\ [Next]_vars =>
        /\ [CloseExits /\ cut = FullLog =>
              \A s \in Slices : Complete(s) \/ Damaged(s) \/ s \in orphaned]_vars
        /\ [CloseExits => \A s \in Slices : ~Failed(s)]_vars
  BY <1>1, <1>2
<1> QED  BY <1>3, Invariance, PTL DEF Spec, StatusIsTrue, SuccessMeansProcessed,
                                      FailureReported

(***************************************************************************)
(* --rebuild repairs: a run with it that reads a whole log and ends with   *)
(* status 0 leaves every slice complete, whatever earlier runs have left,  *)
(* but for slices with a worker of an earlier run still at work.           *)
(***************************************************************************)
THEOREM RebuildMends == Spec => RebuildRepairs
<1>1. ASSUME Inv, CloseExits, rebuild, cut = FullLog
      PROVE  \A s \in Slices \ orphaned : Complete(s)
  <2> SUFFICES ASSUME NEW s \in Slices \ orphaned PROVE Complete(s)
    OBVIOUS
  <2>1. worker[run][s].state \in {"none", "ok"} /\ Dealt(s)
    BY <1>1, AtTheEnd
  <2>2. worker[run][s].state = "ok"
    BY <1>1, <2>1 DEF Dealt, Idle
  <2> QED  BY <1>1, <2>2 DEF Inv, Made
<1>2. Inv /\ [Next]_vars =>
        [CloseExits /\ rebuild /\ cut = FullLog =>
           \A s \in Slices \ orphaned : Complete(s)]_vars
  BY <1>1
<1> QED  BY <1>2, Invariance, PTL DEF Spec, RebuildRepairs

(***************************************************************************)
(* Without --rebuild no step of any process changes a complete slice, but  *)
(* for slices with a worker that was left behind.                          *)
(***************************************************************************)
THEOREM CompleteStays == Spec => KeepsProcessed
<1>1. ASSUME Inv, Next, NEW s \in Slices \ orphaned, Complete(s), ~rebuild
      PROVE  Complete(s)'
  <2>1. CASE files' = files
    BY <1>1, <2>1 DEF Complete
  <2>2. ASSUME NEW r \in 1..MaxRuns, NEW t \in Slices, WorkerSteps(r, t)
        PROVE  Complete(s)'
    <3>1. /\ t \notin orphaned => r = run
          /\ worker[r][t].state = "runs" /\ worker[r][t].named
          /\ Wrote(r, t)
      BY <1>1, <2>2, StepDoes
    <3>2. t \notin orphaned =>
            files[t][Last(t)] \in {"absent", "partial"} /\ Last(t) \in Wanted(t)
      BY <1>1, <3>1, Order DEF Inv, Lacking, Runs
    <3>3. s # t
      BY <1>1, <3>2 DEF Complete
    <3>4. files'[s] = files[s]
      BY <3>1, <3>3 DEF Wrote
    <3> QED  BY <1>1, <3>4 DEF Complete
  <2>3. files' = files \/ \E r \in 1..MaxRuns, t \in Slices : WorkerSteps(r, t)
    <3>1. Main => files' = files
      BY DEF Main, ReadBegin, ReadFile, ReadBody, ReadEnd, ReadRaises, SubmitNothing,
             SubmitUnopened, SubmitInline, InlineReturns, SubmitWaits, SubmitForks,
             ForkRaises, Raises, CloseWaits, CloseExits, DrainWaits, DrainExits, Reap
    <3>2. \A r \in 1..MaxRuns, t \in Slices :
            WorkerFails(r, t) \/ WorkerTears(r, t) => files' = files
      BY DEF WorkerFails, WorkerTears
    <3>3. Interrupt \/ Restart => files' = files
      BY DEF Interrupt, Restart
    <3> QED  BY <1>1, <3>1, <3>2, <3>3 DEF Next, Worker
  <2> QED  BY <2>1, <2>2, <2>3
<1>2. Inv /\ [Next]_vars =>
        [\A s \in Slices \ orphaned : Complete(s) /\ ~rebuild => Complete(s)']_vars
  BY <1>1
<1> QED  BY <1>2, Invariance, PTL DEF Spec, KeepsProcessed
=============================================================================
