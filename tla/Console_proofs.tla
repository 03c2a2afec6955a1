--------------------------- MODULE Console_proofs ---------------------------
(***************************************************************************)
(* What the console of rv-sys does to input, output and the terminal, for  *)
(* every size of queue, pipe and buffers, every length of a step, and any  *)
(* number of characters, breakpoints and signals.                          *)
(***************************************************************************)
EXTENDS Console, TLAPS, SequenceTheorems

(***************************************************************************)
(* The inductive invariant.                                                *)
(***************************************************************************)
Text == Seq(Nat)

(* All of s comes before all of t. *)
Before(s, t) ==
    \A x \in ToSet(s), y \in ToSet(t) : x > 0 /\ y > 0 => x < y

Typed ==
    /\ got \in Text /\ queue \in Text /\ buf \in Text /\ stdin \in Text
    /\ dropped \subseteq Nat /\ cliGot \subseteq Nat /\ typed \in Nat

Written ==
    /\ screen \in Text /\ pipe \in Text /\ lost \subseteq Nat /\ written \in Nat

(* Characters typed, in order, in four places: read by the guest, queued, in *)
(* the buffer, at the terminal; the set e of them left this way.            *)
Line(g, q, b, s, e, n) ==
    /\ Ascending(g) /\ Ascending(q) /\ Ascending(b) /\ Ascending(s)
    /\ Before(g, q) /\ Before(g, b) /\ Before(g, s)
    /\ Before(q, b) /\ Before(q, s) /\ Before(b, s)
    /\ (ToSet(g) \cup ToSet(q) \cup ToSet(b) \cup ToSet(s)) \cap e = {}
    /\ (ToSet(g) \cup ToSet(q) \cup ToSet(b) \cup ToSet(s)) \cup e = 1 .. n

InputHeld == Line(got, queue, buf, stdin, dropped \cup cliGot, typed)

(* Characters written, in order, on the terminal and in the pipe, or lost. *)
Shown(s, p, l, n) ==
    /\ Ascending(s) /\ Ascending(p) /\ Before(s, p)
    /\ (ToSet(s) \cup ToSet(p) \cup l) \ {0} = 1 .. n

OutputHeld == Shown(screen, pipe, lost, written)

(* The two halves of TypeOK: the control state, and the capacities. *)
Control ==
    /\ cpc \in {"start", "configure", "check", "poll", "output", "gate",
                "read", "lock", "push", "exit", "done"}
    /\ ppc \in {"isr", "handler", "run", "wfi_lock", "wfi_locked", "wfi_wait",
                "wfi_woken", "debug_enter", "debug", "stop_flag", "stop_byte",
                "join", "off"}
    /\ revents \subseteq {"pipe", "stdin"}
    /\ mutex \in {"free", "console", "proc"}
    /\ tty \in {"cooked", "raw", "unset"} /\ oldTio \in {"cooked", "raw", "unset"}
    /\ running \in BOOLEAN /\ suspended \in BOOLEAN /\ waiting \in BOOLEAN
    /\ pipeOpen \in BOOLEAN /\ masked \subseteq Signals

Room ==
    /\ left \in 0..InstStep
    /\ Len(queue) <= QueueSize /\ Len(pipe) <= PipeSize /\ Len(buf) <= BufSize

(* Where the threads are. *)
Places ==
    /\ buf # <<>> => cpc \in {"lock", "push", "done"}
    /\ ppc \in {"handler", "wfi_lock", "wfi_locked", "wfi_wait", "wfi_woken"} =>
         left > 0
    /\ ~running => ppc \in {"stop_byte", "join", "off"}
    /\ cpc = "exit" => ~running
    /\ cpc = "done" => ~running \/ ppc = "off"
    /\ ppc = "off" => cpc = "done"
    /\ cpc = "start" => pipe = <<>> /\ ~pipeOpen

(* The terminal is raw only between configure_console and restore_console. *)
ModesKept ==
    /\ cpc \in {"start", "configure"} => tty = "cooked" /\ ppc # "debug"
    /\ cpc \notin {"start", "configure"} => oldTio = "cooked"
    /\ ppc = "debug" \/ cpc = "done" => tty = "cooked"

Inv == Control /\ Room /\ Typed /\ Written /\ Places /\ InputHeld /\ OutputHeld

(***************************************************************************)
(* Lemmas about sequences.                                                 *)
(***************************************************************************)
LEMMA Elements ==
  ASSUME NEW s \in Text
  PROVE  /\ Len(s) \in Nat /\ DOMAIN s = 1 .. Len(s)
         /\ \A i \in 1 .. Len(s) : s[i] \in Nat /\ s[i] \in ToSet(s)
         /\ \A x \in ToSet(s) : x \in Nat /\ \E i \in 1 .. Len(s) : s[i] = x
         /\ s = <<>> => ToSet(s) = {}
<1>1. Len(s) \in Nat /\ DOMAIN s = 1 .. Len(s)
  BY LenProperties DEF Text
<1>2. \A i \in 1 .. Len(s) : s[i] \in Nat
  BY ElementOfSeq DEF Text
<1>3. \A i \in 1 .. Len(s) : s[i] \in ToSet(s)
  BY <1>1 DEF ToSet
<1>4. \A x \in ToSet(s) : \E i \in 1 .. Len(s) : s[i] = x
  BY <1>1 DEF ToSet
<1>5. s = <<>> => 1 .. Len(s) = {}
  BY EmptySeq
<1> QED  BY <1>1, <1>2, <1>3, <1>4, <1>5

LEMMA NoText == /\ <<>> \in Text /\ ToSet(<<>>) = {} /\ Ascending(<<>>)
                /\ Len(<<>>) = 0
<1>1. <<>> \in Text /\ Len(<<>>) = 0
  BY EmptySeq DEF Text
<1>2. ToSet(<<>>) = {}
  BY <1>1, Elements
<1>3. Ascending(<<>>)
  BY <1>1 DEF Ascending
<1> QED  BY <1>1, <1>2, <1>3

(* Taking the first character. *)
LEMMA TakeFirst ==
  ASSUME NEW s \in Text, Ascending(s), s # <<>>
  PROVE  /\ Head(s) \in Nat /\ Tail(s) \in Text /\ Len(Tail(s)) = Len(s) - 1
         /\ Ascending(Tail(s))
         /\ ToSet(s) = {Head(s)} \cup ToSet(Tail(s))
         /\ \A y \in ToSet(Tail(s)) : Head(s) > 0 /\ y > 0 => Head(s) < y
<1> DEFINE h == Head(s)
           t == Tail(s)
<1>1. h \in Nat /\ t \in Text /\ Len(t) = Len(s) - 1
      /\ \A i \in 1 .. Len(t) : t[i] = s[i + 1]
  BY HeadTailProperties DEF Text
<1>2. h = s[1] /\ Len(s) \in Nat \ {0}
  BY EmptySeq DEF Text
<1> HIDE DEF h, t
<1>3. \A i \in 1 .. Len(t) : i + 1 \in 1 .. Len(s) /\ t[i] \in Nat
  BY <1>1, <1>2, Elements
<1>4. Ascending(t)
  <2> SUFFICES ASSUME NEW i \in 1 .. Len(t), NEW j \in 1 .. Len(t), i < j,
                      t[i] > 0, t[j] > 0
               PROVE  t[i] < t[j]
    BY DEF Ascending
  <2>1. i + 1 < j + 1 /\ i + 1 \in 1 .. Len(s) /\ j + 1 \in 1 .. Len(s)
    BY <1>3
  <2>2. t[i] = s[i + 1] /\ t[j] = s[j + 1]
    BY <1>1
  <2> QED  BY <2>1, <2>2 DEF Ascending
<1>5. ToSet(s) = {h} \cup ToSet(t)
  <2>1. ASSUME NEW x \in ToSet(s) PROVE x \in {h} \cup ToSet(t)
    <3>1. PICK i \in 1 .. Len(s) : s[i] = x
      BY Elements
    <3>2. i = 1 \/ (i - 1 \in 1 .. Len(t) /\ (i - 1) + 1 = i)
      BY <1>1, <1>2
    <3>3. i = 1 \/ t[i - 1] = x
      BY <1>1, <3>1, <3>2
    <3> QED  BY <1>1, <1>2, <3>1, <3>2, <3>3, Elements
  <2>2. ASSUME NEW x \in ToSet(t) PROVE x \in ToSet(s)
    <3>1. PICK i \in 1 .. Len(t) : t[i] = x
      BY <1>1, Elements
    <3> QED  BY <1>1, <1>3, <3>1, Elements
  <2>3. h \in ToSet(s)
    BY <1>2, Elements
  <2> QED  BY <2>1, <2>2, <2>3
<1>6. ASSUME NEW y \in ToSet(t), h > 0, y > 0 PROVE h < y
  <2>1. PICK i \in 1 .. Len(t) : t[i] = y
    BY <1>1, Elements
  <2>2. i + 1 \in 1 .. Len(s) /\ 1 \in 1 .. Len(s) /\ 1 < i + 1 /\ s[i + 1] = y
    BY <1>1, <1>2, <1>3, <2>1
  <2> QED  BY <1>2, <1>6, <2>2 DEF Ascending
<1> QED  BY <1>1, <1>4, <1>5, <1>6 DEF h, t

(* Putting a character behind all others. *)
LEMMA PutLast ==
  ASSUME NEW s \in Text, Ascending(s), NEW c \in Nat,
         \A x \in ToSet(s) : x > 0 /\ c > 0 => x < c
  PROVE  /\ Append(s, c) \in Text /\ Len(Append(s, c)) = Len(s) + 1
         /\ Ascending(Append(s, c)) /\ ToSet(Append(s, c)) = ToSet(s) \cup {c}
<1> DEFINE t == Append(s, c)
<1>1. /\ t \in Text /\ Len(t) = Len(s) + 1
      /\ \A i \in 1 .. Len(s) : t[i] = s[i]
      /\ t[Len(s) + 1] = c
  BY AppendProperties DEF Text
<1> HIDE DEF t
<1>2. Len(s) \in Nat /\ \A i \in 1 .. Len(t) : i \in 1 .. Len(s) \/ i = Len(s) + 1
  BY <1>1, Elements
<1>3. Ascending(t)
  <2> SUFFICES ASSUME NEW i \in 1 .. Len(t), NEW j \in 1 .. Len(t), i < j,
                      t[i] > 0, t[j] > 0
               PROVE  t[i] < t[j]
    BY DEF Ascending
  <2>1. i \in 1 .. Len(s)
    BY <1>1, <1>2
  <2>2. CASE j \in 1 .. Len(s)
    BY <1>1, <2>1, <2>2 DEF Ascending
  <2>3. CASE j = Len(s) + 1
    <3>1. s[i] \in ToSet(s) /\ s[i] > 0 /\ c > 0
      BY <1>1, <2>1, <2>3, Elements
    <3> QED  BY <1>1, <2>1, <2>3, <3>1
  <2> QED  BY <1>2, <2>2, <2>3
<1>4. ToSet(t) = ToSet(s) \cup {c}
  <2>1. ASSUME NEW x \in ToSet(t) PROVE x \in ToSet(s) \cup {c}
    <3>1. PICK i \in 1 .. Len(t) : t[i] = x
      BY <1>1, Elements
    <3> QED  BY <1>1, <1>2, <3>1, Elements
  <2>2. ASSUME NEW x \in ToSet(s) PROVE x \in ToSet(t)
    <3>1. PICK i \in 1 .. Len(s) : s[i] = x
      BY Elements
    <3>2. i \in 1 .. Len(t) /\ t[i] = x
      BY <1>1, <1>2, <3>1
    <3> QED  BY <1>1, <3>2, Elements
  <2>3. c \in ToSet(t)
    <3>1. Len(s) + 1 \in 1 .. Len(t)
      BY <1>1, <1>2
    <3> QED  BY <1>1, <3>1, Elements
  <2> QED  BY <2>1, <2>2, <2>3
<1> QED  BY <1>1, <1>3, <1>4 DEF t

(* Cutting a text in two. *)
LEMMA CutText ==
  ASSUME NEW s \in Text, Ascending(s), NEW n \in Nat, n <= Len(s)
  PROVE  LET a == SubSeq(s, 1, n)
             b == SubSeq(s, n + 1, Len(s))
         IN  /\ a \in Text /\ b \in Text /\ Len(a) = n /\ Len(b) = Len(s) - n
             /\ Ascending(a) /\ Ascending(b) /\ Before(a, b)
             /\ ToSet(s) = ToSet(a) \cup ToSet(b)
<1> DEFINE a == SubSeq(s, 1, n)
           b == SubSeq(s, n + 1, Len(s))
<1>1. Len(s) \in Nat /\ \A i \in 1 .. Len(s) : s[i] \in Nat
  BY Elements
<1>2. (\A i \in 1 .. n : s[i] \in Nat) /\ (\A i \in n + 1 .. Len(s) : s[i] \in Nat)
  BY <1>1
<1>3. /\ a \in Seq(Nat) /\ Len(a) = IF 1 <= n THEN n - 1 + 1 ELSE 0
      /\ \A i \in 1 .. n - 1 + 1 : a[i] = s[1 + i - 1]
  BY <1>2, SubSeqProperties
<1>4. /\ b \in Seq(Nat)
      /\ Len(b) = IF n + 1 <= Len(s) THEN Len(s) - (n + 1) + 1 ELSE 0
      /\ \A i \in 1 .. Len(s) - (n + 1) + 1 : b[i] = s[(n + 1) + i - 1]
  <2>1. n + 1 \in Int /\ Len(s) \in Int
    BY <1>1
  <2> QED  BY <1>2, <2>1, SubSeqProperties
<1> HIDE DEF a, b
<1>5. /\ a \in Text /\ Len(a) = n
      /\ \A i \in 1 .. Len(a) : i \in 1 .. Len(s) /\ i <= n /\ a[i] = s[i]
  <2>1. n - 1 + 1 = n /\ Len(a) = n
    BY <1>3
  <2>2. \A i \in 1 .. n : 1 + i - 1 = i /\ i \in 1 .. Len(s)
    BY <1>1
  <2> QED  BY <1>3, <2>1, <2>2 DEF Text
<1>6. /\ b \in Text /\ Len(b) = Len(s) - n
      /\ \A i \in 1 .. Len(b) : n + i \in 1 .. Len(s) /\ b[i] = s[n + i]
  <2>1. Len(s) - (n + 1) + 1 = Len(s) - n /\ Len(b) = Len(s) - n
    BY <1>1, <1>4
  <2>2. \A i \in 1 .. Len(s) - n : (n + 1) + i - 1 = n + i /\ n + i \in 1 .. Len(s)
    BY <1>1
  <2> QED  BY <1>4, <2>1, <2>2 DEF Text
<1>7. Ascending(a)
  BY <1>5 DEF Ascending
<1>8. Ascending(b)
  <2> SUFFICES ASSUME NEW i \in 1 .. Len(b), NEW j \in 1 .. Len(b), i < j,
                      b[i] > 0, b[j] > 0
               PROVE  b[i] < b[j]
    BY DEF Ascending
  <2>1. n + i < n + j
    OBVIOUS
  <2> QED  BY <1>6, <2>1 DEF Ascending
<1>9. Before(a, b)
  <2> SUFFICES ASSUME NEW x \in ToSet(a), NEW y \in ToSet(b), x > 0, y > 0
               PROVE  x < y
    BY DEF Before
  <2>1. PICK i \in 1 .. Len(a) : a[i] = x
    BY <1>5, Elements
  <2>2. PICK j \in 1 .. Len(b) : b[j] = y
    BY <1>6, Elements
  <2>3. i < n + j
    BY <1>1, <1>5, <1>6
  <2> QED  BY <1>5, <1>6, <2>1, <2>2, <2>3 DEF Ascending
<1>10. ToSet(s) = ToSet(a) \cup ToSet(b)
  <2>1. ASSUME NEW x \in ToSet(s) PROVE x \in ToSet(a) \cup ToSet(b)
    <3>1. PICK i \in 1 .. Len(s) : s[i] = x
      BY Elements
    <3>2. CASE i <= n
      <4>1. i \in 1 .. Len(a)
        BY <1>5, <3>2
      <4> QED  BY <1>5, <3>1, <4>1, Elements
    <3>3. CASE ~(i <= n)
      <4>1. i - n \in 1 .. Len(b) /\ n + (i - n) = i
        BY <1>1, <1>6, <3>3
      <4>2. b[i - n] = x
        BY <1>6, <3>1, <4>1
      <4> QED  BY <1>6, <4>1, <4>2, Elements
    <3> QED  BY <3>2, <3>3
  <2>2. ASSUME NEW x \in ToSet(a) PROVE x \in ToSet(s)
    <3>1. PICK i \in 1 .. Len(a) : a[i] = x
      BY <1>5, Elements
    <3> QED  BY <1>5, <3>1, Elements
  <2>3. ASSUME NEW x \in ToSet(b) PROVE x \in ToSet(s)
    <3>1. PICK i \in 1 .. Len(b) : b[i] = x
      BY <1>6, Elements
    <3> QED  BY <1>6, <3>1, Elements
  <2> QED  BY <2>1, <2>2, <2>3
<1> QED  BY <1>5, <1>6, <1>7, <1>8, <1>9, <1>10 DEF a, b

(* Putting two texts together. *)
LEMMA JoinText ==
  ASSUME NEW s \in Text, NEW t \in Text, Ascending(s), Ascending(t), Before(s, t)
  PROVE  /\ s \o t \in Text /\ Ascending(s \o t)
         /\ ToSet(s \o t) = ToSet(s) \cup ToSet(t)
<1> DEFINE u == s \o t
<1>1. /\ u \in Seq(Nat) /\ Len(u) = Len(s) + Len(t)
      /\ \A i \in 1 .. Len(s) + Len(t) : u[i] =
                  IF i <= Len(s) THEN s[i] ELSE t[i - Len(s)]
  BY ConcatProperties DEF Text
<1>2. Len(s) \in Nat /\ Len(t) \in Nat
  BY Elements
<1> HIDE DEF u
<1>3. /\ u \in Text
      /\ \A i \in 1 .. Len(u) : \/ i \in 1 .. Len(s) /\ u[i] = s[i]
                                \/ /\ i > Len(s) /\ i - Len(s) \in 1 .. Len(t)
                                   /\ u[i] = t[i - Len(s)]
  BY <1>1, <1>2 DEF Text
<1>4. Ascending(u)
  <2> SUFFICES ASSUME NEW i \in 1 .. Len(u), NEW j \in 1 .. Len(u), i < j,
                      u[i] > 0, u[j] > 0
               PROVE  u[i] < u[j]
    BY DEF Ascending
  <2>1. CASE i \in 1 .. Len(s) /\ j \in 1 .. Len(s)
    BY <1>2, <1>3, <2>1 DEF Ascending
  <2>2. CASE i \in 1 .. Len(s) /\ j > Len(s)
    <3>1. u[i] = s[i] /\ u[j] = t[j - Len(s)] /\ j - Len(s) \in 1 .. Len(t)
      BY <1>2, <1>3, <2>2
    <3>2. u[i] \in ToSet(s) /\ u[j] \in ToSet(t)
      BY <2>2, <3>1, Elements
    <3> QED  BY <3>2 DEF Before
  <2>3. CASE i > Len(s)
    <3>1. /\ u[i] = t[i - Len(s)] /\ i - Len(s) \in 1 .. Len(t)
          /\ u[j] = t[j - Len(s)] /\ j - Len(s) \in 1 .. Len(t)
          /\ i - Len(s) < j - Len(s)
      BY <1>2, <1>3, <2>3
    <3> QED  BY <3>1 DEF Ascending
  <2> QED  BY <1>2, <1>3, <2>1, <2>2, <2>3
<1>5. ToSet(u) = ToSet(s) \cup ToSet(t)
  <2>1. ASSUME NEW x \in ToSet(u) PROVE x \in ToSet(s) \cup ToSet(t)
    <3>1. PICK i \in 1 .. Len(u) : u[i] = x
      BY <1>3, Elements
    <3> QED  BY <1>3, <3>1, Elements
  <2>2. ASSUME NEW x \in ToSet(s) PROVE x \in ToSet(u)
    <3>1. PICK i \in 1 .. Len(s) : s[i] = x
      BY Elements
    <3>2. i \in 1 .. Len(u) /\ u[i] = x
      BY <1>1, <1>2, <3>1
    <3> QED  BY <1>3, <3>2, Elements
  <2>3. ASSUME NEW x \in ToSet(t) PROVE x \in ToSet(u)
    <3>1. PICK i \in 1 .. Len(t) : t[i] = x
      BY Elements
    <3>2. Len(s) + i \in 1 .. Len(u) /\ (Len(s) + i) - Len(s) = i /\ ~(Len(s) + i <= Len(s))
      BY <1>1, <1>2
    <3>3. u[Len(s) + i] = x
      BY <1>1, <3>1, <3>2
    <3> QED  BY <1>3, <3>2, <3>3, Elements
  <2> QED  BY <2>1, <2>2, <2>3
<1> QED  BY <1>3, <1>4, <1>5 DEF u

(***************************************************************************)
(* What a character moving on does to the input line.                      *)
(***************************************************************************)
LEMMA ReadByGuest ==
  ASSUME NEW g \in Text, NEW q \in Text, NEW b \in Text, NEW s \in Text,
         NEW e, NEW n \in Nat, Line(g, q, b, s, e, n), q # <<>>
  PROVE  /\ Append(g, Head(q)) \in Text /\ Tail(q) \in Text
         /\ Len(Tail(q)) = Len(q) - 1
         /\ Line(Append(g, Head(q)), Tail(q), b, s, e, n)
<1> DEFINE h == Head(q)
           t == Tail(q)
           a == Append(g, h)
<1>1. /\ h \in Nat /\ t \in Text /\ Len(t) = Len(q) - 1
      /\ Ascending(t) /\ ToSet(q) = {h} \cup ToSet(t)
      /\ \A y \in ToSet(t) : h > 0 /\ y > 0 => h < y
  BY TakeFirst DEF Line
<1>2. \A x \in ToSet(g) : x > 0 /\ h > 0 => x < h
  BY <1>1 DEF Line, Before
<1> HIDE DEF h, t
<1>3. a \in Text /\ Ascending(a) /\ ToSet(a) = ToSet(g) \cup {h}
  BY <1>1, <1>2, PutLast DEF Line
<1> HIDE DEF a
<1>4. Before(a, t) /\ Before(a, b) /\ Before(a, s) /\ Before(t, b) /\ Before(t, s)
  BY <1>1, <1>2, <1>3 DEF Line, Before
<1>5. Line(a, t, b, s, e, n)
  BY <1>1, <1>3, <1>4 DEF Line
<1> QED  BY <1>1, <1>3, <1>5 DEF h, t, a

LEMMA PutInQueue ==
  ASSUME NEW g \in Text, NEW q \in Text, NEW b \in Text, NEW s \in Text,
         NEW e, NEW n \in Nat, Line(g, q, b, s, e, n), b # <<>>
  PROVE  /\ Append(q, Head(b)) \in Text /\ Len(Append(q, Head(b))) = Len(q) + 1
         /\ Tail(b) \in Text /\ Len(Tail(b)) = Len(b) - 1
         /\ Line(g, Append(q, Head(b)), Tail(b), s, e, n)
<1> DEFINE h == Head(b)
           t == Tail(b)
           a == Append(q, h)
<1>1. /\ h \in Nat /\ t \in Text /\ Len(t) = Len(b) - 1
      /\ Ascending(t) /\ ToSet(b) = {h} \cup ToSet(t)
      /\ \A y \in ToSet(t) : h > 0 /\ y > 0 => h < y
  BY TakeFirst DEF Line
<1>2. \A x \in ToSet(q) : x > 0 /\ h > 0 => x < h
  BY <1>1 DEF Line, Before
<1> HIDE DEF h, t
<1>3. a \in Text /\ Len(a) = Len(q) + 1 /\ Ascending(a) /\ ToSet(a) = ToSet(q) \cup {h}
  BY <1>1, <1>2, PutLast DEF Line
<1> HIDE DEF a
<1>4. Before(g, a) /\ Before(g, t) /\ Before(a, t) /\ Before(a, s) /\ Before(t, s)
  BY <1>1, <1>2, <1>3 DEF Line, Before
<1>5. Line(g, a, t, s, e, n)
  BY <1>1, <1>3, <1>4 DEF Line
<1> QED  BY <1>1, <1>3, <1>5 DEF h, t, a

LEMMA RefusedByQueue ==
  ASSUME NEW g \in Text, NEW q \in Text, NEW b \in Text, NEW s \in Text,
         NEW e, NEW n \in Nat, Line(g, q, b, s, e, n), b # <<>>
  PROVE  /\ Head(b) \in Nat /\ Tail(b) \in Text /\ Len(Tail(b)) = Len(b) - 1
         /\ Line(g, q, Tail(b), s, e \cup {Head(b)}, n)
<1> DEFINE h == Head(b)
           t == Tail(b)
<1>1. /\ h \in Nat /\ t \in Text /\ Len(t) = Len(b) - 1
      /\ Ascending(t) /\ ToSet(b) = {h} \cup ToSet(t)
      /\ \A y \in ToSet(t) : h > 0 /\ y > 0 => h < y
  BY TakeFirst DEF Line
<1> HIDE DEF h, t
<1>2. \A x \in ToSet(g) \cup ToSet(q) \cup ToSet(t) \cup ToSet(s) \cup {h} : x \in 1 .. n
  BY <1>1 DEF Line
<1>3. h \notin ToSet(g) \cup ToSet(q) \cup ToSet(t) \cup ToSet(s)
  <2>1. h \in Nat /\ h > 0 /\ ~(h < h) /\ h \in ToSet(b)
    BY <1>1, <1>2
  <2>2. h \notin ToSet(g) /\ h \notin ToSet(q) /\ h \notin ToSet(s)
    BY <2>1 DEF Line, Before
  <2> QED  BY <1>1, <2>1, <2>2
<1>4. Before(g, t) /\ Before(q, t) /\ Before(t, s)
  BY <1>1 DEF Line, Before
<1>5. Line(g, q, t, s, e \cup {h}, n)
  BY <1>1, <1>3, <1>4 DEF Line
<1> QED  BY <1>1, <1>5 DEF h, t

LEMMA ReadByDebugger ==
  ASSUME NEW g \in Text, NEW q \in Text, NEW b \in Text, NEW s \in Text,
         NEW e, NEW n \in Nat, Line(g, q, b, s, e, n), s # <<>>
  PROVE  /\ Head(s) \in Nat /\ Tail(s) \in Text
         /\ Line(g, q, b, Tail(s), e \cup {Head(s)}, n)
<1> DEFINE h == Head(s)
           t == Tail(s)
<1>1. /\ h \in Nat /\ t \in Text
      /\ Ascending(t) /\ ToSet(s) = {h} \cup ToSet(t)
      /\ \A y \in ToSet(t) : h > 0 /\ y > 0 => h < y
  BY TakeFirst DEF Line
<1> HIDE DEF h, t
<1>2. \A x \in ToSet(g) \cup ToSet(q) \cup ToSet(b) \cup ToSet(t) \cup {h} : x \in 1 .. n
  BY <1>1 DEF Line
<1>3. h \notin ToSet(g) \cup ToSet(q) \cup ToSet(b) \cup ToSet(t)
  BY <1>1, <1>2 DEF Line, Before
<1>4. Before(g, t) /\ Before(q, t) /\ Before(b, t)
  BY <1>1 DEF Line, Before
<1>5. Line(g, q, b, t, e \cup {h}, n)
  BY <1>1, <1>3, <1>4 DEF Line
<1> QED  BY <1>1, <1>5 DEF h, t

LEMMA ReadByConsole ==
  ASSUME NEW g \in Text, NEW q \in Text, NEW s \in Text,
         NEW e, NEW n \in Nat, Line(g, q, <<>>, s, e, n),
         NEW k \in Nat, k <= Len(s)
  PROVE  /\ SubSeq(s, 1, k) \in Text /\ Len(SubSeq(s, 1, k)) = k
         /\ SubSeq(s, k + 1, Len(s)) \in Text
         /\ Line(g, q, SubSeq(s, 1, k), SubSeq(s, k + 1, Len(s)), e, n)
<1> DEFINE a == SubSeq(s, 1, k)
           t == SubSeq(s, k + 1, Len(s))
<1>1. /\ a \in Text /\ t \in Text /\ Len(a) = k
      /\ Ascending(a) /\ Ascending(t) /\ Before(a, t)
      /\ ToSet(s) = ToSet(a) \cup ToSet(t)
  <2>1. Ascending(s)
    BY DEF Line
  <2> QED  BY <2>1, CutText
<1> HIDE DEF a, t
<1>2. Before(g, a) /\ Before(q, a) /\ Before(g, t) /\ Before(q, t)
  BY <1>1 DEF Line, Before
<1>3. Line(g, q, a, t, e, n)
  BY <1>1, <1>2, NoText DEF Line
<1> QED  BY <1>1, <1>3 DEF a, t

LEMMA TypedByUser ==
  ASSUME NEW g \in Text, NEW q \in Text, NEW b \in Text, NEW s \in Text,
         NEW e, NEW n \in Nat, Line(g, q, b, s, e, n)
  PROVE  /\ Append(s, n + 1) \in Text
         /\ Line(g, q, b, Append(s, n + 1), e, n + 1)
<1> DEFINE a == Append(s, n + 1)
<1>1. \A x \in ToSet(g) \cup ToSet(q) \cup ToSet(b) \cup ToSet(s) \cup e :
         x \in Nat /\ 0 < x /\ x < n + 1
  BY DEF Line
<1>2. a \in Text /\ Ascending(a) /\ ToSet(a) = ToSet(s) \cup {n + 1}
  <2>1. n + 1 \in Nat /\ \A x \in ToSet(s) : x > 0 /\ n + 1 > 0 => x < n + 1
    BY <1>1
  <2>2. Ascending(s)
    BY DEF Line
  <2> QED  BY <2>1, <2>2, PutLast
<1> HIDE DEF a
<1>3. Before(g, a) /\ Before(q, a) /\ Before(b, a)
  BY <1>1, <1>2 DEF Line, Before
<1>4. 1 .. n + 1 = (1 .. n) \cup {n + 1} /\ n + 1 \notin e
  BY <1>1
<1>5. \A x \in ToSet(g) \cup ToSet(q) \cup ToSet(b) \cup ToSet(s) : x # n + 1
  BY <1>1
<1>6. Line(g, q, b, a, e, n + 1)
  BY <1>2, <1>3, <1>4, <1>5 DEF Line
<1> QED  BY <1>2, <1>6 DEF a

(***************************************************************************)
(* What a character written, or shown, does to the output.                 *)
(***************************************************************************)
LEMMA ShownByConsole ==
  ASSUME NEW s \in Text, NEW p \in Text, NEW l, NEW n \in Nat,
         Shown(s, p, l, n), NEW k \in Nat, k <= Len(p)
  PROVE  /\ s \o SubSeq(p, 1, k) \in Text
         /\ SubSeq(p, k + 1, Len(p)) \in Text
         /\ Len(SubSeq(p, k + 1, Len(p))) = Len(p) - k
         /\ Shown(s \o SubSeq(p, 1, k), SubSeq(p, k + 1, Len(p)), l, n)
<1> DEFINE a == SubSeq(p, 1, k)
           t == SubSeq(p, k + 1, Len(p))
           u == s \o a
<1>1. /\ a \in Text /\ t \in Text /\ Len(t) = Len(p) - k
      /\ Ascending(a) /\ Ascending(t) /\ Before(a, t)
      /\ ToSet(p) = ToSet(a) \cup ToSet(t)
  <2>1. Ascending(p)
    BY DEF Shown
  <2> QED  BY <2>1, CutText
<1> HIDE DEF a, t
<1>2. Before(s, a) /\ Before(s, t)
  BY <1>1 DEF Shown, Before
<1>3. u \in Text /\ Ascending(u) /\ ToSet(u) = ToSet(s) \cup ToSet(a)
  BY <1>1, <1>2, JoinText DEF Shown
<1> HIDE DEF u
<1>4. Before(u, t)
  BY <1>1, <1>2, <1>3 DEF Before
<1>5. Shown(u, t, l, n)
  BY <1>1, <1>3, <1>4 DEF Shown
<1> QED  BY <1>1, <1>3, <1>5 DEF a, t, u

(* The next character, or the byte of shutdown. *)
Follows(c, n, m) == (c = n + 1 /\ m = n + 1) \/ (c = 0 /\ m = n)

LEMMA CharacterWritten ==
  ASSUME NEW s \in Text, NEW p \in Text, NEW l, NEW n \in Nat,
         Shown(s, p, l, n), NEW c, NEW m, Follows(c, n, m)
  PROVE  /\ c \in Nat /\ m \in Nat
         /\ Append(p, c) \in Text /\ Len(Append(p, c)) = Len(p) + 1
         /\ Shown(s, Append(p, c), l, m)
         /\ Shown(s, p, l \cup {c}, m)
         /\ p = <<>> => Append(s, c) \in Text /\ Shown(Append(s, c), p, l, m)
<1>1. \A x \in ToSet(s) \cup ToSet(p) : x \in Nat /\ x < n + 1
  <2>1. \A x \in ToSet(s) \cup ToSet(p) : x \in Nat
    BY Elements
  <2>2. \A x \in ToSet(s) \cup ToSet(p) : x = 0 \/ x \in 1 .. n
    BY DEF Shown
  <2> QED  BY <2>1, <2>2
<1>2. c \in Nat /\ m \in Nat /\ ({c} \cup (1 .. n)) \ {0} = 1 .. m
      /\ \A x \in ToSet(s) \cup ToSet(p) : x > 0 /\ c > 0 => x < c
  BY <1>1 DEF Follows
<1>3. Ascending(s) /\ Ascending(p) /\ Before(s, p)
  BY DEF Shown
<1>4. /\ Append(p, c) \in Text /\ Len(Append(p, c)) = Len(p) + 1
      /\ Ascending(Append(p, c)) /\ ToSet(Append(p, c)) = ToSet(p) \cup {c}
  BY <1>2, <1>3, PutLast
<1>5. /\ Append(s, c) \in Text
      /\ Ascending(Append(s, c)) /\ ToSet(Append(s, c)) = ToSet(s) \cup {c}
  BY <1>2, <1>3, PutLast
<1> DEFINE a == Append(p, c)
           b == Append(s, c)
<1> HIDE DEF a, b
<1>6. Shown(s, a, l, m)
  <2>1. Ascending(a) /\ ToSet(a) = ToSet(p) \cup {c}
    BY <1>4 DEF a
  <2>2. Before(s, a)
    BY <1>2, <1>3, <2>1 DEF Before
  <2> QED  BY <1>2, <1>3, <2>1, <2>2 DEF Shown
<1>7. Shown(s, p, l \cup {c}, m)
  BY <1>2, <1>3 DEF Shown
<1>8. ASSUME p = <<>> PROVE Shown(b, p, l, m)
  <2>1. Ascending(b) /\ ToSet(b) = ToSet(s) \cup {c}
    BY <1>5 DEF b
  <2>2. ToSet(p) = {}
    BY <1>8, NoText
  <2>3. Before(b, p)
    BY <2>2 DEF Before
  <2> QED  BY <1>2, <1>3, <2>1, <2>3 DEF Shown
<1> QED  BY <1>2, <1>4, <1>5, <1>6, <1>7, <1>8 DEF a, b

(***************************************************************************)
(* The invariant holds at the start.                                       *)
(***************************************************************************)
LEMMA TypeSplit == TypeOK <=> Control /\ Room
BY DEF TypeOK, Control, Room

LEMMA InitInv == Init => Inv
<1> SUFFICES ASSUME Init PROVE Inv
  OBVIOUS
<1>1. Typed /\ Written
  BY NoText DEF Init, Typed, Written
<1>2. Control /\ Room
  <2>1. ppc = "isr" \/ ppc = "debug_enter"
    BY DEF Init
  <2>2. Control
    BY <2>1 DEF Init, Control
  <2> QED  BY <2>2, ConsoleAssumption, NoText DEF Init, Room
<1>3. Places
  BY DEF Init, Places
<1>4. Before(<<>>, <<>>)
  BY NoText DEF Before
<1>5. 1 .. 0 = {}
  OBVIOUS
<1>6. InputHeld
  BY <1>4, <1>5, NoText DEF Init, InputHeld, Line
<1>7. OutputHeld
  BY <1>4, <1>5, NoText DEF Init, OutputHeld, Shown
<1> QED  BY <1>1, <1>2, <1>3, <1>6, <1>7 DEF Inv

(***************************************************************************)
(* Steps that move no character.                                           *)
(***************************************************************************)
InputStays == UNCHANGED <<got, queue, buf, stdin, dropped, cliGot, typed>>
OutputStays == UNCHANGED <<screen, pipe, lost, written>>

LEMMA InputKept ==
  ASSUME Typed, InputHeld, InputStays
  PROVE  Typed' /\ InputHeld' /\ Len(queue)' = Len(queue) /\ Len(buf)' = Len(buf)
BY DEF Typed, InputHeld, InputStays

LEMMA OutputKept ==
  ASSUME Written, OutputHeld, OutputStays
  PROVE  Written' /\ OutputHeld' /\ Len(pipe)' = Len(pipe)
BY DEF Written, OutputHeld, OutputStays

(***************************************************************************)
(* Where the threads are, and the state that says so.                      *)
(***************************************************************************)
LEMMA BufLenFits ==
  ASSUME NEW s \in Text
  PROVE  BufLen(s) \in Nat /\ BufLen(s) <= Len(s) /\ BufLen(s) <= BufSize
BY ConsoleAssumption, Elements DEF BufLen

(* process_output takes from the pipe what is there. *)
LEMMA OutputTakes ==
  ASSUME Written, process_output
  PROVE  \E n \in Nat : /\ n <= Len(pipe)
                        /\ screen' = screen \o SubSeq(pipe, 1, n)
                        /\ pipe' = SubSeq(pipe, n + 1, Len(pipe))
<1> DEFINE n == IF "pipe" \in revents THEN BufLen(pipe) ELSE 0
<1>1. pipe \in Text /\ Len(pipe) \in Nat
  BY Elements DEF Written
<1>2. n \in Nat /\ n <= Len(pipe)
  BY <1>1, BufLenFits
<1>3. screen' = screen \o SubSeq(pipe, 1, n) /\ pipe' = SubSeq(pipe, n + 1, Len(pipe))
  BY DEF process_output
<1> HIDE DEF n
<1> QED  BY <1>2, <1>3

LEMMA ControlStep ==
  ASSUME Control, Places, [Next]_vars
  PROVE  Control' /\ Places'
<1> USE DEF Control, Places
<1>1. CASE open_pipe
  BY <1>1 DEF open_pipe, proc, flags, sync, input, user, modes, debug
<1>2. CASE StartConsole
  BY <1>2 DEF StartConsole, configure_console, proc, flags, sync, input,
              output, user, debug
<1>3. CASE CheckRunning
  BY <1>3 DEF CheckRunning, proc, flags, sync, input, output, user, modes, debug
<1>4. CASE Poll
  BY <1>4 DEF Poll, proc, flags, sync, input, output, user, modes, debug
<1>5. CASE process_output
  <2>1. /\ cpc = "output" /\ cpc' = "gate"
        /\ UNCHANGED <<revents, buf, proc, flags, sync, input, pipeOpen, lost,
                       written, user, modes, debug>>
    BY <1>5 DEF process_output
  <2> QED  BY <2>1 DEF proc, flags, sync, input, user, modes, debug
<1>6. CASE CheckSuspended
  BY <1>6 DEF CheckSuspended, proc, flags, sync, input, output, user, modes, debug
<1>7. CASE ReadTerminal
  BY <1>7 DEF ReadTerminal, proc, flags, sync, input, output, user, modes, debug
<1>8. CASE LockQueue
  BY <1>8 DEF LockQueue, proc, flags, sync, input, output, user, modes, debug
<1>9. CASE PushChar
  BY <1>9 DEF PushChar, proc, flags, sync, input, output, user, modes, debug
<1>10. CASE NotifyAndUnlock
  BY <1>10 DEF NotifyAndUnlock, proc, flags, sync, input, output, user, modes, debug
<1>11. CASE ExitConsole
  BY <1>11 DEF ExitConsole, restore_console, proc, flags, sync, input, output,
               user, modes, debug
<1>12. CASE isr
  BY <1>12, ConsoleAssumption DEF isr, console, flags, sync, input, output,
                                  user, modes, debug
<1>13. CASE read_char
  BY <1>13 DEF read_char, console, flags, sync, output, user, modes, debug
<1>14. CASE write_char
  <2>1. cpc = "start" => pipe' = pipe
    BY <1>14 DEF write_char, WriteByte
  <2> QED  BY <1>14, <2>1 DEF write_char, console, flags, sync, input, user, modes, debug
<1>15. CASE OtherInstruction
  BY <1>15 DEF OtherInstruction, console, flags, sync, input, output, user, modes, debug
<1>16. CASE EndStep
  BY <1>16 DEF EndStep, console, flags, sync, input, output, user, modes, debug
<1>17. CASE SleepOnInterrupt
  BY <1>17 DEF SleepOnInterrupt, console, flags, sync, input, output, user, modes, debug
<1>18. CASE LockInterrupt
  BY <1>18 DEF LockInterrupt, console, flags, input, output, user, modes, debug
<1>19. CASE Wait
  BY <1>19 DEF Wait, console, flags, input, output, user, modes, debug
<1>20. CASE Timeout
  BY <1>20 DEF Timeout, console, proc, flags, input, output, user, modes, debug
<1>21. CASE Wake
  BY <1>21 DEF Wake, console, flags, input, output, user, modes, debug
<1>22. CASE UnlockInterrupt
  BY <1>22 DEF UnlockInterrupt, console, flags, input, output, user, modes, debug
<1>23. CASE HitBreakpoint
  BY <1>23 DEF HitBreakpoint, console, flags, sync, input, output, user, modes
<1>24. CASE signal
  <2>1. PICK sig \in Signals :
          masked' = masked \cup {sig} /\ ppc' = JumpTo[sig]
    BY <1>24 DEF signal
  <2>2. JumpTo[sig] \in {"debug_enter", "run", "stop_flag"}
    BY DEF JumpTo, Signals
  <2>3. masked' \subseteq Signals
    BY <2>1
  <2>4. /\ ppc \in {"run", "handler", "wfi_lock", "wfi_locked", "wfi_wait", "wfi_woken"}
        /\ waiting' = FALSE
        /\ UNCHANGED <<console, left, flags, mutex, output, modes>>
    BY <1>24 DEF signal
  <2>5. ppc' \in {"debug_enter", "run", "stop_flag"}
    BY <2>1, <2>2
  <2>6. UNCHANGED <<cpc, revents, buf, left, running, suspended, mutex, pipe,
                    pipeOpen, tty, oldTio>>
    BY <2>4 DEF console, flags, output, modes
  <2>7. Control'
    BY <2>3, <2>4, <2>5, <2>6
  <2>8. Places'
    BY <2>4, <2>5, <2>6
  <2> QED  BY <2>7, <2>8
<1>25. CASE debug_enter
  BY <1>25 DEF debug_enter, restore_console, console, sync, input, output, user, debug
<1>26. CASE getline
  BY <1>26 DEF getline, console, proc, flags, sync, input, output, modes
<1>27. CASE debug_leave
  BY <1>27 DEF debug_leave, configure_console, console, sync, input, output, user, debug
<1>28. CASE cmd_quit
  BY <1>28 DEF cmd_quit, flags, sync, input, output, user, modes, debug
<1>29. CASE PowerOff
  BY <1>29 DEF PowerOff, console, flags, sync, input, output, user, modes, debug
<1>30. CASE shutdown
  <2>1. CASE ppc = "stop_flag"
    <3>1. /\ running' = FALSE /\ ppc' = "stop_byte"
          /\ UNCHANGED <<console, left, suspended, sync, input, output, user,
                         modes, debug>>
      BY <1>30, <2>1 DEF shutdown, ShutdownSteps
    <3>2. UNCHANGED <<cpc, revents, buf, left, suspended, mutex, waiting, pipe,
                      pipeOpen, tty, oldTio, masked>>
      BY <3>1 DEF console, sync, input, output, modes, debug
    <3>3. ~running' /\ running' \in BOOLEAN
      BY <3>1
    <3>4. Control'
      BY <3>1, <3>2, <3>3
    <3> QED  BY <2>1, <3>1, <3>2, <3>3, <3>4
  <2>2. CASE ppc = "stop_byte"
    <3>1. /\ WriteByte(0) /\ ppc' = "join"
          /\ UNCHANGED <<console, left, flags, sync, input, pipeOpen, written,
                         user, modes, debug>>
      BY <1>30, <2>2 DEF shutdown, ShutdownSteps
    <3>2. cpc = "start" => pipe' = pipe
      BY <3>1 DEF WriteByte
    <3> QED  BY <2>2, <3>1, <3>2 DEF console, flags, sync, input, user, modes, debug
  <2>3. CASE ppc = "join"
    BY <1>30, <2>3 DEF shutdown, ShutdownSteps, console, flags, sync, input,
                       output, user, modes, debug
  <2> QED  BY <1>30, <2>1, <2>2, <2>3 DEF shutdown, ShutdownSteps
<1>31. CASE Type
  BY <1>31 DEF Type, console, proc, flags, sync, input, output, modes, debug
<1>32. CASE UNCHANGED vars
  BY <1>32 DEF vars, console, proc, flags, sync, input, output, user, modes, debug
<1> HIDE DEF Control, Places
<1> QED
  BY <1>1, <1>2, <1>3, <1>4, <1>5, <1>6, <1>7, <1>8, <1>9, <1>10, <1>11, <1>12,
     <1>13, <1>14, <1>15, <1>16, <1>17, <1>18, <1>19, <1>20, <1>21, <1>22,
     <1>23, <1>24, <1>25, <1>26, <1>27, <1>28, <1>29, <1>30, <1>31, <1>32
  DEF Next, ConsoleThread, ProcessorThread, Debugger, wait_for_interrupt, Terminated

(***************************************************************************)
(* Input, action by action.                                                *)
(***************************************************************************)
InputSafe == Typed /\ InputHeld

LEMMA HeldLine ==
  ASSUME InputSafe
  PROVE  /\ got \in Text /\ queue \in Text /\ buf \in Text /\ stdin \in Text
         /\ dropped \subseteq Nat /\ cliGot \subseteq Nat /\ typed \in Nat
         /\ Line(got, queue, buf, stdin, dropped \cup cliGot, typed)
BY DEF InputSafe, Typed, InputHeld

LEMMA InputRead ==
  ASSUME InputSafe, Places, ReadTerminal
  PROVE  InputSafe' /\ Len(queue') = Len(queue) /\ Len(buf') <= BufSize
<1> DEFINE k == BufLen(stdin)
<1>1. k \in Nat /\ k <= Len(stdin) /\ k <= BufSize
  BY HeldLine, BufLenFits
<1>2. /\ buf = <<>> /\ buf' = SubSeq(stdin, 1, k)
      /\ stdin' = SubSeq(stdin, k + 1, Len(stdin))
      /\ UNCHANGED <<got, queue, dropped, cliGot, typed>>
  BY DEF ReadTerminal, Places, input, debug
<1> HIDE DEF k
<1>3. Line(got, queue, <<>>, stdin, dropped \cup cliGot, typed)
  BY <1>2, HeldLine
<1>4. /\ buf' \in Text /\ Len(buf') = k /\ stdin' \in Text
      /\ Line(got, queue, buf', stdin', dropped \cup cliGot, typed)
  BY <1>1, <1>2, <1>3, HeldLine, ReadByConsole
<1>5. InputHeld'
  BY <1>2, <1>4 DEF InputHeld
<1>6. Typed'
  BY <1>2, <1>4, HeldLine DEF Typed
<1> QED  BY <1>1, <1>2, <1>4, <1>5, <1>6 DEF InputSafe

LEMMA InputPush ==
  ASSUME InputSafe, Len(queue) <= QueueSize, PushChar
  PROVE  InputSafe' /\ Len(queue') <= QueueSize /\ Len(buf') = Len(buf) - 1
<1>1. /\ buf # <<>> /\ buf' = Tail(buf) /\ push_back(Head(buf))
      /\ UNCHANGED <<got, stdin, cliGot, typed>>
  BY DEF PushChar, user, debug
<1>2. Len(queue) \in Nat
  BY HeldLine, Elements
<1>3. CASE Len(queue) < QueueSize
  <2>1. queue' = Append(queue, Head(buf)) /\ dropped' = dropped
    BY <1>1, <1>3 DEF push_back
  <2>2. /\ queue' \in Text /\ Len(queue') = Len(queue) + 1
        /\ buf' \in Text /\ Len(buf') = Len(buf) - 1
        /\ Line(got, queue', buf', stdin, dropped \cup cliGot, typed)
    BY <1>1, <2>1, HeldLine, PutInQueue
  <2>3. InputHeld'
    BY <1>1, <2>1, <2>2 DEF InputHeld
  <2>4. Typed'
    BY <1>1, <2>1, <2>2, HeldLine DEF Typed
  <2> QED  BY <1>2, <1>3, <2>2, <2>3, <2>4, ConsoleAssumption DEF InputSafe
<1>4. CASE ~(Len(queue) < QueueSize)
  <2>1. queue' = queue /\ dropped' = dropped \cup {Head(buf)}
    BY <1>1, <1>4 DEF push_back
  <2>2. /\ Head(buf) \in Nat /\ buf' \in Text /\ Len(buf') = Len(buf) - 1
        /\ Line(got, queue, buf', stdin, (dropped \cup cliGot) \cup {Head(buf)}, typed)
    BY <1>1, HeldLine, RefusedByQueue
  <2>3. (dropped \cup cliGot) \cup {Head(buf)} = dropped' \cup cliGot
    BY <2>1
  <2>4. InputHeld'
    BY <1>1, <2>1, <2>2, <2>3 DEF InputHeld
  <2>5. Typed'
    BY <1>1, <2>1, <2>2, HeldLine DEF Typed
  <2> QED  BY <2>1, <2>2, <2>4, <2>5 DEF InputSafe
<1> QED  BY <1>3, <1>4

LEMMA InputPop ==
  ASSUME InputSafe, Len(queue) <= QueueSize, read_char
  PROVE  InputSafe' /\ Len(queue') <= QueueSize /\ Len(buf') = Len(buf)
<1>1. UNCHANGED <<buf, stdin, dropped, cliGot, typed>>
  BY DEF read_char, console, user, debug
<1>2. CASE queue = <<>>
  <2>1. UNCHANGED <<got, queue>>
    BY <1>2 DEF read_char
  <2>2. InputStays
    BY <1>1, <2>1 DEF InputStays
  <2> QED  BY <1>1, <2>1, <2>2, InputKept DEF InputSafe
<1>3. CASE queue # <<>>
  <2>1. got' = Append(got, Head(queue)) /\ queue' = Tail(queue)
    BY <1>3 DEF read_char, pop_front
  <2>2. /\ got' \in Text /\ queue' \in Text /\ Len(queue') = Len(queue) - 1
        /\ Line(got', queue', buf, stdin, dropped \cup cliGot, typed)
    BY <1>3, <2>1, HeldLine, ReadByGuest
  <2>3. InputHeld'
    BY <1>1, <2>2 DEF InputHeld
  <2>4. Typed'
    BY <1>1, <2>2, HeldLine DEF Typed
  <2>5. Len(queue) \in Nat
    BY HeldLine, Elements
  <2> QED  BY <1>1, <2>2, <2>3, <2>4, <2>5, ConsoleAssumption DEF InputSafe
<1> QED  BY <1>2, <1>3

LEMMA InputToDebugger ==
  ASSUME InputSafe, getline
  PROVE  InputSafe' /\ Len(queue') = Len(queue) /\ Len(buf') = Len(buf)
<1>1. /\ stdin # <<>> /\ stdin' = Tail(stdin) /\ cliGot' = cliGot \cup {Head(stdin)}
      /\ UNCHANGED <<got, queue, buf, dropped, typed>>
  BY DEF getline, console, input
<1>2. /\ Head(stdin) \in Nat /\ stdin' \in Text
      /\ Line(got, queue, buf, stdin', (dropped \cup cliGot) \cup {Head(stdin)}, typed)
  BY <1>1, HeldLine, ReadByDebugger
<1>3. (dropped \cup cliGot) \cup {Head(stdin)} = dropped \cup cliGot'
  BY <1>1
<1>4. InputHeld'
  BY <1>1, <1>2, <1>3 DEF InputHeld
<1>5. Typed'
  BY <1>1, <1>2, HeldLine DEF Typed
<1> QED  BY <1>1, <1>4, <1>5 DEF InputSafe

LEMMA InputTyped ==
  ASSUME InputSafe, Type
  PROVE  InputSafe' /\ Len(queue') = Len(queue) /\ Len(buf') = Len(buf)
<1>1. /\ typed' = typed + 1 /\ stdin' = Append(stdin, typed + 1)
      /\ UNCHANGED <<got, queue, buf, dropped, cliGot>>
  BY DEF Type, console, input, debug
<1>2. stdin' \in Text /\ Line(got, queue, buf, stdin', dropped \cup cliGot, typed + 1)
  BY <1>1, HeldLine, TypedByUser
<1>3. InputHeld'
  BY <1>1, <1>2 DEF InputHeld
<1>4. Typed'
  BY <1>1, <1>2, HeldLine DEF Typed
<1> QED  BY <1>1, <1>3, <1>4 DEF InputSafe

(***************************************************************************)
(* Output, action by action.                                               *)
(***************************************************************************)
OutputSafe == Written /\ OutputHeld

LEMMA HeldOutput ==
  ASSUME OutputSafe
  PROVE  /\ screen \in Text /\ pipe \in Text /\ lost \subseteq Nat
         /\ written \in Nat /\ Len(pipe) \in Nat
         /\ Shown(screen, pipe, lost, written)
BY Elements DEF OutputSafe, Written, OutputHeld

LEMMA OutputProcessed ==
  ASSUME OutputSafe, Len(pipe) <= PipeSize, process_output
  PROVE  OutputSafe' /\ Len(pipe') <= PipeSize
<1>1. PICK n \in Nat : /\ n <= Len(pipe)
                       /\ screen' = screen \o SubSeq(pipe, 1, n)
                       /\ pipe' = SubSeq(pipe, n + 1, Len(pipe))
  BY OutputTakes DEF OutputSafe
<1>2. UNCHANGED <<lost, written>>
  BY DEF process_output
<1>3. /\ screen' \in Text /\ pipe' \in Text /\ Len(pipe') = Len(pipe) - n
      /\ Shown(screen', pipe', lost, written)
  BY <1>1, HeldOutput, ShownByConsole
<1>4. OutputHeld'
  BY <1>2, <1>3 DEF OutputHeld
<1>5. Written'
  BY <1>2, <1>3, HeldOutput DEF Written
<1>6. Len(pipe') <= PipeSize
  BY <1>1, <1>3, HeldOutput, ConsoleAssumption
<1> QED  BY <1>4, <1>5, <1>6 DEF OutputSafe

LEMMA OutputWritten ==
  ASSUME OutputSafe, Len(pipe) <= PipeSize, cpc = "start" => pipe = <<>>,
         NEW c, Follows(c, written, written'), WriteByte(c)
  PROVE  OutputSafe' /\ Len(pipe') <= PipeSize
<1>1. /\ c \in Nat /\ written' \in Nat
      /\ Append(pipe, c) \in Text /\ Len(Append(pipe, c)) = Len(pipe) + 1
      /\ Shown(screen, Append(pipe, c), lost, written')
      /\ Shown(screen, pipe, lost \cup {c}, written')
      /\ pipe = <<>> => Append(screen, c) \in Text
                        /\ Shown(Append(screen, c), pipe, lost, written')
  BY HeldOutput, CharacterWritten
<1>2. CASE cpc = "start"
  <2>1. screen' = Append(screen, c) /\ UNCHANGED <<pipe, lost>> /\ pipe = <<>>
    BY <1>2 DEF WriteByte
  <2>2. OutputHeld'
    BY <1>1, <2>1 DEF OutputHeld
  <2>3. Written'
    BY <1>1, <2>1, HeldOutput DEF Written
  <2> QED  BY <2>1, <2>2, <2>3 DEF OutputSafe
<1>3. CASE cpc # "start" /\ pipeOpen /\ Len(pipe) < PipeSize
  <2>1. pipe' = Append(pipe, c) /\ UNCHANGED <<screen, lost>>
    BY <1>3 DEF WriteByte
  <2>2. OutputHeld'
    BY <1>1, <2>1 DEF OutputHeld
  <2>3. Written'
    BY <1>1, <2>1, HeldOutput DEF Written
  <2>4. Len(pipe') <= PipeSize
    BY <1>1, <1>3, <2>1, HeldOutput, ConsoleAssumption
  <2> QED  BY <2>2, <2>3, <2>4 DEF OutputSafe
<1>4. CASE cpc # "start" /\ ~(pipeOpen /\ Len(pipe) < PipeSize)
  <2>1. lost' = lost \cup {c} /\ UNCHANGED <<screen, pipe>>
    BY <1>4 DEF WriteByte
  <2>2. OutputHeld'
    BY <1>1, <2>1 DEF OutputHeld
  <2>3. Written'
    BY <1>1, <2>1, HeldOutput DEF Written
  <2> QED  BY <2>1, <2>2, <2>3 DEF OutputSafe
<1> QED  BY <1>2, <1>3, <1>4

(***************************************************************************)
(* The invariant is kept.  Each group of actions changes one of the three: *)
(* the input, the output, or only the control state.                       *)
(***************************************************************************)
LEMMA LeftKept ==
  ASSUME Control, Places, Room, [Next]_vars
  PROVE  left' \in 0 .. InstStep
<1>1. left \in 0 .. InstStep /\ InstStep \in Nat
  BY ConsoleAssumption DEF Room
<1>2. \/ left' = left
      \/ left' = InstStep
      \/ left' = left - 1 /\ left > 0
  <2> USE DEF proc, Places
  <2>1. CASE ConsoleThread
    BY <2>1 DEF ConsoleThread, open_pipe, StartConsole, CheckRunning, Poll,
         process_output, CheckSuspended, ReadTerminal, LockQueue, PushChar,
         NotifyAndUnlock, ExitConsole
  <2>2. CASE wait_for_interrupt \/ PowerOff \/ shutdown
    BY <2>2 DEF wait_for_interrupt, SleepOnInterrupt, LockInterrupt, Wait,
         Timeout, Wake, UnlockInterrupt, PowerOff, shutdown, ShutdownSteps
  <2>3. CASE isr \/ read_char \/ write_char \/ OtherInstruction \/ EndStep
    BY <2>3 DEF isr, read_char, write_char, OtherInstruction, EndStep
  <2>4. CASE signal \/ Debugger
    BY <2>4 DEF Debugger, HitBreakpoint, signal, JumpTo, debug_enter, getline,
         debug_leave, cmd_quit
  <2>5. CASE Type \/ UNCHANGED vars
    BY <2>5 DEF Type, vars
  <2> QED  BY <2>1, <2>2, <2>3, <2>4, <2>5 DEF Next, ProcessorThread, Terminated
<1> QED  BY <1>1, <1>2

LEMMA InputStep ==
  ASSUME Inv, [Next]_vars
  PROVE  InputSafe' /\ Len(queue') <= QueueSize /\ Len(buf') <= BufSize
<1>1. InputSafe /\ Places /\ Len(queue) <= QueueSize /\ Len(buf) <= BufSize
      /\ Len(buf) \in Nat
  BY Elements DEF Inv, InputSafe, Room, Typed
<1>2. CASE ReadTerminal
  BY <1>1, <1>2, InputRead
<1>3. CASE PushChar
  BY <1>1, <1>3, InputPush, ConsoleAssumption
<1>4. CASE read_char
  BY <1>1, <1>4, InputPop
<1>5. CASE getline
  BY <1>1, <1>5, InputToDebugger
<1>6. CASE Type
  BY <1>1, <1>6, InputTyped
<1>7. ASSUME InputStays
      PROVE  InputSafe' /\ Len(queue') <= QueueSize /\ Len(buf') <= BufSize
  BY <1>1, <1>7, InputKept DEF InputSafe
<1>8. CASE open_pipe \/ StartConsole \/ CheckRunning \/ Poll \/ process_output
           \/ CheckSuspended \/ LockQueue \/ NotifyAndUnlock \/ ExitConsole
  <2>1. InputStays
    BY <1>8 DEF InputStays, open_pipe, StartConsole, CheckRunning, Poll,
         process_output, CheckSuspended, LockQueue, NotifyAndUnlock, ExitConsole,
         input, user, debug
  <2> QED  BY <1>7, <2>1
<1>9. CASE isr \/ write_char \/ OtherInstruction \/ EndStep \/ PowerOff \/ shutdown
  <2>1. InputStays
    BY <1>9 DEF InputStays, isr, write_char, OtherInstruction, EndStep, PowerOff,
         shutdown, ShutdownSteps, console, input, user, debug
  <2> QED  BY <1>7, <2>1
<1>10. CASE wait_for_interrupt
  <2>1. InputStays
    BY <1>10 DEF InputStays, wait_for_interrupt, SleepOnInterrupt, LockInterrupt,
         Wait, Timeout, Wake, UnlockInterrupt, console, input, user, debug
  <2> QED  BY <1>7, <2>1
<1>11. CASE HitBreakpoint \/ signal \/ debug_enter \/ debug_leave \/ cmd_quit
  <2>1. InputStays
    BY <1>11 DEF InputStays, HitBreakpoint, signal, debug_enter, debug_leave,
         cmd_quit, console, input, user, debug
  <2> QED  BY <1>7, <2>1
<1>12. CASE UNCHANGED vars
  <2>1. InputStays
    BY <1>12 DEF InputStays, vars, console, input, user, debug
  <2> QED  BY <1>7, <2>1
<1> QED
  BY <1>2, <1>3, <1>4, <1>5, <1>6, <1>8, <1>9, <1>10, <1>11, <1>12
  DEF Next, ConsoleThread, ProcessorThread, Debugger, Terminated

LEMMA OutputStep ==
  ASSUME Inv, [Next]_vars
  PROVE  OutputSafe' /\ Len(pipe') <= PipeSize
<1>1. OutputSafe /\ Places /\ Len(pipe) <= PipeSize /\ written \in Nat
  BY DEF Inv, OutputSafe, Room, Written
<1>2. CASE process_output
  BY <1>1, <1>2, OutputProcessed
<1>3. CASE write_char
  <2>1. WriteByte(written + 1) /\ written' = written + 1
    BY <1>3 DEF write_char
  <2>2. Follows(written + 1, written, written')
    BY <1>1, <2>1 DEF Follows
  <2>3. cpc = "start" => pipe = <<>>
    BY <1>1 DEF Places
  <2> QED  BY <1>1, <2>1, <2>2, <2>3, OutputWritten
<1>4. ASSUME OutputStays PROVE OutputSafe' /\ Len(pipe') <= PipeSize
  BY <1>1, <1>4, OutputKept DEF OutputSafe
<1>5. CASE shutdown
  <2>1. CASE ppc = "stop_byte"
    <3>1. WriteByte(0) /\ written' = written
      BY <1>5, <2>1 DEF shutdown, ShutdownSteps
    <3>2. Follows(0, written, written')
      BY <1>1, <3>1 DEF Follows
    <3> QED  BY <1>1, <3>1, <3>2, OutputWritten DEF Places
  <2>2. CASE ppc # "stop_byte"
    <3>1. OutputStays
      BY <1>5, <2>2 DEF OutputStays, shutdown, ShutdownSteps, output
    <3> QED  BY <1>4, <3>1
  <2> QED  BY <2>1, <2>2
<1>8. CASE open_pipe \/ StartConsole \/ CheckRunning \/ Poll \/ ReadTerminal
           \/ CheckSuspended \/ LockQueue \/ PushChar \/ NotifyAndUnlock \/ ExitConsole
  <2>1. OutputStays
    BY <1>8 DEF OutputStays, open_pipe, StartConsole, CheckRunning, Poll,
         ReadTerminal, CheckSuspended, LockQueue, PushChar, NotifyAndUnlock,
         ExitConsole, output
  <2> QED  BY <1>4, <2>1
<1>9. CASE isr \/ read_char \/ OtherInstruction \/ EndStep \/ PowerOff \/ Type
  <2>1. OutputStays
    BY <1>9 DEF OutputStays, isr, read_char, OtherInstruction, EndStep, PowerOff,
         Type, output
  <2> QED  BY <1>4, <2>1
<1>10. CASE wait_for_interrupt
  <2>1. OutputStays
    BY <1>10 DEF OutputStays, wait_for_interrupt, SleepOnInterrupt, LockInterrupt,
         Wait, Timeout, Wake, UnlockInterrupt, output
  <2> QED  BY <1>4, <2>1
<1>11. CASE signal \/ Debugger
  <2>1. OutputStays
    BY <1>11 DEF OutputStays, Debugger, HitBreakpoint, signal, debug_enter,
         getline, debug_leave, cmd_quit, output
  <2> QED  BY <1>4, <2>1
<1>12. CASE UNCHANGED vars
  <2>1. OutputStays
    BY <1>12 DEF OutputStays, vars, output
  <2> QED  BY <1>4, <2>1
<1> QED
  BY <1>2, <1>3, <1>5, <1>8, <1>9, <1>10, <1>11, <1>12
  DEF Next, ConsoleThread, ProcessorThread, Terminated

LEMMA InvStep ==
  ASSUME Inv, [Next]_vars
  PROVE  Inv'
<1>1. Control' /\ Places'
  BY ControlStep DEF Inv
<1>2. InputSafe' /\ Len(queue') <= QueueSize /\ Len(buf') <= BufSize
  BY InputStep
<1>3. OutputSafe' /\ Len(pipe') <= PipeSize
  BY OutputStep
<1>4. left' \in 0 .. InstStep
  BY LeftKept DEF Inv
<1>5. Room'
  BY <1>2, <1>3, <1>4 DEF Room
<1> QED  BY <1>1, <1>2, <1>3, <1>5 DEF Inv, InputSafe, OutputSafe

LEMMA InvHolds == Spec => []Inv
<1>1. Init => Inv
  BY InitInv
<1>2. Inv /\ [Next]_vars => Inv'
  BY InvStep
<1> QED  BY <1>1, <1>2, PTL DEF Spec

(* The parts in order make the whole in order. *)
LEMMA LineInOrder ==
  ASSUME InputSafe
  PROVE  InputInOrder
<1> DEFINE gq == got \o queue
           gqb == gq \o buf
           all == gqb \o stdin
<1>1. /\ got \in Text /\ queue \in Text /\ buf \in Text /\ stdin \in Text
      /\ Line(got, queue, buf, stdin, dropped \cup cliGot, typed)
  BY HeldLine
<1>2. gq \in Text /\ Ascending(gq) /\ ToSet(gq) = ToSet(got) \cup ToSet(queue)
  BY <1>1, JoinText DEF Line
<1> HIDE DEF gq
<1>3. Before(gq, buf) /\ Before(gq, stdin)
  BY <1>1, <1>2 DEF Line, Before
<1>4. gqb \in Text /\ Ascending(gqb) /\ ToSet(gqb) = ToSet(gq) \cup ToSet(buf)
  BY <1>1, <1>2, <1>3, JoinText DEF Line
<1> HIDE DEF gqb
<1>5. Before(gqb, stdin)
  BY <1>1, <1>3, <1>4 DEF Line, Before
<1>6. all \in Text /\ Ascending(all) /\ ToSet(all) = ToSet(gqb) \cup ToSet(stdin)
  BY <1>1, <1>4, <1>5, JoinText DEF Line
<1> HIDE DEF all
<1>7. ToSet(all) = ToSet(got) \cup ToSet(queue) \cup ToSet(buf) \cup ToSet(stdin)
  BY <1>2, <1>4, <1>6
<1>8. /\ ToSet(all) \cap (dropped \cup cliGot) = {}
      /\ ToSet(all) \cup (dropped \cup cliGot) = 1 .. typed
  BY <1>1, <1>7 DEF Line
<1>9. all = got \o queue \o buf \o stdin
  BY DEF all, gqb, gq
<1> QED  BY <1>6, <1>8, <1>9 DEF InputInOrder

LEMMA ShownInOrder ==
  ASSUME OutputSafe
  PROVE  OutputInOrder
<1>1. screen \in Text /\ pipe \in Text /\ Shown(screen, pipe, lost, written)
  BY HeldOutput
<1> DEFINE all == screen \o pipe
<1>2. Ascending(all) /\ ToSet(all) = ToSet(screen) \cup ToSet(pipe)
  BY <1>1, JoinText DEF Shown
<1> HIDE DEF all
<1>3. Ascending(all) /\ (ToSet(all) \cup lost) \ {0} = 1 .. written
  BY <1>1, <1>2 DEF Shown
<1> QED  BY <1>3 DEF OutputInOrder, all

(* What the user types reaches the guest, and what the guest writes reaches *)
(* the terminal, in order and without loss or duplication, except for what  *)
(* push_back or a full pipe refuses and what the debugger reads; and queue,  *)
(* pipe and buffers stay within their capacities: for any capacities, any   *)
(* interleaving of the threads, and any number of breakpoints and signals.  *)
THEOREM StreamsInOrder == Spec => []ConsoleInv
<1>1. Inv => ConsoleInv
  BY TypeSplit, LineInOrder, ShownInOrder DEF Inv, InputSafe, OutputSafe, ConsoleInv
<1> QED  BY <1>1, InvHolds, PTL

(***************************************************************************)
(* The terminal's mode.                                                    *)
(***************************************************************************)
LEMMA ModesStep ==
  ASSUME DebugStart = FALSE, Inv, ModesKept, [Next]_vars
  PROVE  ModesKept'
<1>1. CASE StartConsole
  BY <1>1 DEF StartConsole, configure_console, ModesKept, proc
<1>2. CASE ExitConsole
  BY <1>2 DEF ExitConsole, restore_console, ModesKept, proc
<1>3. CASE debug_enter
  BY <1>3 DEF debug_enter, restore_console, ModesKept, console
<1>4. CASE debug_leave
  BY <1>4 DEF debug_leave, configure_console, ModesKept, console, Inv, Places
<1>5. CASE cmd_quit
  BY <1>5 DEF cmd_quit, modes, ModesKept
<1>6. CASE open_pipe \/ CheckRunning \/ Poll \/ process_output \/ CheckSuspended
           \/ ReadTerminal \/ LockQueue \/ PushChar \/ NotifyAndUnlock
  BY <1>6 DEF open_pipe, CheckRunning, Poll, process_output, CheckSuspended,
       ReadTerminal, LockQueue, PushChar, NotifyAndUnlock, modes, proc, ModesKept
<1>7. CASE isr \/ read_char \/ write_char \/ OtherInstruction \/ EndStep \/ PowerOff
  BY <1>7 DEF isr, read_char, write_char, OtherInstruction, EndStep, PowerOff,
       modes, console, ModesKept
<1>8. CASE wait_for_interrupt
  BY <1>8 DEF wait_for_interrupt, SleepOnInterrupt, LockInterrupt, Wait, Timeout,
       Wake, UnlockInterrupt, modes, console, proc, ModesKept
<1>9. CASE shutdown
  BY <1>9 DEF shutdown, ShutdownSteps, modes, console, ModesKept
<1>10. CASE HitBreakpoint \/ getline \/ Type
  BY <1>10 DEF HitBreakpoint, getline, Type, modes, console, proc, ModesKept
<1>11. CASE signal
  <2>1. PICK sig \in Signals : ppc' = JumpTo[sig]
    BY <1>11 DEF signal
  <2>2. ppc' \in {"debug_enter", "run", "stop_flag"}
    BY <2>1 DEF JumpTo, Signals
  <2> QED  BY <1>11, <2>2 DEF signal, modes, console, ModesKept
<1>12. CASE UNCHANGED vars
  BY <1>12 DEF vars, modes, console, proc, ModesKept
<1> QED
  BY <1>1, <1>2, <1>3, <1>4, <1>5, <1>6, <1>7, <1>8, <1>9, <1>10, <1>11, <1>12
  DEF Next, ConsoleThread, ProcessorThread, Debugger, Terminated

(* Without --debug the terminal has its mode again when the program has     *)
(* ended, whether the guest powered off or the debugger quit, however often *)
(* restore_console and configure_console ran in either thread.  With --debug *)
(* the debugger may be entered before the console thread saved the mode.    *)
THEOREM ModeGivenBack ==
  ASSUME DebugStart = FALSE
  PROVE  Spec => []TerminalRestored
<1>1. Init => ModesKept
  BY DEF Init, ModesKept
<1>2. Inv /\ ModesKept /\ [Next]_vars => ModesKept'
  BY ModesStep
<1>3. Inv /\ ModesKept => TerminalRestored
  BY DEF Inv, Places, ModesKept, TerminalRestored
<1> QED  BY <1>1, <1>2, <1>3, InvHolds, PTL DEF Spec
=============================================================================
