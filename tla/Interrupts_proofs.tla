-------------------------- MODULE Interrupts_proofs --------------------------
(***************************************************************************)
(* What rv-sys promises of interrupts, for every length of a step, every   *)
(* guest of the model and any number of events, calls and resets.          *)
(***************************************************************************)
EXTENDS Interrupts, TLAPS, SequenceTheorems

(***************************************************************************)
(* The inductive invariant.                                                *)
(***************************************************************************)
Modes == {U, S, M}
Causes == {"none", "external", "timer", "software", "ecall"}
Stages == {"entry", "serve", "complete", "return"}
Frames == [mode : Modes, cause : Causes, at : Stages, irq : Int]
Statuses == [mie : BOOLEAN, mpie : BOOLEAN, mpp : Modes,
             sie : BOOLEAN, spie : BOOLEAN, spp : {U, S}]

(* What TypeOK leaves open. *)
Types ==
    /\ setup \in Setups /\ InstStep \in InstSteps
    /\ ctx \in Seq(Frames) /\ epc \in [Levels -> Int] /\ pc \in Int
    /\ timecmp \in Nat /\ gpio \in BOOLEAN /\ ipi \in BOOLEAN
    /\ arrived \in 0 .. MaxChars /\ chars <= arrived
    /\ resets \in Nat

(* Until a reset in a guest with supervisor interrupts. *)
Calm == resets = 0 \/ SEnabled = {}

(* The handlers at work are the frames behind the first. *)
Handlers == 2 .. Len(ctx)

(* Before it has booted, the guest cannot be interrupted. *)
Quiet == ctx = <<>> => ~status.mie /\ (SEnabled = {} \/ ~status.sie)

(* Traps are nested: the application first, and behind it at most one      *)
(* handler for each mode, which is what disables the mode's interrupts.    *)
AppFirst ==
    ctx # <<>> => ctx[1].mode = U /\ ctx[1].cause = "none" /\ ctx[1].at = "entry"

HandlersKnown ==
    \A i \in Handlers :
        /\ ctx[i].cause # "none" /\ ctx[i].mode \in {M, S}
        /\ (setup = "machine" => ctx[i].mode = M)
        /\ (setup = "supervisor" => ctx[i].mode = S)
        /\ (setup = "split" /\ ctx[i].cause = "external" => ctx[i].mode = S)
        /\ (ctx[i].at \in {"serve", "complete"} => ctx[i].cause = "external")

OnePerMode == \A i, j \in Handlers : ctx[i].mode = ctx[j].mode => i = j

Disabled(m, enabled, before) ==
    /\ (\A i \in Handlers : ctx[i].mode # m) => enabled
    /\ (\E i \in Handlers : ctx[i].mode = m) => ~enabled /\ before

Nested ==
    /\ AppFirst /\ HandlersKnown /\ OnePerMode
    /\ ctx # <<>> => Disabled(M, status.mie, status.mpie)
    /\ ctx # <<>> => Disabled(S, status.sie, status.spie)

(* A handler knows where to return to. *)
Placed ==
    ctx # <<>> =>
        /\ mode = ctx[Len(ctx)].mode /\ pc = 10 * Len(ctx)
        /\ (Len(ctx) = 2 /\ ctx[2].mode = M => epc["m"] = 10 /\ status.mpp = U)
        /\ (Len(ctx) = 2 /\ ctx[2].mode # M => epc["s"] = 10 /\ status.spp = U)

Inv == TypeOK /\ Types /\ (Calm => Quiet /\ Nested) /\ ServedIffHandled

(***************************************************************************)
(* The guest's stack of handlers.                                          *)
(***************************************************************************)
Pushes(s, t, m, c) ==
    /\ t \in Seq(Frames) /\ Len(t) = Len(s) + 1 /\ t # <<>>
    /\ \A i \in 1 .. Len(s) : t[i] = s[i]
    /\ t[Len(t)].mode = m /\ t[Len(t)].cause = c
    /\ t[Len(t)].at = "entry"

GoesOn(s, t, a, n) ==
    /\ t \in Seq(Frames) /\ Len(t) = Len(s) /\ t # <<>>
    /\ \A i \in 1 .. Len(s) : i # Len(s) => t[i] = s[i]
    /\ t[Len(s)].mode = s[Len(s)].mode /\ t[Len(s)].cause = s[Len(s)].cause
    /\ t[Len(s)].at = a /\ t[Len(s)].irq = n

Pops(s, t) ==
    /\ t \in Seq(Frames) /\ Len(t) = Len(s) - 1
    /\ \A i \in 1 .. Len(t) : t[i] = s[i]

LEMMA StackFacts ==
  ASSUME NEW s \in Seq(Frames)
  PROVE  /\ Len(s) \in Nat /\ (s = <<>> <=> Len(s) = 0)
         /\ \A i \in 1 .. Len(s) : s[i] \in Frames
         /\ s # <<>> => Len(s) \in 1 .. Len(s)
<1>1. Len(s) \in Nat /\ (s = <<>> <=> Len(s) = 0)
  BY EmptySeq, LenProperties
<1>2. \A i \in 1 .. Len(s) : s[i] \in Frames
  BY ElementOfSeq
<1> QED  BY <1>1, <1>2

LEMMA FrameParts ==
  ASSUME NEW f \in Frames
  PROVE  f.mode \in Modes /\ f.cause \in Causes /\ f.at \in Stages /\ f.irq \in Int
BY DEF Frames

LEMMA PushDoes ==
  ASSUME NEW s \in Seq(Frames), NEW m \in Modes, NEW c \in Causes
  PROVE  Pushes(s, Append(s, Frame(m, c)), m, c)
<1> DEFINE f == Frame(m, c)
           t == Append(s, f)
<1>1. f \in Frames /\ f.mode = m /\ f.cause = c /\ f.at = "entry"
  BY DEF Frame, Frames, Stages
<1> HIDE DEF f
<1>2. /\ t \in Seq(Frames) /\ Len(t) = Len(s) + 1 /\ t[Len(s) + 1] = f
      /\ \A i \in 1 .. Len(s) : t[i] = s[i]
  BY <1>1, AppendProperties
<1> HIDE DEF t
<1>3. t # <<>>
  BY <1>2, StackFacts
<1>4. Pushes(s, t, m, c)
  BY <1>1, <1>2, <1>3 DEF Pushes
<1> QED  BY <1>4 DEF t, f

(* A frame with another stage and number. *)
LEMMA FrameStage ==
  ASSUME NEW f \in Frames, NEW a \in Stages
  PROVE  LET g == [f EXCEPT !.at = a]
         IN  /\ g \in Frames /\ g.mode = f.mode /\ g.cause = f.cause
             /\ g.at = a /\ g.irq = f.irq
BY DEF Frames

LEMMA FrameClaim ==
  ASSUME NEW f \in Frames, NEW a \in Stages, NEW n \in Int
  PROVE  LET g == [[f EXCEPT !.at = a] EXCEPT !.irq = n]
         IN  /\ g \in Frames /\ g.mode = f.mode /\ g.cause = f.cause
             /\ g.at = a /\ g.irq = n
BY DEF Frames

LEMMA TopChanged ==
  ASSUME NEW s \in Seq(Frames), s # <<>>, NEW g \in Frames,
         g.mode = s[Len(s)].mode, g.cause = s[Len(s)].cause
  PROVE  GoesOn(s, [s EXCEPT ![Len(s)] = g], g.at, g.irq)
<1> DEFINE t == [s EXCEPT ![Len(s)] = g]
<1>1. /\ t \in Seq(Frames) /\ Len(t) = Len(s)
      /\ \A i \in 1 .. Len(s) : t[i] = IF i = Len(s) THEN g ELSE s[i]
  BY ExceptSeq
<1> HIDE DEF t
<1>2. Len(s) \in 1 .. Len(s) /\ Len(s) # 0
  BY StackFacts
<1>3. t # <<>>
  BY <1>1, <1>2, StackFacts
<1>4. t[Len(s)] = g /\ \A i \in 1 .. Len(s) : i # Len(s) => t[i] = s[i]
  BY <1>1, <1>2
<1>5. GoesOn(s, t, g.at, g.irq)
  BY <1>1, <1>3, <1>4 DEF GoesOn
<1> QED  BY <1>5 DEF t

LEMMA ContinueDoes ==
  ASSUME NEW s \in Seq(Frames), s # <<>>, NEW a \in Stages
  PROVE  GoesOn(s, [s EXCEPT ![Len(s)].at = a], a, s[Len(s)].irq)
<1> DEFINE f == s[Len(s)]
           g == [f EXCEPT !.at = a]
<1>1. f \in Frames
  BY StackFacts
<1>2. /\ g \in Frames /\ g.mode = f.mode /\ g.cause = f.cause
      /\ g.at = a /\ g.irq = f.irq
  BY <1>1, FrameStage
<1>3. [s EXCEPT ![Len(s)].at = a] = [s EXCEPT ![Len(s)] = g]
  OBVIOUS
<1> HIDE DEF g
<1>4. GoesOn(s, [s EXCEPT ![Len(s)] = g], g.at, g.irq)
  BY <1>2, TopChanged
<1> QED  BY <1>2, <1>3, <1>4

LEMMA ClaimDoes ==
  ASSUME NEW s \in Seq(Frames), s # <<>>, NEW n \in Int
  PROVE  GoesOn(s, [s EXCEPT ![Len(s)].at = "serve", ![Len(s)].irq = n], "serve", n)
<1> DEFINE f == s[Len(s)]
           g == [[f EXCEPT !.at = "serve"] EXCEPT !.irq = n]
<1>1. f \in Frames /\ Len(s) \in DOMAIN s
  BY StackFacts, LenProperties
<1>2. /\ g \in Frames /\ g.mode = f.mode /\ g.cause = f.cause
      /\ g.at = "serve" /\ g.irq = n
  BY <1>1, FrameClaim DEF Stages
<1>3. [s EXCEPT ![Len(s)].at = "serve", ![Len(s)].irq = n] = [s EXCEPT ![Len(s)] = g]
  BY <1>1
<1> HIDE DEF g
<1>4. GoesOn(s, [s EXCEPT ![Len(s)] = g], g.at, g.irq)
  BY <1>2, TopChanged
<1> QED  BY <1>2, <1>3, <1>4

LEMMA PopDoes ==
  ASSUME NEW s \in Seq(Frames), s # <<>>
  PROVE  Pops(s, Front(s)) /\ Last(s) = s[Len(s)]
<1>1. Len(s) \in Nat \ {0} /\ \A i \in 1 .. Len(s) : s[i] \in Frames
  BY StackFacts
<1> DEFINE n == Len(s) - 1
           t == SubSeq(s, 1, n)
<1>2. n \in Int /\ \A i \in 1 .. n : s[i] \in Frames
  BY <1>1
<1>3. /\ t \in Seq(Frames) /\ Len(t) = IF 1 <= n THEN n - 1 + 1 ELSE 0
      /\ \A i \in 1 .. n - 1 + 1 : t[i] = s[1 + i - 1]
  BY <1>2, SubSeqProperties
<1>4. t = Front(s)
  BY DEF Front
<1> HIDE DEF t
<1>5. n \in Nat /\ n = Len(s) - 1
  BY <1>1
<1> HIDE DEF n
<1>6. n - 1 + 1 = n /\ (1 <= n \/ n = 0) /\ \A i \in 1 .. n : 1 + i - 1 = i
  BY <1>5
<1>7. Len(t) = n
  BY <1>3, <1>6
<1>8. \A i \in 1 .. n : t[i] = s[i]
  BY <1>3, <1>6
<1> QED  BY <1>3, <1>4, <1>5, <1>7, <1>8 DEF Pops, Last

(***************************************************************************)
(* The interrupts that handlers are working on.                            *)
(***************************************************************************)
Work(s) == {j \in 1 .. Len(s) : /\ s[j].cause = "external"
                                /\ s[j].at \in {"serve", "complete"}}

Marked(s) == {s[i].irq - 1 : i \in Work(s)}

LEMMA ServedMarked == ServedIffHandled <=> (resets = 0 => served = Marked(ctx))
BY DEF ServedIffHandled, Marked, Work

LEMMA SameWork ==
  ASSUME NEW s, NEW t, Work(t) = Work(s), \A i \in Work(s) : t[i] = s[i]
  PROVE  Marked(t) = Marked(s)
BY DEF Marked

LEMMA NoWork ==
  ASSUME NEW s, Work(s) = {}
  PROVE  Marked(s) = {}
BY DEF Marked

LEMMA OneWork ==
  ASSUME NEW s, NEW k, Work(s) = {k}
  PROVE  Marked(s) = {s[k].irq - 1}
BY DEF Marked

LEMMA PushKeepsWork ==
  ASSUME NEW s \in Seq(Frames), NEW t, NEW m, NEW c, Pushes(s, t, m, c)
  PROVE  Marked(t) = Marked(s)
<1>1. Len(s) \in Nat
  BY StackFacts
<1>2. \A i \in 1 .. Len(t) : i \in 1 .. Len(s) \/ i = Len(t)
  BY <1>1 DEF Pushes
<1>3. 1 .. Len(s) \subseteq 1 .. Len(t)
  BY <1>1 DEF Pushes
<1>4. \A i \in 1 .. Len(s) : t[i] = s[i]
  BY DEF Pushes
<1>5. Len(t) \notin Work(t)
  BY DEF Pushes, Work
<1>6. Work(t) = Work(s)
  BY <1>2, <1>3, <1>4, <1>5 DEF Work
<1>7. \A i \in Work(s) : t[i] = s[i]
  BY <1>4 DEF Work
<1> QED  BY <1>6, <1>7, SameWork

LEMMA PopKeepsWork ==
  ASSUME NEW s \in Seq(Frames), NEW t, s # <<>>, Pops(s, t), Len(s) \notin Work(s)
  PROVE  Marked(t) = Marked(s)
<1>1. Len(s) \in Nat \ {0}
  BY StackFacts
<1>2. \A i \in 1 .. Len(s) : i \in 1 .. Len(t) \/ i = Len(s)
  BY <1>1 DEF Pops
<1>3. 1 .. Len(t) \subseteq 1 .. Len(s)
  BY <1>1 DEF Pops
<1>4. \A i \in 1 .. Len(t) : t[i] = s[i]
  BY DEF Pops
<1>6. Work(t) = Work(s)
  BY <1>2, <1>3, <1>4 DEF Work
<1>7. \A i \in Work(s) : t[i] = s[i]
  BY <1>4, <1>6 DEF Work
<1> QED  BY <1>6, <1>7, SameWork

(* The last frame goes on: what the others do stays. *)
LEMMA TopWork ==
  ASSUME NEW s \in Seq(Frames), NEW t, NEW a, NEW n, s # <<>>, GoesOn(s, t, a, n)
  PROVE  /\ Work(t) \ {Len(s)} = Work(s) \ {Len(s)}
         /\ \A i \in Work(s) \ {Len(s)} : t[i] = s[i]
         /\ (Len(s) \in Work(t) <=> s[Len(s)].cause = "external"
                                    /\ a \in {"serve", "complete"})
         /\ (Len(s) \in Work(s) <=> s[Len(s)].cause = "external"
                                    /\ s[Len(s)].at \in {"serve", "complete"})
<1>1. Len(s) \in 1 .. Len(s)
  BY StackFacts
<1> QED  BY <1>1 DEF GoesOn, Work

(***************************************************************************)
(* Traps and returns, field by field.                                      *)
(***************************************************************************)
SameS(u, s) == u.sie = s.sie /\ u.spie = s.spie /\ u.spp = s.spp
SameM(u, s) == u.mie = s.mie /\ u.mpie = s.mpie /\ u.mpp = s.mpp

LEMMA StatusParts ==
  ASSUME NEW s \in Statuses
  PROVE  /\ s.mie \in BOOLEAN /\ s.mpie \in BOOLEAN /\ s.mpp \in Modes
         /\ s.sie \in BOOLEAN /\ s.spie \in BOOLEAN /\ s.spp \in {U, S}
BY DEF Statuses

LEMMA MTrapStatus ==
  ASSUME NEW s \in Statuses, NEW m \in Modes
  PROVE  LET u == [s EXCEPT !.mpp = m, !.mpie = s.mie, !.mie = FALSE]
         IN  u \in Statuses /\ u.mie = FALSE /\ u.mpie = s.mie /\ u.mpp = m /\ SameS(u, s)
BY DEF Statuses, SameS

LEMMA STrapStatus ==
  ASSUME NEW s \in Statuses, NEW m \in {U, S}
  PROVE  LET u == [s EXCEPT !.spp = m, !.spie = s.sie, !.sie = FALSE]
         IN  u \in Statuses /\ u.sie = FALSE /\ u.spie = s.sie /\ u.spp = m /\ SameM(u, s)
BY DEF Statuses, SameM

LEMMA MRetStatus ==
  ASSUME NEW s \in Statuses
  PROVE  LET u == [s EXCEPT !.mpp = U, !.mie = s.mpie, !.mpie = FALSE]
         IN  u \in Statuses /\ u.mie = s.mpie /\ SameS(u, s)
BY DEF Statuses, SameS, Modes

LEMMA SRetStatus ==
  ASSUME NEW s \in Statuses
  PROVE  LET u == [s EXCEPT !.spp = U, !.sie = s.spie, !.spie = FALSE]
         IN  u \in Statuses /\ u.sie = s.spie /\ SameM(u, s)
BY DEF Statuses, SameM

LEMMA ResetStatus ==
  ASSUME NEW s \in Statuses
  PROVE  LET u == [s EXCEPT !.mie = FALSE]
         IN  u \in Statuses /\ u.mie = FALSE /\ SameS(u, s)
BY DEF Statuses, SameS

(* The processor's part of the types. *)
Cpu == /\ mode \in Modes /\ status \in Statuses /\ ctx \in Seq(Frames)
       /\ epc \in [Levels -> Int] /\ pc \in Int

TookM(c) ==
    /\ Cpu' /\ Pushes(ctx, ctx', M, c)
    /\ status'.mie = FALSE /\ status'.mpie = status.mie /\ status'.mpp = mode
    /\ SameS(status', status)
    /\ epc'["m"] = pc /\ mode' = M /\ pc' = 10 * (Len(ctx) + 1)

TookS(c) ==
    /\ Cpu' /\ Pushes(ctx, ctx', S, c)
    /\ status'.sie = FALSE /\ status'.spie = status.sie
    /\ status'.spp = mode % 2
    /\ SameM(status', status)
    /\ epc'["s"] = pc /\ mode' = S /\ pc' = 10 * (Len(ctx) + 1)

LEMMA EpcSet ==
  ASSUME NEW e \in [Levels -> Int], NEW l \in Levels, NEW p \in Int
  PROVE  [e EXCEPT ![l] = p] \in [Levels -> Int] /\ [e EXCEPT ![l] = p][l] = p
OBVIOUS

LEMMA MTrapDoes ==
  ASSUME Cpu, NEW c \in Causes, mtrap(c)
  PROVE  TookM(c)
<1>1. M \in Modes /\ "m" \in Levels
  BY DEF Modes, Levels
<1>2. Pushes(ctx, ctx', M, c) /\ ctx' \in Seq(Frames)
  BY <1>1, PushDoes DEF mtrap, Cpu, Pushes
<1>3. /\ status' \in Statuses /\ status'.mie = FALSE /\ status'.mpie = status.mie
      /\ status'.mpp = mode /\ SameS(status', status)
  BY MTrapStatus DEF mtrap, Cpu
<1>4. epc' \in [Levels -> Int] /\ epc'["m"] = pc
  BY <1>1, EpcSet DEF mtrap, Cpu
<1>5. mode' = M /\ pc' = 10 * (Len(ctx) + 1)
  BY DEF mtrap
<1>6. pc' \in Int
  BY <1>5, StackFacts DEF Cpu
<1> QED  BY <1>1, <1>2, <1>3, <1>4, <1>5, <1>6 DEF TookM, Cpu

LEMMA STrapDoes ==
  ASSUME Cpu, NEW c \in Causes, strap(c)
  PROVE  TookS(c)
<1>1. S \in Modes /\ "s" \in Levels
  BY DEF Modes, Levels
<1>2. Pushes(ctx, ctx', S, c) /\ ctx' \in Seq(Frames)
  BY <1>1, PushDoes DEF strap, Cpu, Pushes
<1>3. mode % 2 \in {U, S}
  BY DEF Cpu, Modes, U, S, M
<1>4. /\ status' \in Statuses /\ status'.sie = FALSE /\ status'.spie = status.sie
      /\ status'.spp = mode % 2 /\ SameM(status', status)
  BY <1>3, STrapStatus DEF strap, Cpu
<1>5. epc' \in [Levels -> Int] /\ epc'["s"] = pc
  BY <1>1, EpcSet DEF strap, Cpu
<1>6. mode' = S /\ pc' = 10 * (Len(ctx) + 1)
  BY DEF strap
<1>7. pc' \in Int
  BY <1>6, StackFacts DEF Cpu
<1> QED  BY <1>1, <1>2, <1>4, <1>5, <1>6, <1>7 DEF TookS, Cpu

(* Return, by the mode of the handler. *)
Returned ==
    /\ Cpu' /\ Pops(ctx, ctx') /\ ctx # <<>> /\ ctx[Len(ctx)].at = "return"
    /\ epc' = epc
    /\ \/ /\ ctx[Len(ctx)].mode = M /\ mode' = status.mpp /\ pc' = epc["m"]
          /\ status'.mie = status.mpie /\ SameS(status', status)
       \/ /\ ctx[Len(ctx)].mode # M /\ mode' = status.spp /\ pc' = epc["s"]
          /\ status'.sie = status.spie /\ SameM(status', status)

LEMMA ReturnDoes ==
  ASSUME Cpu, Return
  PROVE  Returned /\ served' = served /\ resets' = resets
<1>1. ctx # <<>> /\ Top.at = "return" /\ ctx' = Front(ctx) /\ epc' = epc
      /\ served' = served /\ resets' = resets
  BY DEF Return, plic, counts
<1>2. Pops(ctx, ctx') /\ Top = ctx[Len(ctx)] /\ ctx' \in Seq(Frames)
  BY <1>1, PopDoes DEF Cpu, Pops, Top
<1>3. CASE Top.mode = M
  <2>1. mret
    BY <1>3 DEF Return
  <2>2. mode' = status.mpp /\ pc' = epc["m"] /\ mode' \in Modes /\ pc' \in Int
    BY <2>1, StatusParts DEF mret, Cpu, Levels
  <2>3. status' \in Statuses /\ status'.mie = status.mpie /\ SameS(status', status)
    BY <2>1, MRetStatus DEF mret, Cpu
  <2> QED  BY <1>1, <1>2, <1>3, <2>2, <2>3 DEF Returned, Cpu
<1>4. CASE Top.mode # M
  <2>1. sret
    BY <1>4 DEF Return
  <2>2. mode' = status.spp /\ pc' = epc["s"] /\ mode' \in Modes /\ pc' \in Int
    BY <2>1, StatusParts DEF sret, Cpu, Levels, Modes
  <2>3. status' \in Statuses /\ status'.sie = status.spie /\ SameM(status', status)
    BY <2>1, SRetStatus DEF sret, Cpu
  <2> QED  BY <1>1, <1>2, <1>4, <2>2, <2>3 DEF Returned, Cpu
<1> QED  BY <1>3, <1>4

(***************************************************************************)
(* Traps stay nested.                                                      *)
(***************************************************************************)
MayM(c) ==
    /\ ctx # <<>> /\ c \in Causes \ {"none"}
    /\ \A i \in Handlers : ctx[i].mode # M
    /\ setup # "supervisor" /\ (setup = "split" => c # "external")

MayS(c) ==
    /\ ctx # <<>> /\ c \in Causes \ {"none"}
    /\ \A i \in Handlers : ctx[i].mode # S
    /\ setup # "machine"

LEMMA ModesDiffer == U # S /\ S # M /\ U # M
BY DEF U, S, M

LEMMA NestM ==
  ASSUME Cpu, Nested, NEW c, MayM(c), TookM(c), setup' = setup
  PROVE  (Quiet /\ Nested)'
<1> DEFINE n == Len(ctx)
<1>1. n \in Nat /\ n > 0 /\ Handlers = 2 .. n
  BY StackFacts DEF Cpu, MayM, Handlers
<1>2. /\ Len(ctx') = n + 1 /\ Handlers' = 2 .. n + 1 /\ ctx' # <<>>
      /\ \A i \in 1 .. n : ctx'[i] = ctx[i]
      /\ ctx'[n + 1].mode = M /\ ctx'[n + 1].cause = c /\ ctx'[n + 1].at = "entry"
  BY DEF TookM, Pushes, Handlers
<1> HIDE DEF n
<1>3. /\ \A i \in 2 .. n + 1 : i \in 2 .. n \/ i = n + 1
      /\ n + 1 \in 2 .. n + 1 /\ n + 1 \notin 2 .. n
      /\ 2 .. n \subseteq 2 .. n + 1 /\ 2 .. n \subseteq 1 .. n /\ 1 \in 1 .. n
  BY <1>1
<1>4. \A i \in 2 .. n : ctx'[i] = ctx[i]
  BY <1>2, <1>3
<1>5. AppFirst'
  BY <1>2, <1>3 DEF AppFirst, Nested, MayM
<1>6. HandlersKnown'
  <2>1. \A i \in 2 .. n :
        /\ ctx'[i].cause # "none" /\ ctx'[i].mode \in {M, S}
        /\ (setup = "machine" => ctx'[i].mode = M)
        /\ (setup = "supervisor" => ctx'[i].mode = S)
        /\ (setup = "split" /\ ctx'[i].cause = "external" => ctx'[i].mode = S)
        /\ (ctx'[i].at \in {"serve", "complete"} => ctx'[i].cause = "external")
    BY <1>1, <1>4 DEF HandlersKnown, Nested
  <2> QED  BY <1>2, <1>3, <2>1 DEF HandlersKnown, MayM
<1>7. OnePerMode'
  <2>1. \A i \in 2 .. n : ctx'[i].mode # M
    BY <1>1, <1>4 DEF MayM
  <2>2. \A i, j \in 2 .. n : ctx'[i].mode = ctx'[j].mode => i = j
    BY <1>1, <1>4 DEF OnePerMode, Nested
  <2> QED  BY <1>2, <1>3, <2>1, <2>2 DEF OnePerMode
<1>8. status.mie
  BY DEF Nested, Disabled, MayM
<1>9. (ctx # <<>> => Disabled(M, status.mie, status.mpie))'
  BY <1>2, <1>3, <1>8 DEF Disabled, TookM
<1>10. (\E i \in Handlers' : ctx'[i].mode = S) <=> (\E i \in Handlers : ctx[i].mode = S)
  BY <1>1, <1>2, <1>3, <1>4, ModesDiffer
<1>11. (ctx # <<>> => Disabled(S, status.sie, status.spie))'
  BY <1>10 DEF Disabled, TookM, SameS, Nested, MayM
<1> QED  BY <1>2, <1>5, <1>6, <1>7, <1>9, <1>11 DEF Nested, Quiet

LEMMA NestS ==
  ASSUME Cpu, Nested, NEW c, MayS(c), TookS(c), setup' = setup
  PROVE  (Quiet /\ Nested)'
<1> DEFINE n == Len(ctx)
<1>1. n \in Nat /\ n > 0 /\ Handlers = 2 .. n
  BY StackFacts DEF Cpu, MayS, Handlers
<1>2. /\ Len(ctx') = n + 1 /\ Handlers' = 2 .. n + 1 /\ ctx' # <<>>
      /\ \A i \in 1 .. n : ctx'[i] = ctx[i]
      /\ ctx'[n + 1].mode = S /\ ctx'[n + 1].cause = c /\ ctx'[n + 1].at = "entry"
  BY DEF TookS, Pushes, Handlers
<1> HIDE DEF n
<1>3. /\ \A i \in 2 .. n + 1 : i \in 2 .. n \/ i = n + 1
      /\ n + 1 \in 2 .. n + 1 /\ n + 1 \notin 2 .. n
      /\ 2 .. n \subseteq 2 .. n + 1 /\ 2 .. n \subseteq 1 .. n /\ 1 \in 1 .. n
  BY <1>1
<1>4. \A i \in 2 .. n : ctx'[i] = ctx[i]
  BY <1>2, <1>3
<1>5. AppFirst'
  BY <1>2, <1>3 DEF AppFirst, Nested, MayS
<1>6. HandlersKnown'
  <2>1. \A i \in 2 .. n :
        /\ ctx'[i].cause # "none" /\ ctx'[i].mode \in {M, S}
        /\ (setup = "machine" => ctx'[i].mode = M)
        /\ (setup = "supervisor" => ctx'[i].mode = S)
        /\ (setup = "split" /\ ctx'[i].cause = "external" => ctx'[i].mode = S)
        /\ (ctx'[i].at \in {"serve", "complete"} => ctx'[i].cause = "external")
    BY <1>1, <1>4 DEF HandlersKnown, Nested
  <2> QED  BY <1>2, <1>3, <2>1 DEF HandlersKnown, MayS
<1>7. OnePerMode'
  <2>1. \A i \in 2 .. n : ctx'[i].mode # S
    BY <1>1, <1>4 DEF MayS
  <2>2. \A i, j \in 2 .. n : ctx'[i].mode = ctx'[j].mode => i = j
    BY <1>1, <1>4 DEF OnePerMode, Nested
  <2> QED  BY <1>2, <1>3, <2>1, <2>2 DEF OnePerMode
<1>8. status.sie
  BY DEF Nested, Disabled, MayS
<1>9. (ctx # <<>> => Disabled(S, status.sie, status.spie))'
  BY <1>2, <1>3, <1>8 DEF Disabled, TookS
<1>10. (\E i \in Handlers' : ctx'[i].mode = M) <=> (\E i \in Handlers : ctx[i].mode = M)
  BY <1>1, <1>2, <1>3, <1>4, ModesDiffer
<1>11. (ctx # <<>> => Disabled(M, status.mie, status.mpie))'
  BY <1>10 DEF Disabled, TookS, SameM, Nested, MayS
<1> QED  BY <1>2, <1>5, <1>6, <1>7, <1>9, <1>11 DEF Nested, Quiet

(* A handler goes on. *)
LEMMA NestOn ==
  ASSUME Cpu, Nested, ctx # <<>>, NEW a \in Stages, NEW k,
         GoesOn(ctx, ctx', a, k), status' = status, setup' = setup,
         ctx[Len(ctx)].cause # "none",
         a \in {"serve", "complete"} => ctx[Len(ctx)].cause = "external"
  PROVE  (Quiet /\ Nested)'
<1> DEFINE n == Len(ctx)
<1>1. n \in Nat /\ n > 0 /\ Handlers = 2 .. n
  BY StackFacts DEF Cpu, Handlers
<1>2. /\ Handlers' = 2 .. n /\ ctx' # <<>>
      /\ \A i \in 1 .. n : i # n => ctx'[i] = ctx[i]
      /\ ctx'[n].mode = ctx[n].mode /\ ctx'[n].cause = ctx[n].cause
      /\ ctx'[n].at = a
  BY DEF GoesOn, Handlers
<1> HIDE DEF n
<1>3. 2 .. n \subseteq 1 .. n /\ 1 \in 1 .. n
  BY <1>1
<1>4. n # 1
  BY DEF Nested, AppFirst, n
<1>5. AppFirst'
  BY <1>2, <1>3, <1>4 DEF AppFirst, Nested
<1>6. \A i \in 2 .. n : ctx'[i].mode = ctx[i].mode /\ ctx'[i].cause = ctx[i].cause
                        /\ (i # n => ctx'[i].at = ctx[i].at)
  BY <1>2, <1>3
<1>7. HandlersKnown'
  <2>1. \A i \in 2 .. n : ctx'[i].at \in {"serve", "complete"} => ctx'[i].cause = "external"
    BY <1>1, <1>2, <1>6 DEF HandlersKnown, Nested, n
  <2> QED  BY <1>1, <1>2, <1>6, <2>1 DEF HandlersKnown, Nested
<1>8. OnePerMode'
  BY <1>1, <1>2, <1>6 DEF OnePerMode, Nested
<1>9. (ctx # <<>> => Disabled(M, status.mie, status.mpie))'
  BY <1>1, <1>2, <1>6 DEF Disabled, Nested
<1>10. (ctx # <<>> => Disabled(S, status.sie, status.spie))'
  BY <1>1, <1>2, <1>6 DEF Disabled, Nested
<1> QED  BY <1>2, <1>5, <1>7, <1>8, <1>9, <1>10 DEF Nested, Quiet

(* A handler returns. *)
LEMMA NestBack ==
  ASSUME Cpu, Nested, Returned, setup' = setup
  PROVE  (Quiet /\ Nested)'
<1> DEFINE n == Len(ctx)
<1>1. n \in Nat /\ n > 0 /\ Handlers = 2 .. n
  BY StackFacts DEF Cpu, Handlers, Returned
<1>2. /\ Handlers' = 2 .. n - 1 /\ Len(ctx') = n - 1
      /\ (\A i \in 1 .. n - 1 : ctx'[i] = ctx[i]) /\ ctx[n].at = "return"
  BY DEF Returned, Pops, Handlers
<1>3. n # 1
  BY <1>2 DEF Nested, AppFirst, Returned
<1> HIDE DEF n
<1>4. /\ 2 .. n - 1 \subseteq 2 .. n /\ 2 .. n - 1 \subseteq 1 .. n - 1
      /\ 1 \in 1 .. n - 1 /\ n \in 2 .. n /\ n \notin 2 .. n - 1
      /\ \A i \in 2 .. n : i = n \/ i \in 2 .. n - 1
  BY <1>1, <1>3
<1>5. ctx' # <<>>
  BY <1>1, <1>2, <1>3, StackFacts DEF Returned, Pops
<1>6. \A i \in 2 .. n - 1 : ctx'[i] = ctx[i]
  BY <1>2, <1>4
<1>7. AppFirst'
  BY <1>2, <1>4, <1>5 DEF AppFirst, Nested, Returned
<1>8. HandlersKnown'
  BY <1>1, <1>2, <1>4, <1>6 DEF HandlersKnown, Nested
<1>9. OnePerMode'
  BY <1>1, <1>2, <1>4, <1>6 DEF OnePerMode, Nested
<1>10. \A i \in 2 .. n - 1 : ctx'[i].mode # ctx[n].mode
  BY <1>1, <1>4, <1>6 DEF OnePerMode, Nested
<1>11. ctx[n].mode \in {M, S}
  BY <1>1, <1>4 DEF HandlersKnown, Nested
<1>12. CASE ctx[n].mode = M
  <2>1. status'.mie = status.mpie /\ SameS(status', status)
    BY <1>12 DEF Returned, n
  <2>2. status.mpie
    BY <1>1, <1>4, <1>12 DEF Nested, Disabled, Returned
  <2>3. \A i \in Handlers' : ctx'[i].mode # M
    BY <1>2, <1>10, <1>12
  <2>4. (\E i \in Handlers' : ctx'[i].mode = S) <=> (\E i \in Handlers : ctx[i].mode = S)
    BY <1>1, <1>2, <1>4, <1>6, <1>12, ModesDiffer
  <2>5. Disabled(M, status.mie, status.mpie)'
    BY <2>1, <2>2, <2>3 DEF Disabled
  <2>6. Disabled(S, status.sie, status.spie)'
    BY <2>1, <2>4 DEF Disabled, SameS, Nested, Returned
  <2> QED  BY <1>5, <1>7, <1>8, <1>9, <2>5, <2>6 DEF Nested, Quiet
<1>13. CASE ctx[n].mode = S
  <2>1. status'.sie = status.spie /\ SameM(status', status)
    BY <1>13, ModesDiffer DEF Returned, n
  <2>2. status.spie
    BY <1>1, <1>4, <1>13 DEF Nested, Disabled, Returned
  <2>3. \A i \in Handlers' : ctx'[i].mode # S
    BY <1>2, <1>10, <1>13
  <2>4. (\E i \in Handlers' : ctx'[i].mode = M) <=> (\E i \in Handlers : ctx[i].mode = M)
    BY <1>1, <1>2, <1>4, <1>6, <1>13, ModesDiffer
  <2>5. Disabled(S, status.sie, status.spie)'
    BY <2>1, <2>2, <2>3 DEF Disabled
  <2>6. Disabled(M, status.mie, status.mpie)'
    BY <2>1, <2>4 DEF Disabled, SameM, Nested, Returned
  <2> QED  BY <1>5, <1>7, <1>8, <1>9, <2>5, <2>6 DEF Nested, Quiet
<1> QED  BY <1>11, <1>12, <1>13

(***************************************************************************)
(* isr.                                                                    *)
(***************************************************************************)
TookAt(level, c) ==
    \/ /\ level = "m" /\ EnabledLevel(c) = "m" /\ TookM(c)
    \/ /\ level = "s" /\ EnabledLevel(c) = "s" /\ TookS(c)

LEMMA LevelTrap ==
  ASSUME Cpu, NEW c \in Kinds, EnabledLevel(c) # "none", TrapTo(EnabledLevel(c), c)
  PROVE  \E l \in Levels : TookAt(l, c)
<1>1. c \in Causes
  BY DEF Kinds, Causes
<1>2. CASE EnabledLevel(c) = "m"
  <2>1. TookM(c)
    BY <1>1, <1>2, MTrapDoes DEF TrapTo
  <2> QED  BY <1>2, <2>1 DEF TookAt, Levels
<1>3. CASE EnabledLevel(c) = "s"
  <2>1. TookS(c)
    BY <1>1, <1>3, STrapDoes DEF TrapTo
  <2> QED  BY <1>3, <2>1 DEF TookAt, Levels
<1> QED  BY <1>2, <1>3 DEF EnabledLevel

PendingBits == SUBSET (Levels \X Kinds)

LEMMA PendingType ==
  ASSUME NEW b \in PendingBits, NEW k \in Kinds, NEW on
  PROVE  SetPending(b, k, on) \in PendingBits
BY DEF SetPending, PendingBits, Levels

(* What isr does to the processor, and to the timer. *)
LEMMA IsrDoes ==
  ASSUME Cpu, mip \in PendingBits, isr
  PROVE  /\ NoTrap \/ \E c \in Kinds, l \in Levels : TookAt(l, c)
         /\ mip' \in PendingBits
         /\ claimed' \in {claimed, time'}
<1> DEFINE eip == irq_pending
           tip == timer_pending(time')
           sip == ipi \/ chars > 0
           ext == EnabledLevel("external")
           tim == EnabledLevel("timer")
           sft == EnabledLevel("software")
           mip1 == SetPending(mip, "external", eip)
           mip2 == SetPending(mip1, "timer", tip)
           mip3 == SetPending(mip2, "software", sip)
<1>1. \/ /\ eip /\ ext # "none"
         /\ TrapTo(ext, "external") /\ mip' = mip1
         /\ UNCHANGED claimed
      \/ /\ claimed' = IF tip THEN time' ELSE claimed
         /\ \/ tim # "none" /\ TrapTo(tim, "timer") /\ mip' = mip2
            \/ mip' = mip3 /\ sft # "none" /\ TrapTo(sft, "software")
            \/ mip' = mip3 /\ NoTrap
  BY DEF isr
<1>2. {"external", "timer", "software"} \subseteq Kinds
  BY DEF Kinds
<1>3. mip1 \in PendingBits /\ mip2 \in PendingBits /\ mip3 \in PendingBits
  <2>1. mip1 \in PendingBits
    BY <1>2, PendingType
  <2> HIDE DEF mip1
  <2>2. mip2 \in PendingBits
    BY <1>2, <2>1, PendingType
  <2> HIDE DEF mip2
  <2>3. mip3 \in PendingBits
    BY <1>2, <2>2, PendingType
  <2> QED  BY <2>1, <2>2, <2>3
<1> HIDE DEF mip1, mip2, mip3, eip, tip, sip
<1>4. ASSUME NEW c \in Kinds, EnabledLevel(c) # "none", TrapTo(EnabledLevel(c), c)
      PROVE  \E d \in Kinds, l \in Levels : TookAt(l, d)
  BY <1>4, LevelTrap
<1>5. NoTrap \/ \E c \in Kinds, l \in Levels : TookAt(l, c)
  BY <1>1, <1>2, <1>4
<1>6. mip' \in PendingBits
  BY <1>1, <1>3
<1>7. claimed' \in {claimed, time'}
  BY <1>1
<1> QED  BY <1>5, <1>6, <1>7

LEMMA EnabledBySetup ==
  /\ setup = "machine" => MEnabled = Kinds /\ SEnabled = {}
  /\ setup = "supervisor" => MEnabled = {} /\ SEnabled = Kinds
  /\ setup = "split" => MEnabled = {"timer"} /\ SEnabled = {"external"}
<1>1. setup = "machine" => MEnabled = Kinds /\ SEnabled = {}
  BY DEF MEnabled, SEnabled
<1>2. setup = "supervisor" => MEnabled = {} /\ SEnabled = Kinds
  BY DEF MEnabled, SEnabled
<1>3. setup = "split" => MEnabled = {"timer"} /\ SEnabled = {"external"}
  BY DEF MEnabled, SEnabled
<1> QED  BY <1>1, <1>2, <1>3

(* An interrupt that is taken is one the invariant allows. *)
LEMMA TookAllowed ==
  ASSUME Types, Quiet, Nested, NEW c \in Kinds, NEW l \in Levels, TookAt(l, c)
  PROVE  (MayM(c) /\ TookM(c)) \/ (MayS(c) /\ TookS(c))
<1>1. setup \in {"machine", "supervisor", "split"}
  BY InterruptsAssumption DEF Types
<1>2. c \in Causes \ {"none"}
  BY DEF Kinds, Causes
<1>3. CASE l = "m"
  <2>1. status.mie /\ c \in MEnabled /\ TookM(c)
    BY <1>3 DEF TookAt, EnabledLevel
  <2>2. ctx # <<>>
    BY <2>1 DEF Quiet
  <2>3. \A i \in Handlers : ctx[i].mode # M
    BY <2>1, <2>2 DEF Nested, Disabled
  <2>4. setup # "supervisor" /\ (setup = "split" => c # "external")
    BY <1>1, <2>1, EnabledBySetup
  <2> QED  BY <1>2, <2>1, <2>2, <2>3, <2>4 DEF MayM
<1>4. CASE l = "s"
  <2>1. status.sie /\ c \in SEnabled /\ TookS(c)
    BY <1>4 DEF TookAt, EnabledLevel
  <2>2. ctx # <<>>
    BY <2>1 DEF Quiet
  <2>3. \A i \in Handlers : ctx[i].mode # S
    BY <2>1, <2>2 DEF Nested, Disabled
  <2>4. setup # "machine"
    BY <1>1, <2>1, EnabledBySetup
  <2> QED  BY <1>2, <2>1, <2>2, <2>3, <2>4 DEF MayS
<1> QED  BY <1>3, <1>4 DEF Levels

(***************************************************************************)
(* The steps of the guest.                                                 *)
(***************************************************************************)
LEMMA TypedCpu ==
  ASSUME TypeOK, Types
  PROVE  Cpu /\ mip \in PendingBits
BY DEF TypeOK, Types, Cpu, PendingBits, Modes, Statuses

(* The application runs when its frame is the last. *)
LEMMA AppAlone ==
  ASSUME Cpu, Nested, Running("none", "entry")
  PROVE  ctx # <<>> /\ Len(ctx) = 1 /\ Handlers = {}
<1>1. ctx # <<>> /\ ctx[Len(ctx)].cause = "none" /\ Len(ctx) \in Nat /\ Len(ctx) # 0
  BY StackFacts DEF Running, Top, Last, Cpu
<1>2. Len(ctx) \notin Handlers
  BY <1>1 DEF Nested, HandlersKnown
<1> DEFINE n == Len(ctx)
<1>3. n \in Nat /\ n # 0 /\ n \notin 2 .. n /\ Handlers = 2 .. n
  BY <1>1, <1>2 DEF Handlers
<1> HIDE DEF n
<1>4. n = 1 /\ 2 .. n = {}
  BY <1>3
<1> QED  BY <1>1, <1>3, <1>4 DEF n

EcallDoes == (TookM("ecall") /\ ~Delegated) \/ (TookS("ecall") /\ Delegated)

LEMMA EcallTraps ==
  ASSUME Cpu, ecall
  PROVE  EcallDoes
<1>1. "ecall" \in Causes
  BY DEF Causes
<1>2. CASE Delegated
  BY <1>1, <1>2, STrapDoes DEF ecall, EcallDoes
<1>3. CASE ~Delegated
  BY <1>1, <1>3, MTrapDoes DEF ecall, EcallDoes
<1> QED  BY <1>2, <1>3

LEMMA EcallAllowed ==
  ASSUME Cpu, Types, Nested, Running("none", "entry"), EcallDoes
  PROVE  (MayM("ecall") /\ TookM("ecall")) \/ (MayS("ecall") /\ TookS("ecall"))
<1>1. ctx # <<>> /\ Handlers = {} /\ "ecall" \in Causes \ {"none"}
  BY AppAlone DEF Causes
<1>2. CASE Delegated
  BY <1>1, <1>2 DEF EcallDoes, Delegated, MayS
<1>3. CASE ~Delegated
  BY <1>1, <1>3 DEF EcallDoes, Delegated, MayM
<1> QED  BY <1>2, <1>3

(* Handlers that go on. *)
Staged(cause, at, a, n) ==
    /\ ctx # <<>> /\ ctx[Len(ctx)].cause = cause /\ ctx[Len(ctx)].at = at
    /\ GoesOn(ctx, ctx', a, n) /\ a \in Stages
    /\ UNCHANGED <<mode, pc, status, epc, setup, InstStep, resets>>

LEMMA ContinueStages ==
  ASSUME Cpu, NEW cause, NEW at, NEW a \in Stages, Running(cause, at), Continue(a),
         UNCHANGED <<machine, cpu, counts>>
  PROVE  Staged(cause, at, a, ctx[Len(ctx)].irq)
<1>1. ctx # <<>> /\ ctx[Len(ctx)].cause = cause /\ ctx[Len(ctx)].at = at
  BY DEF Running, Top, Last
<1>2. GoesOn(ctx, ctx', a, ctx[Len(ctx)].irq)
  BY <1>1, ContinueDoes DEF Continue, Cpu
<1> QED  BY <1>1, <1>2 DEF Staged, machine, cpu, counts

(* The line that is claimed. *)
LEMMA LowestLine ==
  ASSUME NEW L \in SUBSET {UART, GPIO}, L # {}
  PROVE  Min(L) \in L /\ Min(L) \in Int
<1>1. UART \in Int /\ GPIO \in Int /\ UART <= GPIO /\ UART <= UART /\ GPIO <= GPIO
  BY DEF UART, GPIO
<1>2. \E x \in L : \A y \in L : x <= y
  <2>1. CASE UART \in L
    BY <1>1, <2>1
  <2>2. CASE UART \notin L
    BY <1>1, <2>2
  <2> QED  BY <2>1, <2>2
<1>3. Min(L) \in L
  BY <1>2 DEF Min
<1> QED  BY <1>1, <1>3

LEMMA ClaimStages ==
  ASSUME Cpu, pending \in SUBSET {UART, GPIO}, Claim
  PROVE  \/ /\ Staged("external", "entry", "return", ctx[Len(ctx)].irq)
            /\ served' = served
         \/ \E x \in pending \ served :
               /\ Staged("external", "entry", "serve", x + 1)
               /\ x \in Int /\ served' = served \cup {x}
<1> DEFINE L == pending \ served
<1>1. Running("external", "entry") /\ UNCHANGED <<machine, cpu, counts>>
  BY DEF Claim
<1>2. CASE L = {}
  <2>1. Continue("return") /\ served' = served
    BY <1>2 DEF Claim
  <2>2. Staged("external", "entry", "return", ctx[Len(ctx)].irq)
    BY <1>1, <2>1, ContinueStages DEF Stages
  <2> QED  BY <2>1, <2>2
<1>3. CASE L # {}
  <2> DEFINE x == Min(L)
  <2>1. x \in L /\ x \in Int /\ x + 1 \in Int
    <3>1. L \in SUBSET {UART, GPIO}
      OBVIOUS
    <3>2. Min(L) \in L /\ Min(L) \in Int
      BY <1>3, <3>1, LowestLine
    <3> QED  BY <3>2
  <2>2. /\ served' = served \cup {x}
        /\ ctx' = [ctx EXCEPT ![Len(ctx)].at = "serve", ![Len(ctx)].irq = x + 1]
    BY <1>3 DEF Claim, ServedAfter
  <2> HIDE DEF x
  <2>3. ctx # <<>> /\ ctx[Len(ctx)].cause = "external" /\ ctx[Len(ctx)].at = "entry"
    BY <1>1 DEF Running, Top, Last
  <2>4. GoesOn(ctx, ctx', "serve", x + 1)
    BY <2>1, <2>2, <2>3, ClaimDoes DEF Cpu
  <2>5. Staged("external", "entry", "serve", x + 1)
    BY <1>1, <2>3, <2>4 DEF Staged, Stages, machine, cpu, counts
  <2> QED  BY <2>1, <2>2, <2>5
<1> QED  BY <1>2, <1>3

LEMMA ServeStages ==
  ASSUME Cpu, Serve
  PROVE  Staged("external", "serve", "complete", ctx[Len(ctx)].irq) /\ served' = served
BY ContinueStages DEF Serve, Stages, plic

LEMMA CompleteStages ==
  ASSUME Cpu, Complete
  PROVE  /\ Staged("external", "complete", "return", ctx[Len(ctx)].irq)
         /\ served' = served \ {ctx[Len(ctx)].irq - 1}
<1>1. Staged("external", "complete", "return", ctx[Len(ctx)].irq)
  BY ContinueStages DEF Complete, Stages
<1> QED  BY <1>1 DEF Complete, Completed, Top, Last

LEMMA OtherStages ==
  ASSUME Cpu, StoreTimecmp \/ ServeSoftware \/ HandleCall
  PROVE  \E c \in {"timer", "software", "ecall"} :
            Staged(c, "entry", "return", ctx[Len(ctx)].irq) /\ served' = served
<1>1. "return" \in Stages
  BY DEF Stages
<1>2. CASE StoreTimecmp
  BY <1>1, <1>2, ContinueStages DEF StoreTimecmp, plic
<1>3. CASE ServeSoftware
  BY <1>1, <1>3, ContinueStages DEF ServeSoftware, plic
<1>4. CASE HandleCall
  BY <1>1, <1>4, ContinueStages DEF HandleCall, plic
<1> QED  BY <1>2, <1>3, <1>4

LEMMA StagedCpu ==
  ASSUME Cpu, NEW c, NEW at, NEW a, NEW n, Staged(c, at, a, n)
  PROVE  Cpu'
BY DEF Cpu, Staged, GoesOn

(* The only handler of an external interrupt is the one that runs. *)
LEMMA TopWorks ==
  ASSUME Cpu, Types, Nested, ctx # <<>>, ctx[Len(ctx)].cause = "external"
  PROVE  Work(ctx) \subseteq {Len(ctx)} /\ Len(ctx) \in Nat
<1>1. Len(ctx) \in Nat /\ Len(ctx) # 0
  BY StackFacts DEF Cpu
<1>2. setup \in {"machine", "supervisor", "split"}
  BY InterruptsAssumption DEF Types
<1>3. Len(ctx) # 1
  BY DEF Nested, AppFirst
<1>4. Len(ctx) \in Handlers
  <2> DEFINE n == Len(ctx)
  <2>1. n \in Nat /\ n # 0 /\ n # 1 /\ Handlers = 2 .. n
    BY <1>1, <1>3 DEF Handlers
  <2> HIDE DEF n
  <2>2. n \in Handlers
    BY <2>1
  <2> QED  BY <2>2 DEF n
<1>5. ASSUME NEW j \in Work(ctx) PROVE j = Len(ctx)
  <2>1. j \in 1 .. Len(ctx) /\ ctx[j].cause = "external"
    BY DEF Work
  <2>2. j # 1
    BY <2>1 DEF Nested, AppFirst
  <2>3. j \in Handlers
    BY <1>1, <2>1, <2>2 DEF Handlers
  <2>4. ctx[j].mode = ctx[Len(ctx)].mode
    BY <1>2, <1>4, <2>1, <2>3 DEF Nested, HandlersKnown
  <2> QED  BY <1>4, <2>3, <2>4 DEF Nested, OnePerMode
<1> QED  BY <1>1, <1>5

(***************************************************************************)
(* What a step does to the processor, the guest's stack and the PLIC.      *)
(***************************************************************************)
Same == served' = served /\ resets' = resets
Still == NoTrap /\ Same
Interrupted == Same /\ \E c \in Kinds, l \in Levels : TookAt(l, c)
Called == Same /\ Running("none", "entry") /\ EcallDoes
FoundNone ==
    Staged("external", "entry", "return", ctx[Len(ctx)].irq) /\ served' = served
Claimed ==
    \E x \in pending \ served : /\ Staged("external", "entry", "serve", x + 1)
                                /\ x \in Int /\ served' = served \cup {x}
WasServed ==
    Staged("external", "serve", "complete", ctx[Len(ctx)].irq) /\ served' = served
WasCompleted ==
    /\ Staged("external", "complete", "return", ctx[Len(ctx)].irq)
    /\ served' = served \ {ctx[Len(ctx)].irq - 1}
WentOn ==
    \E c \in {"timer", "software", "ecall"} :
        Staged(c, "entry", "return", ctx[Len(ctx)].irq) /\ served' = served
CameBack == Returned /\ Same
Started == ctx = <<>> /\ Booted /\ epc' = epc /\ Same
WasReset ==
    /\ reset /\ pc' \in Int /\ epc' = epc
    /\ served' = served /\ resets' = resets + 1

Outcome ==
    \/ Still \/ Interrupted \/ Called \/ FoundNone \/ Claimed \/ WasServed
    \/ WasCompleted \/ WentOn \/ CameBack \/ Started \/ WasReset

LEMMA Outcomes ==
  ASSUME TypeOK, Types, [Next]_vars
  PROVE  Outcome /\ setup' = setup /\ InstStep' = InstStep
<1>1. Cpu /\ mip \in PendingBits /\ pending \in SUBSET {UART, GPIO}
  BY TypedCpu DEF TypeOK
<1>2. CASE isr
  <2>1. Same /\ setup' = setup /\ InstStep' = InstStep
    BY <1>2 DEF isr, Same, counts, machine
  <2>2. NoTrap \/ \E c \in Kinds, l \in Levels : TookAt(l, c)
    BY <1>1, <1>2, IsrDoes
  <2> QED  BY <2>1, <2>2 DEF Outcome, Still, Interrupted
<1>3. CASE Boot
  <2>1. Started /\ setup' = setup /\ InstStep' = InstStep
    BY <1>3 DEF Boot, Started, Same, plic, counts, machine
  <2> QED  BY <2>1 DEF Outcome
<1>4. CASE OtherInstruction \/ SendIpi \/ RaiseGpio \/ Arrive \/ UNCHANGED vars
  <2>1. Still /\ setup' = setup /\ InstStep' = InstStep
    BY <1>4 DEF OtherInstruction, SendIpi, RaiseGpio, Arrive, vars, Still, NoTrap,
         Same, cpu, plic, counts, machine
  <2> QED  BY <2>1 DEF Outcome
<1>5. CASE ecall
  <2>1. Same /\ Running("none", "entry") /\ setup' = setup /\ InstStep' = InstStep
    BY <1>5 DEF ecall, Same, plic, machine
  <2>2. EcallDoes
    BY <1>1, <1>5, EcallTraps
  <2> QED  BY <2>1, <2>2 DEF Outcome, Called
<1>6. CASE Claim
  <2>1. FoundNone \/ Claimed
    BY <1>1, <1>6, ClaimStages DEF FoundNone, Claimed
  <2>2. setup' = setup /\ InstStep' = InstStep
    BY <1>6 DEF Claim, machine
  <2> QED  BY <2>1, <2>2 DEF Outcome
<1>7. CASE Serve
  <2>1. WasServed
    BY <1>1, <1>7, ServeStages DEF WasServed
  <2> QED  BY <2>1 DEF Outcome, WasServed, Staged
<1>8. CASE Complete
  <2>1. WasCompleted
    BY <1>1, <1>8, CompleteStages DEF WasCompleted
  <2> QED  BY <2>1 DEF Outcome, WasCompleted, Staged
<1>9. CASE StoreTimecmp \/ ServeSoftware \/ HandleCall
  <2>1. WentOn
    BY <1>1, <1>9, OtherStages DEF WentOn
  <2> QED  BY <2>1 DEF Outcome, WentOn, Staged
<1>10. CASE Return
  <2>1. CameBack
    BY <1>1, <1>10, ReturnDoes DEF CameBack, Same
  <2>2. setup' = setup /\ InstStep' = InstStep
    BY <1>10 DEF Return, machine
  <2> QED  BY <2>1, <2>2 DEF Outcome
<1>11. CASE ResetByGpio \/ ResetBySignal
  <2>1. WasReset /\ setup' = setup /\ InstStep' = InstStep
    BY <1>11 DEF ResetByGpio, ResetBySignal, WasReset, ResetVec, plic, machine
  <2> QED  BY <2>1 DEF Outcome
<1> QED
  BY <1>2, <1>3, <1>4, <1>5, <1>6, <1>7, <1>8, <1>9, <1>10, <1>11
  DEF Next, Processor, Instruction

LEMMA BootStatus ==
  ASSUME Booted
  PROVE  /\ mode' \in Modes /\ pc' \in Int /\ status' \in Statuses
         /\ status'.mie = TRUE /\ status'.sie = TRUE
         /\ ctx' \in Seq(Frames) /\ Len(ctx') = 1 /\ ctx' # <<>>
         /\ ctx'[1].mode = U /\ ctx'[1].cause = "none" /\ ctx'[1].at = "entry"
<1>1. U \in Modes
  BY DEF Modes
<1>2. mode' \in Modes /\ pc' \in Int /\ status' \in Statuses
      /\ status'.mie = TRUE /\ status'.sie = TRUE
  BY <1>1 DEF Booted, Statuses
<1> DEFINE f == Frame(U, "none")
<1>3. f \in Frames /\ f.mode = U /\ f.cause = "none" /\ f.at = "entry"
  BY <1>1 DEF Frame, Frames, Causes, Stages
<1>4. ctx' = <<f>>
  BY DEF Booted
<1> HIDE DEF f
<1>5. ctx' \in Seq(Frames) /\ Len(ctx') = 1 /\ ctx' # <<>> /\ ctx'[1] = f
  BY <1>3, <1>4
<1> QED  BY <1>2, <1>3, <1>5

LEMMA CpuStep ==
  ASSUME Cpu, Outcome
  PROVE  Cpu'
<1>1. CASE Still
  BY <1>1 DEF Cpu, Still, NoTrap
<1>2. CASE Interrupted
  BY <1>2 DEF Interrupted, TookAt, TookM, TookS
<1>3. CASE Called
  BY <1>3 DEF Called, EcallDoes, TookM, TookS
<1>4. CASE FoundNone \/ Claimed \/ WasServed \/ WasCompleted \/ WentOn
  BY <1>4, StagedCpu DEF FoundNone, Claimed, WasServed, WasCompleted, WentOn
<1>5. CASE CameBack
  BY <1>5 DEF CameBack, Returned
<1>6. CASE Started
  BY <1>6, BootStatus DEF Started, Cpu
<1>7. CASE WasReset
  <2>1. mode' \in Modes /\ pc' \in Int /\ epc' \in [Levels -> Int]
    BY <1>7 DEF WasReset, reset, Modes, Cpu
  <2>2. status' \in Statuses
    BY <1>7, ResetStatus DEF WasReset, reset, Cpu
  <2>3. ctx' = <<>> /\ <<>> \in Seq(Frames)
    BY <1>7, EmptySeq DEF WasReset, reset
  <2> QED  BY <2>1, <2>2, <2>3 DEF Cpu
<1> QED
  BY <1>1, <1>2, <1>3, <1>4, <1>5, <1>6, <1>7 DEF Outcome

LEMMA CalmBack ==
  ASSUME resets \in Nat, Outcome, setup' = setup, Calm'
  PROVE  Calm
<1>1. SEnabled' = SEnabled
  BY DEF SEnabled
<1>2. resets' = resets \/ resets' = resets + 1
  BY DEF Outcome, Still, Interrupted, Called, FoundNone, Claimed, WasServed,
     WasCompleted, WentOn, CameBack, Started, WasReset, Same, Staged
<1>3. resets' = 0 => resets = 0
  BY <1>2
<1> QED  BY <1>1, <1>3 DEF Calm

LEMMA StackStep ==
  ASSUME Cpu, Types, Calm => Quiet /\ Nested, Outcome, setup' = setup, Calm'
  PROVE  (Quiet /\ Nested)'
<1>1. Calm /\ Quiet /\ Nested
  BY CalmBack DEF Types
<1>2. CASE Still
  <2>1. SEnabled' = SEnabled /\ Handlers' = Handlers
    BY <1>2 DEF SEnabled, Handlers, Still, NoTrap
  <2> QED  BY <1>1, <1>2, <2>1 DEF Still, NoTrap, Quiet, Nested, AppFirst,
                HandlersKnown, OnePerMode, Disabled
<1>3. ASSUME NEW c, (MayM(c) /\ TookM(c)) \/ (MayS(c) /\ TookS(c))
      PROVE  (Quiet /\ Nested)'
  BY <1>1, <1>3, NestM, NestS
<1>4. CASE Interrupted
  <2>1. PICK c \in Kinds, l \in Levels : TookAt(l, c)
    BY <1>4 DEF Interrupted
  <2> QED  BY <1>1, <1>3, <2>1, TookAllowed
<1>5. CASE Called
  BY <1>1, <1>3, <1>5, EcallAllowed DEF Called
<1>6. ASSUME NEW c, NEW at, NEW a, NEW n, Staged(c, at, a, n), c # "none",
             a \in {"serve", "complete"} => c = "external"
      PROVE  (Quiet /\ Nested)'
  <2>1. /\ ctx # <<>> /\ a \in Stages /\ GoesOn(ctx, ctx', a, n)
        /\ status' = status /\ ctx[Len(ctx)].cause = c
    BY <1>6 DEF Staged
  <2> QED  BY <1>1, <1>6, <2>1, NestOn
<1>7. CASE FoundNone
  BY <1>6, <1>7 DEF FoundNone
<1>8. CASE Claimed
  BY <1>6, <1>8 DEF Claimed
<1>9. CASE WasServed
  BY <1>6, <1>9 DEF WasServed
<1>10. CASE WasCompleted
  BY <1>6, <1>10 DEF WasCompleted
<1>11. CASE WentOn
  <2>1. PICK c \in {"timer", "software", "ecall"} :
              Staged(c, "entry", "return", ctx[Len(ctx)].irq)
    BY <1>11 DEF WentOn
  <2>2. c # "none" /\ "return" \notin {"serve", "complete"}
    OBVIOUS
  <2> QED  BY <1>6, <2>1, <2>2
<1>12. CASE CameBack
  BY <1>1, <1>12, NestBack DEF CameBack
<1>13. CASE Started
  <2>1. /\ status'.mie = TRUE /\ status'.sie = TRUE
        /\ Len(ctx') = 1 /\ ctx' # <<>>
        /\ ctx'[1].mode = U /\ ctx'[1].cause = "none" /\ ctx'[1].at = "entry"
    BY <1>13, BootStatus DEF Started
  <2>2. Handlers' = 2 .. 1 /\ 2 .. 1 = {}
    BY <2>1 DEF Handlers
  <2> QED  BY <2>1, <2>2 DEF Quiet, Nested, AppFirst, HandlersKnown, OnePerMode,
                Disabled
<1>14. CASE WasReset
  <2>1. ctx' = <<>> /\ status'.mie = FALSE
    BY <1>14, ResetStatus DEF WasReset, reset, Cpu
  <2>2. Len(ctx') = 0
    BY <2>1, EmptySeq
  <2>3. Handlers' = 2 .. 0 /\ 2 .. 0 = {}
    BY <2>2 DEF Handlers
  <2>4. SEnabled' = {}
    <3>1. resets' # 0
      BY <1>14 DEF WasReset, Types
    <3> QED  BY <3>1 DEF Calm
  <2> QED  BY <2>1, <2>3, <2>4 DEF Quiet, Nested, AppFirst, HandlersKnown, OnePerMode
<1> QED
  BY <1>2, <1>4, <1>5, <1>7, <1>8, <1>9, <1>10, <1>11, <1>12, <1>13, <1>14 DEF Outcome

(***************************************************************************)
(* The PLIC's bookkeeping.                                                 *)
(***************************************************************************)
LEMMA ServedStep ==
  ASSUME Cpu, Types, Calm => Quiet /\ Nested, ServedIffHandled, Outcome, setup' = setup
  PROVE  ServedIffHandled'
<1> SUFFICES ASSUME resets' = 0 PROVE served' = Marked(ctx')
  BY DEF ServedIffHandled, Marked, Work
<1>1. Calm' /\ Calm /\ Nested
  BY CalmBack DEF Calm, Types
<1>2. resets = 0 /\ ~WasReset
  <2>1. resets \in Nat /\ (resets' = resets \/ resets' = resets + 1)
    BY DEF Types, Outcome, Still, Interrupted, Called, FoundNone, Claimed,
       WasServed, WasCompleted, WentOn, CameBack, Started, WasReset, Same, Staged
  <2> QED  BY <2>1 DEF WasReset
<1>3. served = Marked(ctx)
  BY <1>2, ServedMarked
<1>4. ctx \in Seq(Frames)
  BY DEF Cpu
<1>5. CASE Still
  BY <1>3, <1>5 DEF Still, NoTrap, Same
<1>6. CASE Interrupted
  <2>1. \E m, c : Pushes(ctx, ctx', m, c)
    BY <1>6 DEF Interrupted, TookAt, TookM, TookS
  <2> QED  BY <1>3, <1>4, <1>6, <2>1, PushKeepsWork DEF Interrupted, Same
<1>7. CASE Called
  <2>1. \E m, c : Pushes(ctx, ctx', m, c)
    BY <1>7 DEF Called, EcallDoes, TookM, TookS
  <2> QED  BY <1>3, <1>4, <1>7, <2>1, PushKeepsWork DEF Called, Same
<1>8. CASE CameBack
  <2>1. ctx # <<>> /\ Pops(ctx, ctx') /\ Len(ctx) \notin Work(ctx)
    BY <1>8 DEF CameBack, Returned, Work
  <2> QED  BY <1>3, <1>4, <1>8, <2>1, PopKeepsWork DEF CameBack, Same
<1>9. CASE Started
  <2>1. Len(ctx) = 0 /\ Len(ctx') = 1 /\ ctx'[1].cause = "none"
    BY <1>9, BootStatus, EmptySeq DEF Started
  <2>2. Work(ctx) = {} /\ Work(ctx') = {}
    BY <2>1 DEF Work
  <2> QED  BY <1>3, <1>9, <2>2, NoWork DEF Started, Same
<1>10. ASSUME NEW c, NEW at, NEW a, NEW n, Staged(c, at, a, n)
       PROVE  /\ ctx # <<>>
              /\ Work(ctx') \ {Len(ctx)} = Work(ctx) \ {Len(ctx)}
              /\ \A i \in Work(ctx) \ {Len(ctx)} : ctx'[i] = ctx[i]
              /\ (Len(ctx) \in Work(ctx') <=> c = "external"
                                              /\ a \in {"serve", "complete"})
              /\ (Len(ctx) \in Work(ctx) <=> c = "external"
                                             /\ at \in {"serve", "complete"})
              /\ ctx'[Len(ctx)].irq = n
              /\ c = "external" => Work(ctx) \subseteq {Len(ctx)}
  <2>1. /\ ctx # <<>> /\ GoesOn(ctx, ctx', a, n) /\ ctx[Len(ctx)].cause = c
        /\ ctx[Len(ctx)].at = at
    BY <1>10 DEF Staged
  <2>2. ctx'[Len(ctx)].irq = n
    BY <2>1 DEF GoesOn
  <2>3. c = "external" => Work(ctx) \subseteq {Len(ctx)}
    BY <1>1, <2>1, TopWorks
  <2> HIDE DEF Work
  <2>4. /\ Work(ctx') \ {Len(ctx)} = Work(ctx) \ {Len(ctx)}
        /\ \A i \in Work(ctx) \ {Len(ctx)} : ctx'[i] = ctx[i]
        /\ (Len(ctx) \in Work(ctx') <=> ctx[Len(ctx)].cause = "external"
                                        /\ a \in {"serve", "complete"})
        /\ (Len(ctx) \in Work(ctx) <=> ctx[Len(ctx)].cause = "external"
                                       /\ ctx[Len(ctx)].at \in {"serve", "complete"})
    BY <1>4, <2>1, TopWork
  <2> QED  BY <2>1, <2>2, <2>3, <2>4
<1>11. CASE FoundNone
  <2>1. Work(ctx) = {} /\ Work(ctx') = {}
    BY <1>10, <1>11 DEF FoundNone
  <2> QED  BY <1>3, <1>11, <2>1, NoWork DEF FoundNone
<1>12. CASE Claimed
  <2>1. PICK x \in pending \ served : /\ Staged("external", "entry", "serve", x + 1)
                                      /\ x \in Int /\ served' = served \cup {x}
    BY <1>12 DEF Claimed
  <2>2. Work(ctx) = {} /\ Work(ctx') = {Len(ctx)} /\ ctx'[Len(ctx)].irq = x + 1
    BY <1>10, <2>1
  <2>3. Marked(ctx) = {} /\ Marked(ctx') = {ctx'[Len(ctx)].irq - 1}
    BY <2>2, NoWork, OneWork
  <2>4. (x + 1) - 1 = x
    BY <2>1
  <2> QED  BY <1>3, <2>1, <2>2, <2>3, <2>4
<1>13. CASE WasServed
  <2>1. /\ Work(ctx) = {Len(ctx)} /\ Work(ctx') = {Len(ctx)}
        /\ ctx'[Len(ctx)].irq = ctx[Len(ctx)].irq
    BY <1>10, <1>13 DEF WasServed
  <2>2. Marked(ctx) = {ctx[Len(ctx)].irq - 1} /\ Marked(ctx') = {ctx'[Len(ctx)].irq - 1}
    BY <2>1, OneWork
  <2> QED  BY <1>3, <1>13, <2>1, <2>2 DEF WasServed
<1>14. CASE WasCompleted
  <2>1. Work(ctx) = {Len(ctx)} /\ Work(ctx') = {}
    BY <1>10, <1>14 DEF WasCompleted
  <2>2. Marked(ctx) = {ctx[Len(ctx)].irq - 1} /\ Marked(ctx') = {}
    BY <2>1, NoWork, OneWork
  <2> QED  BY <1>3, <1>14, <2>2 DEF WasCompleted
<1>15. CASE WentOn
  <2>1. PICK c \in {"timer", "software", "ecall"} :
              Staged(c, "entry", "return", ctx[Len(ctx)].irq) /\ served' = served
    BY <1>15 DEF WentOn
  <2>2. c # "external"
    OBVIOUS
  <2>3. Work(ctx') = Work(ctx) /\ \A i \in Work(ctx) : ctx'[i] = ctx[i]
    BY <1>10, <2>1, <2>2
  <2> QED  BY <1>3, <2>1, <2>3, SameWork
<1> QED
  BY <1>2, <1>5, <1>6, <1>7, <1>8, <1>9, <1>11, <1>12, <1>13, <1>14, <1>15 DEF Outcome

(***************************************************************************)
(* Types.                                                                  *)
(***************************************************************************)
LEMMA ClockStep ==
  ASSUME TypeOK, Types, [Next]_vars
  PROVE  /\ time' \in 1 .. MaxTime /\ claimed' \in -1 .. MaxTime /\ timecmp' \in Nat
<1>1. /\ time \in 1 .. MaxTime /\ claimed \in -1 .. MaxTime /\ timecmp \in Nat
      /\ MaxTime \in Nat \ {0} /\ CyclesPerTick \in Nat \ {0}
  BY InterruptsAssumption DEF TypeOK, Types
<1>2. CASE isr
  <2>1. (time' = time \/ time' = time + 1) /\ time' <= MaxTime /\ timecmp' = timecmp
    BY <1>2 DEF isr
  <2>2. claimed' \in {claimed, time'}
    BY <1>2, TypedCpu, IsrDoes
  <2> QED  BY <1>1, <2>1, <2>2
<1>3. CASE Boot \/ StoreTimecmp
  <2>1. PICK ticks \in Intervals :
          time' = time /\ timecmp' = rdtime(time) + ticks /\ claimed' = 0
    BY <1>3 DEF Boot, StoreTimecmp, SetTimer
  <2>2. ticks \in Nat
    BY InterruptsAssumption
  <2>3. time \div CyclesPerTick \in Nat
    BY <1>1
  <2> QED  BY <1>1, <2>1, <2>2, <2>3 DEF rdtime
<1>4. CASE ~isr /\ ~Boot /\ ~StoreTimecmp
  <2>1. UNCHANGED <<time, timer>>
    BY <1>4 DEF Next, Processor, Instruction, OtherInstruction, ecall, SendIpi,
         RaiseGpio, Claim, Serve, Complete, ServeSoftware, HandleCall, Return,
         ResetByGpio, ResetBySignal, Arrive, vars
  <2> QED  BY <1>1, <2>1 DEF timer
<1> QED  BY <1>2, <1>3, <1>4

LEMMA LeftStep ==
  ASSUME TypeOK, Types, [Next]_vars
  PROVE  left' \in 0 .. InstStep'
<1>1. left \in 0 .. InstStep /\ InstStep \in Nat \ {0} /\ InstStep' = InstStep
  BY InterruptsAssumption, Outcomes DEF TypeOK, Types
<1>2. left' = InstStep \/ left' = left \/ (left > 0 /\ left' = left - 1)
  BY DEF Next, Processor, isr, Instruction, Boot, OtherInstruction, ecall, SendIpi,
     RaiseGpio, Claim, Serve, Complete, StoreTimecmp, ServeSoftware, HandleCall,
     Return, ResetByGpio, ResetBySignal, Arrive, Retires, vars
<1> QED  BY <1>1, <1>2

LEMMA PendingStep ==
  ASSUME TypeOK, Types, [Next]_vars
  PROVE  mip' \subseteq Levels \X Kinds
<1>1. Cpu /\ mip \in PendingBits
  BY TypedCpu
<1>2. CASE isr
  BY <1>1, <1>2, IsrDoes DEF PendingBits
<1>3. CASE ecall
  <2>1. mip' \subseteq mip
    BY <1>3 DEF ecall
  <2> QED  BY <1>1, <2>1 DEF PendingBits
<1>4. CASE ~isr /\ ~ecall
  <2>1. mip' = mip
    BY <1>4 DEF Next, Processor, Instruction, Boot, OtherInstruction, SendIpi,
         RaiseGpio, Claim, Serve, Complete, StoreTimecmp, ServeSoftware, HandleCall,
         Return, ResetByGpio, ResetBySignal, Arrive, vars, cpu
  <2> QED  BY <1>1, <2>1 DEF PendingBits
<1> QED  BY <1>2, <1>3, <1>4

LEMMA PlicStep ==
  ASSUME TypeOK, Types, [Next]_vars
  PROVE  pending' \subseteq {UART, GPIO} /\ served' \subseteq {UART, GPIO}
<1>1. pending \subseteq {UART, GPIO} /\ served \subseteq {UART, GPIO}
  BY DEF TypeOK
<1>2. pending' \subseteq {UART, GPIO}
  <2>1. pending' = pending \/ pending' = Lines
    BY DEF Next, Processor, isr, Instruction, Boot, OtherInstruction, ecall, SendIpi,
       RaiseGpio, Claim, Serve, Complete, StoreTimecmp, ServeSoftware, HandleCall,
       Return, ResetByGpio, ResetBySignal, Arrive, vars, plic
  <2> QED  BY <1>1, <2>1 DEF Lines
<1>3. served' \subseteq {UART, GPIO}
  <2>1. Outcome
    BY Outcomes
  <2>2. served' \subseteq served \cup pending
    BY <2>1 DEF Outcome, Still, Interrupted, Called, FoundNone, Claimed, WasServed,
       WasCompleted, WentOn, CameBack, Started, WasReset, Same
  <2> QED  BY <1>1, <2>2
<1> QED  BY <1>2, <1>3

LEMMA SourcesStep ==
  ASSUME TypeOK, Types, [Next]_vars
  PROVE  /\ chars' \in 0 .. MaxChars /\ arrived' \in 0 .. MaxChars /\ chars' <= arrived'
         /\ gpio' \in BOOLEAN /\ ipi' \in BOOLEAN
<1>1. /\ chars \in 0 .. MaxChars /\ arrived \in 0 .. MaxChars /\ chars <= arrived
      /\ gpio \in BOOLEAN /\ ipi \in BOOLEAN /\ MaxChars \in Nat
  BY InterruptsAssumption DEF TypeOK, Types
<1>2. CASE Arrive
  <2>1. arrived < MaxChars /\ arrived' = arrived + 1 /\ chars' = chars + 1
        /\ UNCHANGED <<gpio, ipi>>
    BY <1>2 DEF Arrive
  <2> QED  BY <1>1, <2>1
<1>3. CASE Serve
  <2>1. /\ arrived' = arrived /\ ipi' = ipi
        /\ chars' = chars \/ (chars > 0 /\ chars' = chars - 1)
        /\ gpio' \in BOOLEAN
    BY <1>3 DEF Serve, counts
  <2> QED  BY <1>1, <2>1
<1>4. CASE SendIpi
  BY <1>1, <1>4 DEF SendIpi
<1>5. CASE RaiseGpio
  BY <1>1, <1>5 DEF RaiseGpio
<1>6. CASE ServeSoftware
  BY <1>1, <1>6 DEF ServeSoftware, counts
<1>7. CASE ~Arrive /\ ~Serve /\ ~SendIpi /\ ~RaiseGpio /\ ~ServeSoftware
  <2>1. UNCHANGED <<sources, arrived>>
    BY <1>7 DEF Next, Processor, isr, Instruction, Boot, OtherInstruction, ecall,
         Claim, Complete, StoreTimecmp, HandleCall, Return, ResetByGpio,
         ResetBySignal, vars, counts
  <2> QED  BY <1>1, <2>1 DEF sources
<1> QED  BY <1>2, <1>3, <1>4, <1>5, <1>6, <1>7

LEMMA TypesStep ==
  ASSUME TypeOK, Types, [Next]_vars
  PROVE  TypeOK' /\ Types'
<1>1. Cpu' /\ Outcome /\ setup' = setup /\ InstStep' = InstStep
  BY TypedCpu, Outcomes, CpuStep
<1>2. resets' \in Nat
  <2>1. resets \in Nat /\ (resets' = resets \/ resets' = resets + 1)
    BY <1>1 DEF Types, Outcome, Still, Interrupted, Called, FoundNone, Claimed,
       WasServed, WasCompleted, WentOn, CameBack, Started, WasReset, Same, Staged
  <2> QED  BY <2>1
<1>3. Types'
  BY <1>1, <1>2, ClockStep, SourcesStep DEF Types, Cpu
<1>4. TypeOK'
  BY <1>1, ClockStep, LeftStep, PendingStep, PlicStep, SourcesStep
  DEF TypeOK, Cpu, Modes, Statuses
<1> QED  BY <1>3, <1>4

(***************************************************************************)
(* The theorems.                                                           *)
(***************************************************************************)
LEMMA InitTypes == Init => TypeOK /\ Types
<1> SUFFICES ASSUME Init PROVE TypeOK /\ Types
  OBVIOUS
<1>1. /\ MaxTime \in Nat \ {0} /\ MaxChars \in Nat /\ InstSteps \subseteq Nat \ {0}
      /\ InstStep \in InstSteps
  BY InterruptsAssumption DEF Init
<1>2. mode \in {U, S, M}
  BY DEF Init
<1>3. status \in [mie : BOOLEAN, mpie : BOOLEAN, mpp : {U, S, M},
                  sie : BOOLEAN, spie : BOOLEAN, spp : {U, S}]
  BY DEF Init
<1>4. left \in 0 .. InstStep /\ time \in 1 .. MaxTime /\ claimed \in -1 .. MaxTime
      /\ chars \in 0 .. MaxChars
  BY <1>1 DEF Init
<1>5. mip \subseteq Levels \X Kinds /\ {pending, served} \subseteq SUBSET {UART, GPIO}
  BY DEF Init
<1>6. ctx \in Seq(Frames)
  BY EmptySeq DEF Init
<1>7. epc \in [Levels -> Int] /\ pc \in Int
  BY DEF Init, ResetVec
<1>8. Types
  <2>1. setup \in Setups /\ timecmp \in Nat /\ resets \in Nat
    BY DEF Init
  <2>2. gpio \in BOOLEAN /\ ipi \in BOOLEAN
    BY DEF Init
  <2>3. arrived \in 0 .. MaxChars /\ chars <= arrived
    BY <1>1 DEF Init
  <2> QED  BY <1>1, <1>6, <1>7, <2>1, <2>2, <2>3 DEF Types
<1> QED  BY <1>2, <1>3, <1>4, <1>5, <1>8 DEF TypeOK

LEMMA InitInv == Init => Inv
<1> SUFFICES ASSUME Init PROVE Inv
  OBVIOUS
<1>1. TypeOK /\ Types
  BY InitTypes
<1>2. ctx = <<>> /\ Len(ctx) = 0
  BY EmptySeq DEF Init
<1>3. Handlers = {}
  BY <1>2 DEF Handlers
<1>4. Quiet /\ Nested
  BY <1>2, <1>3 DEF Init, Quiet, Nested, AppFirst, HandlersKnown, OnePerMode
<1>5. Work(ctx) = {}
  BY <1>2 DEF Work
<1>6. ServedIffHandled
  BY <1>5, NoWork, ServedMarked DEF Init
<1> QED  BY <1>1, <1>4, <1>6 DEF Inv

LEMMA InvStep ==
  ASSUME Inv, [Next]_vars
  PROVE  Inv'
<1>1. TypeOK /\ Types /\ (Calm => Quiet /\ Nested) /\ ServedIffHandled
  BY DEF Inv
<1>2. Cpu /\ Outcome /\ setup' = setup
  BY <1>1, TypedCpu, Outcomes
<1>3. TypeOK' /\ Types'
  BY <1>1, TypesStep
<1>4. Calm' => (Quiet /\ Nested)'
  BY <1>1, <1>2, StackStep
<1>5. ServedIffHandled'
  BY <1>1, <1>2, ServedStep
<1> QED  BY <1>3, <1>4, <1>5 DEF Inv

LEMMA InvHolds == Spec => []Inv
<1>1. Init => Inv
  BY InitInv
<1>2. Inv /\ [Next]_vars => Inv'
  BY InvStep
<1> QED  BY <1>1, <1>2, PTL DEF Spec

(* The fields keep their widths, and until a reset the PLIC marks a line as *)
(* served exactly while the handler that claimed it is at work: for every   *)
(* guest, also one with interrupts in both modes, where handlers interrupt  *)
(* each other.                                                              *)
THEOREM PlicMarksServed == Spec => []InterruptsInv
<1>1. Inv => InterruptsInv
  BY DEF Inv, InterruptsInv
<1> QED  BY <1>1, InvHolds, PTL

(* A guest whose interrupts all go to one mode. *)
OneMode == Setups \subseteq {"machine", "supervisor"}

LEMMA AtMostOne ==
  ASSUME OneMode, Cpu, Types, Nested, ctx # <<>>
  PROVE  /\ Len(ctx) = 1 \/ Len(ctx) = 2
         /\ \A i \in Handlers : i = 2 /\ Len(ctx) = 2
<1>1. setup = "machine" \/ setup = "supervisor"
  BY DEF OneMode, Types
<1> DEFINE n == Len(ctx)
<1>2. n \in Nat /\ n # 0 /\ Handlers = 2 .. n
  BY StackFacts DEF Cpu, Handlers
<1>3. \A i, j \in 2 .. n : i = j
  <2>1. \A i, j \in 2 .. n : ctx[i].mode = ctx[j].mode
    BY <1>1, <1>2 DEF Nested, HandlersKnown
  <2> QED  BY <1>2, <2>1 DEF Nested, OnePerMode
<1> HIDE DEF n
<1>4. n = 1 \/ n = 2
  <2> SUFFICES ASSUME n # 1, n # 2 PROVE FALSE
    OBVIOUS
  <2>1. 2 \in 2 .. n /\ 3 \in 2 .. n
    BY <1>2
  <2> QED  BY <1>3, <2>1
<1>5. \A i \in 2 .. n : i = 2 /\ n = 2
  BY <1>4
<1> QED  BY <1>2, <1>4, <1>5 DEF n

LEMMA PlacedM ==
  ASSUME OneMode, Cpu, Types, Nested, Placed, NEW c, MayM(c), TookM(c)
  PROVE  Placed'
<1>1. setup = "machine"
  BY DEF OneMode, Types, MayM
<1>2. Handlers = {}
  BY <1>1 DEF Nested, HandlersKnown, MayM
<1>3. Len(ctx) = 1
  <2>1. Len(ctx) = 2 => 2 \in Handlers
    BY DEF Handlers
  <2> QED  BY <1>2, <2>1, AtMostOne DEF MayM
<1>4. mode = U /\ pc = 10
  BY <1>3 DEF Placed, Nested, AppFirst, MayM
<1>5. /\ Len(ctx') = 2 /\ ctx'[2].mode = M /\ mode' = M /\ pc' = 20
      /\ epc'["m"] = 10 /\ status'.mpp = U
  BY <1>3, <1>4 DEF TookM, Pushes
<1> QED  BY <1>5 DEF Placed

LEMMA PlacedS ==
  ASSUME OneMode, Cpu, Types, Nested, Placed, NEW c, MayS(c), TookS(c)
  PROVE  Placed'
<1>1. setup = "supervisor"
  BY DEF OneMode, Types, MayS
<1>2. Handlers = {}
  BY <1>1 DEF Nested, HandlersKnown, MayS
<1>3. Len(ctx) = 1
  <2>1. Len(ctx) = 2 => 2 \in Handlers
    BY DEF Handlers
  <2> QED  BY <1>2, <2>1, AtMostOne DEF MayS
<1>4. mode = U /\ pc = 10
  BY <1>3 DEF Placed, Nested, AppFirst, MayS
<1>5. U % 2 = U
  BY DEF U
<1>6. /\ Len(ctx') = 2 /\ ctx'[2].mode = S /\ mode' = S /\ pc' = 20
      /\ epc'["s"] = 10 /\ status'.spp = U
  BY <1>3, <1>4, <1>5 DEF TookS, Pushes
<1> QED  BY <1>6, ModesDiffer DEF Placed

LEMMA PlacedBack ==
  ASSUME OneMode, Cpu, Types, Nested, Placed, Returned
  PROVE  Placed'
<1>1. ctx # <<>> /\ ctx[Len(ctx)].at = "return"
  BY DEF Returned
<1>2. Len(ctx) # 1
  BY <1>1 DEF Nested, AppFirst
<1>3. Len(ctx) = 2
  BY <1>1, <1>2, AtMostOne
<1>4. Len(ctx') = 1 /\ ctx'[1] = ctx[1] /\ ctx[1].mode = U
  BY <1>1, <1>3 DEF Returned, Pops, Nested, AppFirst
<1>5. mode' = U /\ pc' = 10
  BY <1>1, <1>3 DEF Returned, Placed
<1> QED  BY <1>4, <1>5 DEF Placed

LEMMA PlacedOn ==
  ASSUME Placed, NEW c, NEW at, NEW a, NEW n, Staged(c, at, a, n), Cpu
  PROVE  Placed'
<1>1. /\ ctx # <<>> /\ GoesOn(ctx, ctx', a, n)
      /\ UNCHANGED <<mode, pc, status, epc>>
  BY DEF Staged
<1>2. /\ Len(ctx') = Len(ctx) /\ ctx'[Len(ctx)].mode = ctx[Len(ctx)].mode
      /\ (Len(ctx) = 2 => ctx'[2].mode = ctx[2].mode)
  BY <1>1 DEF GoesOn
<1> QED  BY <1>1, <1>2 DEF Placed

LEMMA PlacedStep ==
  ASSUME OneMode, Cpu, Types, Quiet, Nested, Placed, Outcome
  PROVE  Placed'
<1>1. CASE Still
  BY <1>1 DEF Still, NoTrap, Placed
<1>2. CASE Interrupted
  <2>1. PICK c \in Kinds, l \in Levels : TookAt(l, c)
    BY <1>2 DEF Interrupted
  <2>2. (MayM(c) /\ TookM(c)) \/ (MayS(c) /\ TookS(c))
    BY <2>1, TookAllowed
  <2> QED  BY <2>2, PlacedM, PlacedS
<1>3. CASE Called
  <2>1. (MayM("ecall") /\ TookM("ecall")) \/ (MayS("ecall") /\ TookS("ecall"))
    BY <1>3, EcallAllowed DEF Called
  <2> QED  BY <2>1, PlacedM, PlacedS
<1>4. CASE FoundNone \/ Claimed \/ WasServed \/ WasCompleted \/ WentOn
  BY <1>4, PlacedOn DEF FoundNone, Claimed, WasServed, WasCompleted, WentOn
<1>5. CASE CameBack
  BY <1>5, PlacedBack DEF CameBack
<1>6. CASE Started
  <2>1. mode' = U /\ pc' = 10 /\ Len(ctx') = 1 /\ ctx'[1].mode = U
    BY <1>6, BootStatus DEF Started, Booted
  <2> QED  BY <2>1 DEF Placed
<1>7. CASE WasReset
  BY <1>7 DEF WasReset, reset, Placed
<1> QED  BY <1>1, <1>2, <1>3, <1>4, <1>5, <1>6, <1>7 DEF Outcome

(* A handler's return brings back the mode and the place that the trap      *)
(* interrupted, with interrupts enabled as they were, if the guest's        *)
(* interrupts all go to one mode: however traps, returns and resets follow  *)
(* each other.  With interrupts in both modes they do not, which TLC shows.  *)
THEOREM TrapsReturn ==
  ASSUME OneMode
  PROVE  Spec => []ReturnsToInterrupted
<1> DEFINE P == Calm => Placed
<1>1. Init => P
  BY DEF Init, Placed
<1>2. Inv /\ P /\ [Next]_vars => P'
  <2> SUFFICES ASSUME Inv, P, [Next]_vars, Calm' PROVE Placed'
    OBVIOUS
  <2>1. TypeOK /\ Types /\ (Calm => Quiet /\ Nested)
    BY DEF Inv
  <2>2. Cpu /\ Outcome /\ setup' = setup
    BY <2>1, TypedCpu, Outcomes
  <2>3. Calm
    BY <2>1, <2>2, CalmBack DEF Types
  <2> QED  BY <2>1, <2>2, <2>3, PlacedStep
<1>3. Inv /\ P => ReturnsToInterrupted
  <2> SUFFICES ASSUME Inv, P, ctx # <<>>, resets = 0 \/ SEnabled = {}
               PROVE  /\ mode = Top.mode /\ pc = 10 * Len(ctx)
                      /\ Len(ctx) = 1 => status.mie /\ status.sie
    BY DEF ReturnsToInterrupted
  <2>1. Placed /\ Nested
    BY DEF Calm, Inv
  <2>2. mode = Top.mode /\ pc = 10 * Len(ctx)
    BY <2>1 DEF Placed, Top, Last
  <2>3. ASSUME Len(ctx) = 1 PROVE status.mie /\ status.sie
    <3>1. Handlers = {}
      BY <2>3 DEF Handlers
    <3> QED  BY <2>1, <3>1 DEF Nested, Disabled
  <2> QED  BY <2>2, <2>3
<1> HIDE DEF P
<1> QED  BY <1>1, <1>2, <1>3, InvHolds, PTL DEF Spec
=============================================================================
