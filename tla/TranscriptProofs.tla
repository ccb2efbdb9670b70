------------------------ MODULE TranscriptProofs ------------------------
(***************************************************************************)
(* That the transcript of a run is causal and complete, for any limits and *)
(* any number of runs, commands and chunks of output.                      *)
(*                                                                         *)
(* Causal: every input that is under way to the program, in a queue, on    *)
(* the socket or in the program's own input, was recorded before it was    *)
(* sent, so the transcript always holds at least as many inputs as the     *)
(* program can have read.                                                  *)
(*                                                                         *)
(* Complete: what the session has of the output and what is under way on   *)
(* the socket are together what the runner has captured, up to the moment  *)
(* at which a failed write makes the response an error.                    *)
(***************************************************************************)
EXTENDS CodeRunProofs, SequenceLemmas

\* The variables of the session and of the runner, but for the types that
\* the proof of module CodeRunProofs has.
SessionTypes ==
  /\ runs \in Nat /\ project \in BOOLEAN
  /\ phase \in {"none", "running", "recorded", "failed"}
  /\ initial \in 0..InputLimit /\ inputBytes \in 0..InputLimit
  /\ events \in Seq(Events) /\ message \in Messages \cup {None}
  /\ queue \in Seq(Commands) /\ unsent \in Seq(Commands) /\ commands \in Nat
  /\ cancelEvent \in BOOLEAN
  /\ client \in {"off", "connect", "cancel", "send", "receive", "done"}
  /\ cancelSent \in BOOLEAN
  /\ answer \in {None, "unavailable", "oversized", "unreachable", "nothing", "deadline", "result", "error"}

RunnerTypes ==
  /\ linked \in BOOLEAN /\ toRunner \in Seq(Commands)
  /\ socketFile \in BOOLEAN
  /\ server \in {"listening", "requested", "running", "draining", "replying", "closed"}
  /\ verdict \in {None, "completed", "canceled", "timed_out", "error", "refused"}
  /\ stdinOpen \in BOOLEAN /\ delivered \in 0..InputLimit
  /\ process \in {"none", "alive", "exited"}
  /\ pipe \in Nat

\* What is on the socket: output, and after it the final response, which has
\* no text; nothing before the runner has started.
SocketInv ==
  /\ linked <=> client \in {"cancel", "send", "receive"}
  /\ server = "requested" => linked /\ toApp = <<>>
  /\ \A i \in DOMAIN toApp :
       /\ toApp[i].type \in {"stdout", "result", "error"}
       /\ toApp[i].type # "stdout" => i = Len(toApp) /\ toApp[i].text = <<>>
  /\ phase = "none" => queue = <<>> /\ unsent = <<>>

\* How many inputs a sequence of commands has.
InputsIn(s) == Cardinality({i \in DOMAIN s : s[i] = "input"})

Recorded == Cardinality(Inputs(events))

First == IF initial > 0 THEN 1 ELSE 0

\* The inputs that the program has read or may yet read.
AtProgram ==
  IF server = "requested" THEN First + InputsIn(toRunner)
  ELSE IF linked /\ server \in {"running", "draining"} THEN consumed + pipe + InputsIn(toRunner)
  ELSE IF client = "connect" THEN First ELSE 0

\* Whatever is under way was recorded before,
Counted ==
  phase # "none" => Recorded >= InputsIn(queue) + InputsIn(unsent) + AtProgram

\* no chunk claims more inputs than were read, or recorded.
WrittenReads == \A i \in DOMAIN written : written[i] <= consumed
SocketReads ==
  \A i \in DOMAIN toApp : \A k \in DOMAIN toApp[i].text : toApp[i].text[k] <= Recorded

InputInv == Counted /\ WrittenReads /\ SocketReads /\ TranscriptIsCausal

\* What has left the runner.
Sent == Output(events) \o Output(toApp)

Failed == verdict \in {"error", "refused"}

\* None before the program runs; all that was captured, as long as no write
\* has failed; all that was written, once the runner answers.
Silent == client = "connect" \/ server = "requested" => Output(events) = <<>>
Streamed ==
  linked /\ (server = "running" \/ (server \in {"draining", "replying"} /\ ~Failed))
    => Sent = Kept(1, captured)
Drained == server = "replying" /\ ~Failed => captured = Len(written)

\* So it is when the result is under way, and when the client holds it.
Responded ==
  (\E i \in DOMAIN toApp : toApp[i].type = "result") => Sent = Kept(1, Len(written))
Answered == answer = "result" => Output(events) = Kept(1, Len(written))

OutputInv == Silent /\ Streamed /\ Drained /\ Responded /\ Answered /\ TranscriptIsComplete

\* The inductive invariant.
TInv == CleanInv /\ SessionTypes /\ RunnerTypes /\ SocketInv /\ InputInv /\ OutputInv

-----------------------------------------------------------------------------
(* Transcripts: their text, and the inputs that are recorded in them.      *)

Texts == Seq(Seq(Nat))

LEMMA TextsAssociative ==
  ASSUME NEW a \in Seq(Nat), NEW b \in Seq(Nat), NEW c \in Seq(Nat)
  PROVE  (a \o b) \o c = a \o (b \o c)
BY SMTT(30)

LEMMA TextsOf ==
  ASSUME NEW e \in Seq(Events)
  PROVE  /\ [i \in DOMAIN e |-> e[i].text] \in Texts
         /\ Len([i \in DOMAIN e |-> e[i].text]) = Len(e)
<1> DEFINE s == [i \in DOMAIN e |-> e[i].text]
<1>1. DOMAIN e = 1..Len(e) /\ Len(e) \in Nat
  OBVIOUS
<1>2. \A i \in 1..Len(e) : e[i].text \in Seq(Nat)
  <2>1. \A i \in 1..Len(e) : e[i] \in Events
    OBVIOUS
  <2> QED BY <2>1 DEF Events
<1>3. s \in [1..Len(e) -> Seq(Nat)]
  BY <1>1, <1>2
<1> QED BY <1>1, <1>3 DEF Texts

LEMMA OutputType ==
  ASSUME NEW e \in Seq(Events)
  PROVE  Output(e) \in Seq(Nat)
<1>1. [i \in DOMAIN e |-> e[i].text] \in Texts
  BY TextsOf
<1> QED BY <1>1, FlattenType DEF Output, Texts

LEMMA OutputEmpty == Output(<<>>) = <<>>
<1>1. [i \in DOMAIN <<>> |-> <<>>[i].text] = <<>>
  OBVIOUS
<1> QED BY <1>1, FlattenEmpty, Zenon DEF Output

LEMMA OutputConcat ==
  ASSUME NEW e \in Seq(Events), NEW f \in Seq(Events)
  PROVE  Output(e \o f) = Output(e) \o Output(f)
<1> DEFINE s == [i \in DOMAIN e |-> e[i].text]
           t == [i \in DOMAIN f |-> f[i].text]
           g == e \o f
<1>1. s \in Texts /\ t \in Texts
  BY TextsOf
<1>2. Len(g) = Len(e) + Len(f) /\ g \in Seq(Events)
  BY ConcatProperties
<1>3. Len(s) = Len(e) /\ Len(t) = Len(f)
  BY TextsOf
<1>4. [i \in DOMAIN g |-> g[i].text] = s \o t
  <2>1. DOMAIN g = 1..Len(g) /\ DOMAIN (s \o t) = 1..Len(g)
    <3>1. g \in Seq(Events) /\ Len(g) = Len(e) + Len(f)
      BY <1>2
    <3>2. s \o t \in Seq(Seq(Nat)) /\ Len(s \o t) = Len(e) + Len(f)
      <4> HIDE DEF s, t, g
      <4>1. s \in Seq(Seq(Nat)) /\ t \in Seq(Seq(Nat))
        BY <1>1 DEF Texts
      <4>2. s \o t \in Seq(Seq(Nat)) /\ Len(s \o t) = Len(s) + Len(t)
        BY ONLY <4>1, Concatenations
      <4> QED BY <1>3, <4>2
    <3> DEFINE c == s \o t
    <3>3. c \in Seq(Seq(Nat)) /\ Len(c) = Len(g)
      BY <3>1, <3>2
    <3> HIDE DEF c, g
    <3>4. DOMAIN g = 1..Len(g) /\ DOMAIN c = 1..Len(g)
      BY <3>1, <3>3
    <3> QED BY <3>4 DEF c
  <2>2. ASSUME NEW i \in 1..Len(g) PROVE g[i].text = (s \o t)[i]
    <3>1. CASE i <= Len(e)
      <4>1. g[i] = e[i] /\ i \in DOMAIN e
        BY <1>2, <3>1
      <4>2. (s \o t)[i] = s[i]
        <5> HIDE DEF s, t, g
        <5> QED BY <1>1, <1>2, <1>3, <3>1 DEF Texts
      <4> QED BY <4>1, <4>2
    <3>2. CASE i > Len(e)
      <4>1. g[i] = f[i - Len(e)] /\ i - Len(e) \in DOMAIN f
        BY <1>2, <3>2
      <4>2. (s \o t)[i] = t[i - Len(e)]
        <5> HIDE DEF s, t, g
        <5> QED BY <1>1, <1>2, <1>3, <3>2, SMTT(30) DEF Texts
      <4> QED BY <4>1, <4>2
    <3> QED BY <1>2, <3>1, <3>2
  <2>3. s \o t = [i \in 1..Len(g) |-> (s \o t)[i]]
    <3> HIDE DEF s, t, g
    <3>1. s \o t \in Seq(Seq(Nat))
      BY <1>1 DEF Texts
    <3> DEFINE c == s \o t
    <3>2. c \in Seq(Seq(Nat)) /\ DOMAIN c = 1..Len(g)
      BY <2>1, <3>1
    <3> HIDE DEF c
    <3>3. c = [i \in 1..Len(g) |-> c[i]]
      BY <3>2
    <3> QED BY <3>3 DEF c
  <2> HIDE DEF s, t, g
  <2> QED BY <2>1, <2>2, <2>3
<1>5. Output(g) = FlattenSeq(s \o t)
  BY <1>4, Zenon DEF Output
<1>6. FlattenSeq(s \o t) = FlattenSeq(s) \o FlattenSeq(t)
  <2> HIDE DEF s, t
  <2> QED BY <1>1, FlattenConcat DEF Texts
<1> QED BY <1>5, <1>6 DEF Output

LEMMA OutputAppend ==
  ASSUME NEW e \in Seq(Events), NEW x \in Events
  PROVE  Output(Append(e, x)) = Output(e) \o x.text
<1> DEFINE s == [i \in DOMAIN e |-> e[i].text]
           g == Append(e, x)
<1>1. s \in Texts /\ x.text \in Seq(Nat) /\ Len(s) = Len(e)
  BY TextsOf DEF Events
<1>2. Len(g) = Len(e) + 1 /\ DOMAIN g = 1..Len(g) /\ DOMAIN s = 1..Len(e)
  OBVIOUS
<1>3. \A i \in 1..Len(g) : g[i].text = IF i = Len(e) + 1 THEN x.text ELSE s[i]
  OBVIOUS
<1>4. \A i \in 1..Len(g) : Append(s, x.text)[i] = IF i = Len(e) + 1 THEN x.text ELSE s[i]
  <2> HIDE DEF s, g
  <2> QED BY <1>1, <1>2 DEF Texts
<1>5. Append(s, x.text) = [i \in 1..Len(g) |-> Append(s, x.text)[i]]
  <2> HIDE DEF s, g
  <2> QED BY <1>1, <1>2 DEF Texts
<1>6. [i \in DOMAIN g |-> g[i].text] = Append(s, x.text)
  <2> HIDE DEF s, g
  <2> QED BY <1>2, <1>3, <1>4, <1>5
<1>7. Output(g) = FlattenSeq(Append(s, x.text))
  BY <1>6, Zenon DEF Output
<1>8. FlattenSeq(Append(s, x.text)) = FlattenSeq(s) \o x.text
  <2> HIDE DEF s
  <2> QED BY <1>1, FlattenAppend DEF Texts
<1> QED BY <1>7, <1>8 DEF Output

\* What is cut off at the end of a transcript is cut off at the end of its
\* text.
LEMMA PrefixOfConcatenation ==
  ASSUME NEW a \in Seq(Nat), NEW b \in Seq(Nat)
  PROVE  IsPrefix(a, a \o b)
<1> DEFINE c == a \o b
<1>1. c \in Seq(Nat) /\ Len(a) <= Len(c) /\ \A i \in 1..Len(a) : c[i] = a[i]
  OBVIOUS
<1> HIDE DEF c
<1>2. SubSeq(c, 1, Len(a)) = a /\ SubSeq(a, 1, Len(a)) = a
  BY <1>1
<1> QED BY <1>1, <1>2 DEF IsPrefix, c

LEMMA ShownIsPrefix ==
  ASSUME NEW e \in Seq(Events), NEW m \in Shown(e)
  PROVE  /\ m \in Messages
         /\ m.result = e
         /\ IsPrefix(Output(m.shown), Output(e))
         /\ ~m.truncated => m.shown = e
<1>1. PICK n \in 0..Len(e) : m.shown = SubSeq(e, 1, n)
  BY DEF Shown
<1>2. m.result = e /\ (~m.truncated => m.shown = e)
  BY DEF Shown
<1> DEFINE a == SubSeq(e, 1, n)
           b == SubSeq(e, n + 1, Len(e))
<1>3. a \in Seq(Events) /\ b \in Seq(Events)
  OBVIOUS
<1>4. m \in Messages
  BY <1>1, <1>3 DEF Shown, Messages
<1>5. e = a \o b
  <2>1. Len(a) = n /\ Len(b) = Len(e) - n /\ (\A i \in 1..n : a[i] = e[i])
        /\ \A i \in 1..(Len(e) - n) : b[i] = e[n + i]
    OBVIOUS
  <2> HIDE DEF a, b
  <2> DEFINE c == a \o b
  <2>2. c \in Seq(Events) /\ Len(c) = Len(e)
    <3>1. c \in Seq(Events) /\ Len(c) = Len(a) + Len(b)
      BY ONLY <1>3, Concatenations
    <3> QED BY <2>1, <3>1
  <2>3. ASSUME NEW i \in 1..Len(e) PROVE c[i] = e[i]
    <3>1. CASE i <= n
      BY <1>3, <2>1, <3>1
    <3>2. CASE ~(i <= n)
      <4> DEFINE j == i - n
      <4>1. j \in 1..Len(b) /\ Len(a) + j = i
        BY <2>1, <3>2
      <4> HIDE DEF j
      <4>2. c[Len(a) + j] = b[j]
        BY ONLY <1>3, <4>1, ConcatenationElements
      <4>3. e[n + j] = b[j]
        BY <2>1, <4>1
      <4> QED BY <2>1, <4>1, <4>2, <4>3
    <3> QED BY <3>1, <3>2
  <2> HIDE DEF c
  <2>4. c = e
    BY <2>2, <2>3
  <2> QED BY <2>4 DEF c
<1> HIDE DEF a, b
<1>6. Output(a) \in Seq(Nat) /\ Output(b) \in Seq(Nat)
  BY <1>3, OutputType
<1>7. Output(e) = Output(a) \o Output(b)
  BY <1>3, <1>5, OutputConcat, Zenon
<1>8. IsPrefix(Output(a), Output(e))
  BY <1>6, <1>7, PrefixOfConcatenation, Zenon
<1> QED BY <1>1, <1>2, <1>4, <1>8 DEF a

\* The inputs of a transcript are finitely many.
LEMMA InputsFinite ==
  ASSUME NEW e \in Seq(Events)
  PROVE  /\ IsFiniteSet(Inputs(e))
         /\ Cardinality(Inputs(e)) \in Nat
<1>1. IsFiniteSet(1..Len(e)) /\ DOMAIN e = 1..Len(e)
  BY FS_Interval
<1>2. Inputs(e) \in SUBSET (1..Len(e))
  BY <1>1 DEF Inputs
<1> QED BY <1>1, <1>2, FS_Subset, FS_CardinalityType

\* One more is recorded at the end,
LEMMA InputsAppend ==
  ASSUME NEW e \in Seq(Events)
  PROVE  /\ Inputs(Append(e, Stdin)) = Inputs(e) \cup {Len(e) + 1}
         /\ Cardinality(Inputs(Append(e, Stdin))) = Cardinality(Inputs(e)) + 1
         /\ Append(e, Stdin) \in Seq(Events)
<1>1. Stdin \in Events /\ Stdin.type = "stdin"
  BY DEF Stdin, Events
<1> DEFINE g == Append(e, Stdin)
<1>2. g \in Seq(Events) /\ DOMAIN g = 1..(Len(e) + 1) /\ g[Len(e) + 1] = Stdin
      /\ \A i \in 1..Len(e) : g[i] = e[i]
  BY <1>1
<1> HIDE DEF g
<1>3. Inputs(g) = Inputs(e) \cup {Len(e) + 1} /\ Len(e) + 1 \notin Inputs(e)
  BY <1>1, <1>2 DEF Inputs
<1>4. Cardinality(Inputs(e) \cup {Len(e) + 1}) = Cardinality(Inputs(e)) + 1
  BY <1>3, InputsFinite, FS_AddElement
<1> QED BY <1>2, <1>3, <1>4 DEF g

\* and output changes nothing about them.
LEMMA InputsConcat ==
  ASSUME NEW e \in Seq(Events), NEW f \in Seq(Events), \A i \in DOMAIN f : f[i].type # "stdin"
  PROVE  Inputs(e \o f) = Inputs(e)
<1> DEFINE g == e \o f
<1>1. DOMAIN g = 1..(Len(e) + Len(f)) /\ (\A i \in 1..Len(e) : g[i] = e[i])
      /\ \A i \in 1..(Len(e) + Len(f)) : i > Len(e) => i - Len(e) \in DOMAIN f /\ g[i] = f[i - Len(e)]
  OBVIOUS
<1> HIDE DEF g
<1>2. Inputs(g) = Inputs(e)
  BY <1>1 DEF Inputs
<1> QED BY <1>2 DEF g

-----------------------------------------------------------------------------
(* Commands: how many inputs a sequence of them has.                       *)

IsInput(command) == IF command = "input" THEN 1 ELSE 0

LEMMA InputsInType ==
  ASSUME NEW s \in Seq(Commands)
  PROVE  /\ IsFiniteSet({i \in DOMAIN s : s[i] = "input"})
         /\ InputsIn(s) \in Nat
<1>1. IsFiniteSet(1..Len(s)) /\ DOMAIN s = 1..Len(s)
  BY FS_Interval
<1>2. {i \in DOMAIN s : s[i] = "input"} \in SUBSET (1..Len(s))
  BY <1>1
<1> QED BY <1>1, <1>2, FS_Subset, FS_CardinalityType DEF InputsIn

LEMMA InputsInEmpty == InputsIn(<<>>) = 0
<1>1. {i \in DOMAIN <<>> : <<>>[i] = "input"} = {}
  OBVIOUS
<1> QED BY <1>1, FS_EmptySet, Zenon DEF InputsIn

LEMMA InputsInAppend ==
  ASSUME NEW s \in Seq(Commands), NEW c \in Commands
  PROVE  InputsIn(Append(s, c)) = InputsIn(s) + IsInput(c)
<1> DEFINE g == Append(s, c)
           A == {i \in DOMAIN s : s[i] = "input"}
           B == {i \in DOMAIN g : g[i] = "input"}
<1>1. DOMAIN g = 1..(Len(s) + 1) /\ g[Len(s) + 1] = c /\ (\A i \in 1..Len(s) : g[i] = s[i])
      /\ DOMAIN s = 1..Len(s) /\ Len(s) \in Nat
  OBVIOUS
<1>2. B = IF c = "input" THEN A \cup {Len(s) + 1} ELSE A
  <2> HIDE DEF g
  <2> QED BY <1>1
<1>3. IsFiniteSet(A) /\ Cardinality(A) \in Nat /\ Len(s) + 1 \notin A
  <2>1. Len(s) + 1 \notin A
    BY <1>1
  <2>2. IsFiniteSet(A)
    BY InputsInType
  <2> HIDE DEF A
  <2> QED BY <2>1, <2>2, FS_CardinalityType
<1>4. Cardinality(A \cup {Len(s) + 1}) = Cardinality(A) + 1
  <2> HIDE DEF A
  <2> QED BY <1>3, FS_AddElement
<1>5. InputsIn(s) = Cardinality(A) /\ InputsIn(g) = Cardinality(B)
  BY DEF InputsIn
<1> HIDE DEF A, B, g
<1>6. InputsIn(g) = InputsIn(s) + IsInput(c)
  BY <1>2, <1>3, <1>4, <1>5 DEF IsInput
<1> QED BY <1>6 DEF g

\* A sequence that has only other elements of s than the i-th has only the
\* other inputs.
LEMMA InputsInShift ==
  ASSUME NEW s \in Seq(Commands), NEW t \in Seq(Commands), NEW i \in DOMAIN s,
         NEW f \in Injection(DOMAIN t, DOMAIN s \ {i}), \A j \in DOMAIN t : t[j] = s[f[j]]
  PROVE  InputsIn(t) + IsInput(s[i]) <= InputsIn(s)
<1> DEFINE A == {j \in DOMAIN t : t[j] = "input"}
           B == {j \in DOMAIN s : s[j] = "input"}
           g == [j \in A |-> f[j]]
<1>1. f \in [DOMAIN t -> DOMAIN s \ {i}] /\ \A j, k \in DOMAIN t : f[j] = f[k] => j = k
  BY DEF Injection, IsInjective
<1>2. g \in [A -> B \ {i}] /\ \A j, k \in A : g[j] = g[k] => j = k
  BY <1>1
<1>3. g \in Injection(A, B \ {i})
  <2> HIDE DEF A, B, g
  <2> QED BY <1>2 DEF Injection, IsInjective
<1>4. IsFiniteSet(B) /\ Cardinality(B) \in Nat /\ IsFiniteSet(A) /\ Cardinality(A) \in Nat
  BY InputsInType, FS_CardinalityType
<1>5. i \in B <=> s[i] = "input"
  OBVIOUS
<1>6. Cardinality(A) = InputsIn(t) /\ Cardinality(B) = InputsIn(s)
  BY DEF InputsIn
<1> HIDE DEF A, B, g
<1>7. Cardinality(A) <= Cardinality(B \ {i}) /\ IsFiniteSet(B \ {i})
      /\ Cardinality(B \ {i}) = IF i \in B THEN Cardinality(B) - 1 ELSE Cardinality(B)
  BY <1>3, <1>4, FS_Injection, FS_RemoveElement
<1> QED BY <1>4, <1>5, <1>6, <1>7 DEF IsInput

LEMMA InputsInTail ==
  ASSUME NEW s \in Seq(Commands), s # <<>>
  PROVE  /\ InputsIn(Tail(s)) + IsInput(Head(s)) <= InputsIn(s)
         /\ Tail(s) \in Seq(Commands)
         /\ Head(s) \in Commands
<1> DEFINE t == Tail(s)
           f == [j \in DOMAIN t |-> j + 1]
<1>1. t \in Seq(Commands) /\ DOMAIN s = 1..Len(s) /\ DOMAIN t = 1..(Len(s) - 1) /\ Len(s) \in Nat \ {0}
      /\ Head(s) = s[1] /\ \A j \in 1..(Len(s) - 1) : t[j] = s[j + 1]
  OBVIOUS
<1> HIDE DEF t
<1>2. f \in [DOMAIN t -> DOMAIN s \ {1}] /\ (\A j, k \in DOMAIN t : f[j] = f[k] => j = k)
      /\ \A j \in DOMAIN t : t[j] = s[f[j]]
  BY <1>1
<1>3. f \in Injection(DOMAIN t, DOMAIN s \ {1})
  <2> HIDE DEF f
  <2> QED BY <1>2 DEF Injection, IsInjective
<1>4. 1 \in DOMAIN s
  BY <1>1
<1> HIDE DEF f
<1>5. InputsIn(t) + IsInput(s[1]) <= InputsIn(s)
  BY <1>1, <1>2, <1>3, <1>4, InputsInShift
<1> QED BY <1>1, <1>5 DEF t

LEMMA InputsInRemoveAt ==
  ASSUME NEW s \in Seq(Commands), NEW i \in DOMAIN s
  PROVE  /\ InputsIn(RemoveAt(s, i)) + IsInput(s[i]) <= InputsIn(s)
         /\ RemoveAt(s, i) \in Seq(Commands)
<1> DEFINE t == RemoveAt(s, i)
           f == [j \in DOMAIN t |-> IF j < i THEN j ELSE j + 1]
<1>1. i \in 1..Len(s) /\ DOMAIN s = 1..Len(s) /\ Len(s) \in Nat
  OBVIOUS
<1>2. t \in Seq(Commands) /\ DOMAIN t = 1..(Len(s) - 1)
      /\ \A j \in 1..(Len(s) - 1) : t[j] = IF j < i THEN s[j] ELSE s[j + 1]
  <2> DEFINE a == SubSeq(s, 1, i - 1)
             b == SubSeq(s, i + 1, Len(s))
  <2>1. a \in Seq(Commands) /\ Len(a) = i - 1 /\ \A j \in 1..(i - 1) : a[j] = s[j]
    BY <1>1
  <2>2. b \in Seq(Commands) /\ Len(b) = Len(s) - i /\ \A j \in 1..(Len(s) - i) : b[j] = s[i + j]
    BY <1>1
  <2> HIDE DEF a, b
  <2>3. t = a \o b
    BY DEF a, b, RemoveAt
  <2> HIDE DEF t
  <2>4. t \in Seq(Commands) /\ Len(t) = Len(s) - 1
    <3>1. a \o b \in Seq(Commands) /\ Len(a \o b) = Len(a) + Len(b)
      BY ONLY <2>1, <2>2, Concatenations
    <3> QED BY <1>1, <2>1, <2>2, <2>3, <3>1
  <2>5. ASSUME NEW j \in 1..(Len(s) - 1) PROVE t[j] = IF j < i THEN s[j] ELSE s[j + 1]
    <3>1. CASE j < i
      <4>1. j \in 1..Len(a)
        BY <1>1, <2>1, <3>1
      <4>2. t[j] = a[j]
        BY <2>1, <2>2, <2>3, <4>1
      <4> QED BY <1>1, <2>1, <3>1, <4>2
    <3>2. CASE ~(j < i)
      <4>1. j - (i - 1) \in 1..(Len(s) - i) /\ i + (j - (i - 1)) = j + 1
        BY <1>1, <3>2
      <4>2. t[j] = b[j - (i - 1)]
        <5> DEFINE m == j - (i - 1)
        <5>1. m \in 1..Len(b) /\ a \in Seq(Commands) /\ b \in Seq(Commands)
          BY <2>1, <2>2, <4>1
        <5>2. Len(a) + m = j
          BY <1>1, <2>1
        <5> HIDE DEF m
        <5>3. (a \o b)[Len(a) + m] = b[m]
          BY ONLY <5>1, ConcatenationElements
        <5>4. t[j] = b[m]
          BY <2>3, <5>2, <5>3, Zenon
        <5> QED BY <5>4 DEF m
      <4> QED BY <2>2, <3>2, <4>1, <4>2
    <3> QED BY <3>1, <3>2
  <2>6. DOMAIN t = 1..(Len(s) - 1)
    BY <2>4
  <2> QED BY <2>4, <2>5, <2>6
<1> HIDE DEF t
<1>3. f \in [DOMAIN t -> DOMAIN s \ {i}] /\ (\A j, k \in DOMAIN t : f[j] = f[k] => j = k)
      /\ \A j \in DOMAIN t : t[j] = s[f[j]]
  BY <1>1, <1>2
<1>4. f \in Injection(DOMAIN t, DOMAIN s \ {i})
  <2> HIDE DEF f
  <2> QED BY <1>3 DEF Injection, IsInjective
<1> HIDE DEF f
<1>5. InputsIn(t) + IsInput(s[i]) <= InputsIn(s)
  BY <1>2, <1>3, <1>4, InputsInShift
<1> QED BY <1>2, <1>5 DEF t

\* What the runner's request leaves of the commands behind it has no more
\* inputs than there were.
LEMMA ReadRequestInputs ==
  ASSUME RunnerTypes, ReadRequest
  PROVE  toRunner' \in Seq(Commands) /\ InputsIn(toRunner') <= InputsIn(toRunner)
<1>1. PICK n \in 0..Len(toRunner) : toRunner' = SubSeq(toRunner, n + 1, Len(toRunner))
  BY DEF ReadRequest
<1> DEFINE s == toRunner
           t == SubSeq(toRunner, n + 1, Len(toRunner))
           A == {j \in DOMAIN t : t[j] = "input"}
           B == {j \in DOMAIN s : s[j] = "input"}
           g == [j \in A |-> j + n]
<1>2. s \in Seq(Commands) /\ DOMAIN s = 1..Len(s) /\ Len(s) \in Nat /\ n \in 0..Len(s)
  BY DEF RunnerTypes
<1>3. t \in Seq(Commands) /\ DOMAIN t = 1..(Len(s) - n) /\ \A j \in 1..(Len(s) - n) : t[j] = s[j + n]
  BY <1>2
<1>4. InputsIn(t) = Cardinality(A) /\ InputsIn(s) = Cardinality(B) /\ IsFiniteSet(B)
  BY <1>2, InputsInType DEF InputsIn
<1> HIDE DEF s, t
<1>5. g \in [A -> B] /\ \A j, k \in A : g[j] = g[k] => j = k
  BY <1>2, <1>3
<1> HIDE DEF A, B, g
<1>6. g \in Injection(A, B)
  BY <1>5 DEF Injection, IsInjective
<1>7. Cardinality(A) <= Cardinality(B)
  BY <1>4, <1>6, FS_Injection
<1> QED BY <1>1, <1>3, <1>4, <1>7 DEF s, t

-----------------------------------------------------------------------------
(* Output: what of it is kept.                                             *)

LEMMA KeptAdds ==
  ASSUME PipeInv, NEW last \in captured..Len(written)
  PROVE  /\ Kept(1, last) = Kept(1, captured) \o Kept(captured + 1, last)
         /\ Kept(1, captured) \in Seq(Nat)
         /\ Kept(captured + 1, last) \in Seq(Nat)
<1>1. written \in Seq(Nat) /\ captured \in 0..Len(written) /\ Len(written) \in Nat /\ OutputLimit \in Nat
      /\ last \in captured..Len(written)
  BY CodeRunAssumption DEF PipeInv
<1> DEFINE w == written
           m == IF captured < OutputLimit THEN captured ELSE OutputLimit
           n == IF last < OutputLimit THEN last ELSE OutputLimit
<1>2. m \in 0..Len(w) /\ n \in m..Len(w) /\ n \in Nat /\ m \in Nat
  BY <1>1
<1>3. Kept(1, last) = SubSeq(w, 1, n) /\ Kept(1, captured) = SubSeq(w, 1, m)
  BY DEF Kept
<1>4. Kept(captured + 1, last) = SubSeq(w, m + 1, n)
  <2>1. CASE captured < OutputLimit
    BY <2>1 DEF Kept
  <2>2. CASE ~(captured < OutputLimit)
    <3>1. n = OutputLimit /\ m = OutputLimit
      BY <1>1, <2>2
    <3>2. SubSeq(w, m + 1, n) = <<>>
      BY <1>2, <3>1, SubSeqEmpty
    <3>3. SubSeq(w, captured + 1, n) = <<>>
      BY <1>1, <2>2, <3>1, SubSeqEmpty
    <3> QED BY <3>2, <3>3 DEF Kept
  <2> QED BY <2>1, <2>2
<1> HIDE DEF m, n
<1>5. SubSeq(w, 1, m) \o SubSeq(w, m + 1, n) = SubSeq(w, 1, n)
  BY <1>1, <1>2, ConcatAdjacentSubSeq, SMTT(30)
<1>6. SubSeq(w, 1, m) \in Seq(Nat) /\ SubSeq(w, m + 1, n) \in Seq(Nat)
  BY <1>1, <1>2, SMTT(30)
<1> QED BY <1>3, <1>4, <1>5, <1>6

LEMMA KeptNothing == captured' = 0 => Kept(1, captured)' = <<>>
<1>1. OutputLimit \in Nat
  BY CodeRunAssumption
<1>2. (IF 0 < OutputLimit THEN 0 ELSE OutputLimit) = 0
  BY <1>1
<1>3. SubSeq(written', 1, 0) = <<>>
  BY SubSeqEmpty
<1> QED BY <1>2, <1>3 DEF Kept

-----------------------------------------------------------------------------
(* The types.                                                              *)

LEMMA Kinds ==
  /\ Stdin \in Events /\ Stdin.type = "stdin" /\ Stdin.text = <<>>
  /\ {"input", "close_stdin", "cancel"} = Commands
BY DEF Stdin, Events, Commands

LEMMA SubmitTypes ==
  ASSUME SessionTypes, RunnerTypes, NEW command \in Commands, Submit(command),
         inputBytes' \in 0..InputLimit, events' \in Seq(Events), cancelEvent' \in BOOLEAN
  PROVE  SessionTypes' /\ RunnerTypes'
BY DEF Submit, SessionTypes, RunnerTypes, thread, link, runner, program

LEMMA BrowserTypes ==
  ASSUME SessionTypes, RunnerTypes, Browser \/ SendCommand
  PROVE  SessionTypes' /\ RunnerTypes'
<1>1. CASE StartRun
  <2>1. initial' \in 0..InputLimit
    BY <1>1, CodeRunAssumption DEF StartRun
  <2>2. events' \in Seq(Events)
    BY <1>1, Kinds DEF StartRun
  <2> QED BY <1>1, <2>1, <2>2 DEF StartRun, SessionTypes, RunnerTypes, link, runner, program
<1>2. CASE SubmitInput
  <2>1. inputBytes' \in 0..InputLimit
    BY <1>2, CodeRunAssumption DEF SubmitInput, SessionTypes
  <2>2. events' \in Seq(Events)
    BY <1>2, InputsAppend DEF SubmitInput, SessionTypes
  <2> QED BY <1>2, <2>1, <2>2, Kinds, SubmitTypes DEF SubmitInput, SessionTypes
<1>3. CASE SubmitEof
  BY <1>3, Kinds, SubmitTypes DEF SubmitEof, SessionTypes
<1>4. CASE CancelRun
  BY <1>4, Kinds, SubmitTypes DEF CancelRun, SessionTypes
<1>5. CASE DeleteProject
  <2>1. project' = FALSE /\ UNCHANGED <<runs, session, message, thread, linked, toRunner, runner, process, pipe>>
    BY <1>5 DEF DeleteProject, link, program
  <2>2. SessionTypes'
    BY <2>1, ZenonT(30) DEF SessionTypes, session, thread
  <2>3. RunnerTypes'
    BY <2>1 DEF RunnerTypes, runner
  <2> QED BY <2>2, <2>3
<1>6. CASE SendCommand
  <2>1. PICK i \in DOMAIN unsent : queue' = Append(queue, unsent[i]) /\ unsent' = RemoveAt(unsent, i)
    BY <1>6 DEF SendCommand
  <2>2. queue' \in Seq(Commands)
    BY <2>1 DEF SessionTypes
  <2>3. unsent' \in Seq(Commands)
    BY <2>1, InputsInRemoveAt DEF SessionTypes
  <2> QED BY <1>6, <2>2, <2>3 DEF SendCommand, SessionTypes, RunnerTypes, thread, link, runner, program
<1> QED BY <1>1, <1>2, <1>3, <1>4, <1>5, <1>6 DEF Browser

LEMMA CoordinatorTypes ==
  ASSUME SessionTypes, RunnerTypes, Coordinator
  PROVE  SessionTypes' /\ RunnerTypes'
<1> USE DEF SessionTypes, RunnerTypes, thread, link, runner, program
<1>1. CASE NoticeHangUp
  BY <1>1 DEF NoticeHangUp
<1>2. CASE RecordResult
  <2>1. message' \in Messages \cup {None}
    BY <1>2, ShownIsPrefix DEF RecordResult
  <2> QED BY <1>2, <2>1 DEF RecordResult
<1>3. CASE CloseSession
  <2>1. /\ phase' = "none" /\ initial' = 0 /\ inputBytes' = 0 /\ queue' = <<>> /\ unsent' = <<>>
        /\ events' = <<>> /\ cancelEvent' = FALSE /\ message' = None /\ client' = "off"
        /\ cancelSent' = FALSE /\ answer' = None /\ UNCHANGED <<runs, project, commands>>
    BY <1>3 DEF CloseSession
  <2>2. 0 \in 0..InputLimit
    BY CodeRunAssumption
  <2>3. SessionTypes'
    <3>1. events' \in Seq(Events) /\ message' \in Messages \cup {None}
          /\ queue' \in Seq(Commands) /\ unsent' \in Seq(Commands)
      BY <2>1
    <3>2. initial' \in 0..InputLimit /\ inputBytes' \in 0..InputLimit
      BY <2>1, <2>2, Zenon
    <3>3. UNCHANGED <<runs, project, commands>>
      BY <2>1
    <3>4. phase' = "none" /\ cancelEvent' = FALSE /\ client' = "off" /\ cancelSent' = FALSE /\ answer' = None
      BY <2>1
    <3> QED BY <3>1, <3>2, <3>3, <3>4
  <2>4. RunnerTypes'
    BY <1>3 DEF CloseSession
  <2> QED BY <2>3, <2>4
<1> QED BY <1>1, <1>2, <1>3 DEF Coordinator

LEMMA TransmitTypes ==
  ASSUME SessionTypes, RunnerTypes, NEW command \in Commands, NEW next \in {"send", "receive"},
         Transmit(command, next)
  PROVE  /\ client' \in {"send", "receive", "done"}
         /\ answer' \in {None, "unavailable", "oversized", "unreachable", "nothing", "deadline", "result", "error"}
         /\ linked' \in BOOLEAN /\ toRunner' \in Seq(Commands)
<1>1. toRunner \in Seq(Commands) /\ linked \in BOOLEAN
      /\ answer \in {None, "unavailable", "oversized", "unreachable", "nothing", "deadline", "result", "error"}
  BY DEF SessionTypes, RunnerTypes
<1>2. CASE PeerClosed
  BY <1>1, <1>2 DEF Transmit, EndClient
<1>3. CASE ~PeerClosed
  BY <1>1, <1>3 DEF Transmit
<1> QED BY <1>2, <1>3

LEMMA ClientTypes ==
  ASSUME CleanInv, SessionTypes, RunnerTypes, SocketInv, Client \/ GiveUp
  PROVE  SessionTypes' /\ RunnerTypes'
<1>1. CASE Connect
  <2>1. UNCHANGED <<runs, project, session, message, cancelSent, socketFile, verdict, stdinOpen,
                    delivered, captured, program>>
    BY <1>1 DEF Connect
  <2>2. client' \in {"cancel", "done"} /\ linked' \in BOOLEAN /\ toRunner' \in Seq(Commands)
        /\ (answer' \in {answer, "unavailable", "oversized"}) /\ (server' = server \/ server' = "requested")
    <3>1. toRunner \in Seq(Commands) /\ <<>> \in Seq(Commands) /\ linked \in BOOLEAN
      BY DEF RunnerTypes
    <3>2. CASE client' = "cancel"
      BY <1>1, <3>1, <3>2 DEF Connect, EndClient
    <3>3. CASE client' # "cancel"
      BY <1>1, <3>1, <3>3 DEF Connect, EndClient
    <3> QED BY <3>2, <3>3
  <2>3. SessionTypes'
    BY <2>1, <2>2 DEF SessionTypes, session
  <2>4. RunnerTypes'
    BY <2>1, <2>2 DEF RunnerTypes, program
  <2> QED BY <2>3, <2>4
<1>2. CASE SendCancel
  <2>1. /\ client' \in {"send", "receive", "done"}
        /\ answer' \in {None, "unavailable", "oversized", "unreachable", "nothing", "deadline", "result", "error"}
        /\ linked' \in BOOLEAN /\ toRunner' \in Seq(Commands) /\ cancelSent' \in BOOLEAN
    BY <1>2, Kinds, TransmitTypes DEF SendCancel, SessionTypes, RunnerTypes, link
  <2> QED BY <1>2, <2>1 DEF SendCancel, SessionTypes, RunnerTypes, session, runner, program
<1>3. CASE SendQueued
  <2>1. CASE queue = <<>>
    BY <1>3, <2>1 DEF SendQueued, SessionTypes, RunnerTypes, link, runner, program
  <2>2. CASE queue # <<>>
    <3>1. queue' = Tail(queue) /\ Transmit(Head(queue), "send")
      BY <1>3, <2>2 DEF SendQueued
    <3>2. queue' \in Seq(Commands) /\ Head(queue) \in Commands
      BY <2>2, <3>1, InputsInTail DEF SessionTypes
    <3>3. /\ client' \in {"send", "receive", "done"}
          /\ answer' \in {None, "unavailable", "oversized", "unreachable", "nothing", "deadline", "result", "error"}
          /\ linked' \in BOOLEAN /\ toRunner' \in Seq(Commands)
      BY <3>1, <3>2, TransmitTypes
    <3> QED BY <1>3, <3>2, <3>3 DEF SendQueued, SessionTypes, RunnerTypes, runner, program
  <2> QED BY <2>1, <2>2
<1>4. CASE Receive
  <2>1. /\ events' \in Seq(Events) /\ client' \in {"cancel", "done"} /\ linked' \in BOOLEAN
        /\ answer' \in {None, "unavailable", "oversized", "unreachable", "nothing", "deadline", "result", "error"}
    <3>1. CASE toApp = <<>>
      BY <1>4, <3>1 DEF Receive, EndClient, SessionTypes, RunnerTypes
    <3>2. CASE toApp # <<>>
      <4>1. PICK k \in 1..Len(toApp) :
              IF toApp[k].type = "stdout"
              THEN events' = events \o SubSeq(toApp, 1, k) /\ client' = "cancel" /\ UNCHANGED <<answer, linked>>
              ELSE events' = events \o SubSeq(toApp, 1, k - 1) /\ EndClient(toApp[k].type)
        BY <1>4, <3>2 DEF Receive
      <4>2. toApp \in Seq(Events) /\ events \in Seq(Events) /\ linked \in BOOLEAN
            /\ answer \in {None, "unavailable", "oversized", "unreachable", "nothing", "deadline", "result", "error"}
        BY DEF CleanInv, LinkInv, SessionTypes, RunnerTypes
      <4>3. SubSeq(toApp, 1, k) \in Seq(Events) /\ SubSeq(toApp, 1, k - 1) \in Seq(Events)
        BY <4>2
      <4> DEFINE a == SubSeq(toApp, 1, k)
                 b == SubSeq(toApp, 1, k - 1)
      <4>4. a \in Seq(Events) /\ b \in Seq(Events)
        BY <4>3
      <4>5. events \o a \in Seq(Events) /\ events \o b \in Seq(Events)
        <5> HIDE DEF a, b
        <5> QED BY ONLY <4>2, <4>4, Concatenations
      <4>6. toApp[k].type \in {"stdout", "result", "error"}
        BY <4>2 DEF SocketInv
      <4>7. CASE toApp[k].type = "stdout"
        BY <4>1, <4>2, <4>5, <4>7
      <4>8. CASE toApp[k].type # "stdout"
        BY <4>1, <4>2, <4>5, <4>6, <4>8 DEF EndClient
      <4> QED BY <4>7, <4>8
    <3> QED BY <3>1, <3>2
  <2> QED BY <1>4, <2>1 DEF Receive, SessionTypes, RunnerTypes, runner, program
<1>5. CASE GiveUp
  <2>1. client' = "done" /\ answer' = "deadline" /\ linked' = FALSE
        /\ UNCHANGED <<runs, project, session, message, cancelSent, toRunner, runner, program>>
    BY <1>5 DEF GiveUp, EndClient
  <2>2. SessionTypes'
    BY <2>1 DEF SessionTypes, session
  <2>3. RunnerTypes'
    BY <2>1 DEF RunnerTypes, runner, program
  <2> QED BY <2>2, <2>3
<1> QED BY <1>1, <1>2, <1>3, <1>4, <1>5 DEF Client

LEMMA RunnerStepTypes ==
  ASSUME SessionTypes, RunnerTypes, Spawn \/ Pump \/ Finish \/ Program
  PROVE  SessionTypes' /\ RunnerTypes'
<1>1. UNCHANGED <<runs, project, session, message, thread, linked>>
  BY DEF Pump, Finish, Program, Spawn, PumpOutput, PumpFails, ForwardInput, CloseStdin, Canceled,
         LoopEnds, Drain, Reply, Listen, Write, Read, Exit, link
<1>2. SessionTypes'
  BY <1>1 DEF SessionTypes, session, thread
<1>3. ASSUME toRunner # <<>> PROVE Tail(toRunner) \in Seq(Commands)
  BY <1>3, InputsInTail DEF RunnerTypes
<1>4. RunnerTypes'
  <2> USE DEF RunnerTypes, program, runner, link
  <2>1. CASE Spawn
    <3>1. socketFile' = FALSE /\ server' \in {"running", "replying"} /\ verdict' \in {None, "refused"}
          /\ UNCHANGED linked
      BY <2>1 DEF Spawn
    <3>6. toRunner' \in Seq(Commands)
      BY <2>1, ReadRequestInputs DEF Spawn
    <3>2. stdinOpen' \in BOOLEAN
      BY <2>1 DEF Spawn
    <3>4. process' \in {"none", "alive", "exited"}
      BY <2>1 DEF Spawn
    <3>5. pipe' \in Nat
      BY <2>1 DEF Spawn
    <3>3. delivered' \in 0..InputLimit
      <4>1. 0 \in 0..InputLimit /\ initial \in 0..InputLimit /\ delivered \in 0..InputLimit
        BY CodeRunAssumption DEF SessionTypes
      <4>2. delivered' \in {0, initial, delivered}
        BY <2>1 DEF Spawn
      <4> QED BY <4>1, <4>2
    <3> QED BY <3>1, <3>2, <3>3, <3>4, <3>5, <3>6
  <2>2. CASE PumpOutput
    BY <2>2 DEF PumpOutput
  <2>3. CASE PumpFails
    BY <2>3 DEF PumpFails, Kill
  <2>4. CASE ForwardInput
    <3>1. delivered' \in 0..InputLimit
      BY <2>4, CodeRunAssumption, SMTT(30) DEF ForwardInput
    <3>2. stdinOpen' \in BOOLEAN
      BY <2>4 DEF ForwardInput
    <3>5. pipe' \in Nat
      BY <2>4 DEF ForwardInput
    <3>3. toRunner' \in Seq(Commands)
      BY <1>3, <2>4 DEF ForwardInput
    <3>4. UNCHANGED <<linked, socketFile, server, verdict, process>>
      BY <2>4 DEF ForwardInput
    <3> QED BY <3>1, <3>2, <3>3, <3>4, <3>5
  <2>5. CASE CloseStdin
    BY <1>3, <2>5 DEF CloseStdin
  <2>6. CASE Canceled
    BY <1>3, <2>6 DEF Canceled, Kill
  <2>7. CASE LoopEnds
    BY <2>7 DEF LoopEnds, Kill
  <2>8. CASE Drain
    BY <2>8 DEF Drain
  <2>9. CASE Reply
    BY <2>9 DEF Reply
  <2>10. CASE Listen
    BY <2>10 DEF Listen
  <2>11. CASE Program
    BY <2>11 DEF Program, Write, Read, Exit
  <2> QED BY <2>1, <2>2, <2>3, <2>4, <2>5, <2>6, <2>7, <2>8, <2>9, <2>10, <2>11 DEF Pump, Finish
<1> QED BY <1>2, <1>4

-----------------------------------------------------------------------------
(* The socket.                                                             *)

OnSocket(s) ==
  \A i \in DOMAIN s :
    /\ s[i].type \in {"stdout", "result", "error"}
    /\ s[i].type # "stdout" => i = Len(s) /\ s[i].text = <<>>

\* Output follows output, and the final response follows output.
LEMMA OnSocketAppend ==
  ASSUME NEW s \in Seq(Events), OnSocket(s), \A i \in DOMAIN s : s[i].type = "stdout",
         NEW x \in Events, x.type \in {"stdout", "result", "error"}, x.type # "stdout" => x.text = <<>>
  PROVE  OnSocket(Append(s, x))
<1> DEFINE g == Append(s, x)
<1>1. DOMAIN g = 1..(Len(s) + 1) /\ Len(g) = Len(s) + 1 /\ g[Len(s) + 1] = x
      /\ DOMAIN s = 1..Len(s) /\ \A i \in 1..Len(s) : g[i] = s[i]
  OBVIOUS
<1> HIDE DEF g
<1>2. OnSocket(g)
  <2>1. ASSUME NEW i \in DOMAIN g
        PROVE  /\ g[i].type \in {"stdout", "result", "error"}
               /\ g[i].type # "stdout" => i = Len(g) /\ g[i].text = <<>>
    BY <1>1
  <2> QED BY <2>1 DEF OnSocket
<1> QED BY <1>2 DEF g

\* What is left of what is on the socket.
LEMMA OnSocketRest ==
  ASSUME NEW s \in Seq(Events), OnSocket(s), NEW k \in 1..Len(s)
  PROVE  OnSocket(SubSeq(s, k + 1, Len(s)))
<1> DEFINE g == SubSeq(s, k + 1, Len(s))
<1>1. Len(g) = Len(s) - k /\ DOMAIN g = 1..(Len(s) - k)
      /\ \A i \in 1..(Len(s) - k) : i + k \in DOMAIN s /\ g[i] = s[i + k]
  OBVIOUS
<1> HIDE DEF g
<1>2. OnSocket(g)
  <2>1. ASSUME NEW i \in DOMAIN g
        PROVE  /\ g[i].type \in {"stdout", "result", "error"}
               /\ g[i].type # "stdout" => i = Len(g) /\ g[i].text = <<>>
    <3>1. i \in 1..(Len(s) - k) /\ i + k \in DOMAIN s /\ g[i] = s[i + k]
      BY <1>1
    <3>2. /\ s[i + k].type \in {"stdout", "result", "error"}
          /\ s[i + k].type # "stdout" => i + k = Len(s) /\ s[i + k].text = <<>>
      BY <3>1 DEF OnSocket
    <3> QED BY <1>1, <3>1, <3>2
  <2> QED BY <2>1 DEF OnSocket
<1> QED BY <1>2 DEF g

\* Before the runner has closed the connection, only output is on the socket.
LEMMA OnlyOutput ==
  ASSUME CleanInv, ~PeerClosed
  PROVE  \A i \in DOMAIN toApp : toApp[i].type = "stdout"
BY DEF CleanInv, LinkInv

\* What is captured is one more event, or none.
LEMMA CaptureSends ==
  ASSUME CleanInv, SocketInv, ~PeerClosed, NEW last \in captured..Len(written), Capture(last)
  PROVE  LET text == Kept(captured + 1, last) IN
         /\ text \in Seq(Nat)
         /\ Event("stdout", text) \in Events
         /\ captured' = last
         /\ OnSocket(toApp')
         /\ \/ text = <<>> /\ toApp' = toApp
            \/ linked /\ text # <<>> /\ toApp' = Append(toApp, Event("stdout", text))
<1> DEFINE text == Kept(captured + 1, last)
           x == Event("stdout", text)
<1>1. text \in Seq(Nat) /\ x \in Events /\ x.type = "stdout"
  BY KeptType DEF CleanInv, PipeInv, Event, Events
<1>2. /\ captured' = last
      /\ text = <<>> \/ linked
      /\ toApp' = IF text = <<>> THEN toApp ELSE Append(toApp, x)
  BY DEF Capture, CanSend
<1>3. toApp \in Seq(Events) /\ OnSocket(toApp) /\ \A i \in DOMAIN toApp : toApp[i].type = "stdout"
  BY OnlyOutput DEF CleanInv, LinkInv, SocketInv, OnSocket
<1>4. OnSocket(Append(toApp, x))
  <2> HIDE DEF x
  <2> QED BY <1>1, <1>3, OnSocketAppend
<1>5. OnSocket(toApp')
  <2> HIDE DEF x, text
  <2> QED BY <1>2, <1>3, <1>4
<1> QED BY <1>1, <1>2, <1>5

LEMMA SocketKeeps ==
  ASSUME SocketInv, UNCHANGED <<linked, client, server, toApp, phase, queue, unsent>>
  PROVE  SocketInv'
BY DEF SocketInv

LEMMA EmptyOnSocket == OnSocket(<<>>)
BY DEF OnSocket

\* The client ends.
LEMMA EndSocket ==
  ASSUME SocketInv, NEW with, EndClient(with), server # "requested", UNCHANGED <<server, phase>>, phase # "none"
  PROVE  SocketInv'
BY EmptyOnSocket DEF EndClient, SocketInv, OnSocket

LEMMA TransmitSocket ==
  ASSUME SocketInv, NEW command, Transmit(command, "send"), UNCHANGED <<server, phase>>, phase # "none",
         client \in {"cancel", "send", "receive"}
  PROVE  SocketInv'
<1>1. CASE PeerClosed
  BY <1>1, EndSocket DEF Transmit, PeerClosed
<1>2. CASE ~PeerClosed
  BY <1>2 DEF Transmit, SocketInv
<1> QED BY <1>1, <1>2

LEMMA SessionSocket ==
  ASSUME CleanInv, SocketInv, Browser \/ SendCommand \/ Coordinator
  PROVE  SocketInv'
<1>1. CASE StartRun
  <2>1. phase' # "none" /\ client = "off" /\ client' = "connect" /\ UNCHANGED <<linked, toApp, server>>
    BY <1>1 DEF StartRun, CleanInv, AnswerInv, link, runner
  <2> QED BY <2>1 DEF SocketInv
<1>2. ASSUME NEW command, Submit(command) PROVE SocketInv'
  BY <1>2 DEF Submit, SocketInv, thread, link, runner
<1>3. CASE DeleteProject
  BY <1>3, SocketKeeps DEF DeleteProject, session, thread, link, runner
<1>4. CASE SendCommand
  <2>1. PICK i \in DOMAIN unsent : TRUE
    BY <1>4 DEF SendCommand
  <2>2. unsent # <<>>
    BY <2>1
  <2>3. UNCHANGED <<linked, client, server, toApp, phase>>
    BY <1>4 DEF SendCommand, thread, link, runner
  <2> QED BY <2>2, <2>3 DEF SocketInv
<1>5. CASE NoticeHangUp
  BY <1>5, SocketKeeps DEF NoticeHangUp, thread, link, runner
<1>6. CASE RecordResult
  BY <1>6 DEF RecordResult, SocketInv, thread, link, runner
<1>7. CASE CloseSession
  <2>1. client = "done" /\ client' = "off" /\ queue' = <<>> /\ unsent' = <<>> /\ UNCHANGED <<linked, toApp, server>>
    BY <1>7 DEF CloseSession, CleanInv, AnswerInv, link, runner
  <2> QED BY <2>1 DEF SocketInv
<1> QED BY <1>1, <1>2, <1>3, <1>4, <1>5, <1>6, <1>7
        DEF Browser, Coordinator, SubmitInput, SubmitEof, CancelRun

LEMMA ClientSocket ==
  ASSUME CleanInv, SocketInv, Client \/ GiveUp
  PROVE  SocketInv'
<1>0. client \notin {"off", "done"} => phase # "none"
  BY DEF CleanInv, AnswerInv
<1>1. CASE Connect
  <2>1. ~linked /\ server # "requested" /\ UNCHANGED phase /\ phase # "none" /\ client = "connect" /\ toApp = <<>>
    BY <1>0, <1>1 DEF Connect, SocketInv, CleanInv, LinkInv, session
  <2>2. CASE client' = "cancel"
    BY <1>1, <2>1, <2>2 DEF Connect, EndClient, SocketInv
  <2>3. CASE client' # "cancel"
    <3>1. PICK with \in {"oversized", "unavailable"} : EndClient(with) /\ UNCHANGED server
      BY <1>1, <2>3, ConnectEnds
    <3> QED BY <1>1, <2>1, <3>1, EndSocket DEF Connect, session
  <2> QED BY <2>2, <2>3
<1>2. CASE SendCancel
  <2>1. client = "cancel" /\ phase # "none" /\ UNCHANGED <<server, phase, queue, unsent>>
    BY <1>0, <1>2 DEF SendCancel, session, runner
  <2>2. CASE cancelEvent /\ ~cancelSent
    BY <1>2, <2>1, <2>2, TransmitSocket DEF SendCancel
  <2>3. CASE ~(cancelEvent /\ ~cancelSent)
    BY <1>2, <2>1, <2>3 DEF SendCancel, SocketInv, link
  <2> QED BY <2>2, <2>3
<1>3. CASE SendQueued
  <2>1. client = "send" /\ phase # "none" /\ UNCHANGED <<server, phase, unsent>>
    BY <1>0, <1>3 DEF SendQueued, runner
  <2>2. CASE queue # <<>>
    BY <1>3, <2>1, <2>2, TransmitSocket DEF SendQueued
  <2>3. CASE queue = <<>>
    BY <1>3, <2>1, <2>3 DEF SendQueued, SocketInv, link
  <2> QED BY <2>2, <2>3
<1>4. CASE Receive
  <2>1. client = "receive" /\ phase # "none" /\ UNCHANGED <<server, phase, queue, unsent>>
    BY <1>0, <1>4 DEF Receive, runner
  <2>2. CASE toApp = <<>>
    <3>1. CASE PeerClosed
      BY <1>4, <2>1, <2>2, <3>1, EndSocket DEF Receive, PeerClosed
    <3>2. CASE ~PeerClosed
      BY <1>4, <2>1, <2>2, <3>2 DEF Receive, SocketInv
    <3> QED BY <3>1, <3>2
  <2>3. CASE toApp # <<>>
    <3>1. PICK k \in 1..Len(toApp) :
            IF toApp[k].type = "stdout"
            THEN toApp' = SubSeq(toApp, k + 1, Len(toApp)) /\ client' = "cancel" /\ UNCHANGED linked
            ELSE EndClient(toApp[k].type)
      BY <1>4, <2>3 DEF Receive
    <3>2. server # "requested" /\ toApp \in Seq(Events) /\ OnSocket(toApp)
      BY <2>3 DEF SocketInv, OnSocket, CleanInv, LinkInv
    <3>3. CASE toApp[k].type = "stdout"
      <4>1. OnSocket(toApp')
        BY <3>1, <3>2, <3>3, OnSocketRest
      <4> QED BY <2>1, <3>1, <3>2, <3>3, <4>1 DEF SocketInv, OnSocket
    <3>4. CASE toApp[k].type # "stdout"
      BY <2>1, <3>1, <3>2, <3>4, EndSocket
    <3> QED BY <3>3, <3>4
  <2> QED BY <2>2, <2>3
<1>5. CASE GiveUp
  BY <1>0, <1>5, EndSocket DEF GiveUp, session, runner
<1> QED BY <1>1, <1>2, <1>3, <1>4, <1>5 DEF Client

LEMMA RunnerSocket ==
  ASSUME CleanInv, SocketInv, Spawn \/ Pump \/ Finish \/ Program
  PROVE  SocketInv'
<1>1. UNCHANGED <<linked, client, phase, queue, unsent>>
  BY DEF Pump, Finish, Program, Spawn, PumpOutput, PumpFails, ForwardInput, CloseStdin, Canceled,
         LoopEnds, Drain, Reply, Listen, Write, Read, Exit, link, session, thread
<1>2. ASSUME server' # "requested", OnSocket(toApp') PROVE SocketInv'
  BY <1>1, <1>2 DEF SocketInv, OnSocket
<1>3. OnSocket(toApp)
  BY DEF SocketInv, OnSocket
<1>4. CASE Spawn
  BY <1>2, <1>3, <1>4 DEF Spawn, link
<1>5. CASE PumpOutput
  <2>1. captured + 1 \in captured..Len(written) /\ Capture(captured + 1) /\ ~PeerClosed
    BY <1>5 DEF PumpOutput, CleanInv, PipeInv, PeerClosed
  <2>2. OnSocket(toApp')
    BY <2>1, CaptureSends
  <2> QED BY <1>2, <1>5, <2>2 DEF PumpOutput
<1>6. CASE PumpFails \/ ForwardInput \/ CloseStdin \/ Canceled \/ LoopEnds
  BY <1>2, <1>3, <1>6 DEF PumpFails, ForwardInput, CloseStdin, Canceled, LoopEnds, Kill, link
<1>7. CASE Drain
  <2>1. CASE CanSend(Kept(captured + 1, Len(written)))
    <3>1. Len(written) \in captured..Len(written) /\ Capture(Len(written)) /\ ~PeerClosed
      BY <1>7, <2>1 DEF Drain, CleanInv, PipeInv, PeerClosed
    <3>2. OnSocket(toApp')
      BY <3>1, CaptureSends
    <3> QED BY <1>2, <1>7, <3>2 DEF Drain
  <2>2. CASE ~CanSend(Kept(captured + 1, Len(written)))
    BY <1>2, <1>3, <1>7, <2>2 DEF Drain
  <2> QED BY <2>1, <2>2
<1>8. CASE Reply
  <2> DEFINE x == Event(IF verdict \in {"refused", "error"} THEN "error" ELSE "result", <<>>)
  <2>1. x \in Events /\ x.type \in {"result", "error"} /\ x.text = <<>>
    BY DEF Event, Events
  <2>2. toApp' = toApp \/ toApp' = Append(toApp, x)
    BY <1>8 DEF Reply
  <2>3. toApp \in Seq(Events) /\ \A i \in DOMAIN toApp : toApp[i].type = "stdout"
    BY <1>8, OnlyOutput DEF Reply, PeerClosed, CleanInv, LinkInv
  <2> HIDE DEF x
  <2>4. OnSocket(toApp')
    BY <1>3, <2>1, <2>2, <2>3, OnSocketAppend
  <2> QED BY <1>2, <1>8, <2>4 DEF Reply
<1>9. CASE Listen
  BY <1>2, <1>3, <1>9 DEF Listen, link
<1>10. CASE Program
  BY <1>10, SocketKeeps DEF Program, Write, Read, Exit, session, thread, link, runner
<1> QED BY <1>4, <1>5, <1>6, <1>7, <1>8, <1>9, <1>10 DEF Pump, Finish

-----------------------------------------------------------------------------
(* What is under way was recorded.                                         *)

Numbers ==
  /\ Recorded \in Nat /\ InputsIn(queue) \in Nat /\ InputsIn(unsent) \in Nat
  /\ InputsIn(toRunner) \in Nat /\ First \in 0..1 /\ AtProgram \in Nat
  /\ consumed \in Nat /\ pipe \in Nat /\ initial \in Nat

LEMMA NumbersHold == CleanInv /\ SessionTypes /\ RunnerTypes => Numbers
<1> SUFFICES ASSUME CleanInv, SessionTypes, RunnerTypes PROVE Numbers
  OBVIOUS
<1>1. Recorded \in Nat
  BY InputsFinite DEF SessionTypes, Recorded
<1>2. InputsIn(queue) \in Nat /\ InputsIn(unsent) \in Nat /\ InputsIn(toRunner) \in Nat
  BY InputsInType DEF SessionTypes, RunnerTypes
<1>3. First \in 0..1 /\ initial \in Nat
  BY CodeRunAssumption DEF First, SessionTypes
<1>4. consumed \in Nat /\ pipe \in Nat
  BY DEF CleanInv, PipeInv, RunnerTypes
<1>5. AtProgram \in Nat
  BY <1>2, <1>3, <1>4 DEF AtProgram
<1> QED BY <1>1, <1>2, <1>3, <1>4, <1>5 DEF Numbers

LEMMA NumbersHoldNext == (CleanInv /\ SessionTypes /\ RunnerTypes => Numbers)'
BY NumbersHold, PTL

LEMMA InputsNone == Inputs(<<>>) = {} /\ Cardinality(Inputs(<<>>)) = 0
<1>1. Inputs(<<>>) = {}
  BY DEF Inputs
<1> QED BY <1>1, FS_EmptySet, Zenon

\* The session's part stays, and no more is at the program.
LEMMA CountedKeeps ==
  ASSUME Numbers, Numbers', Counted, AtProgram' <= AtProgram, UNCHANGED <<events, queue, unsent>>,
         phase # "none"
  PROVE  Counted'
<1>1. Recorded' = Recorded /\ InputsIn(queue') = InputsIn(queue) /\ InputsIn(unsent') = InputsIn(unsent)
  BY DEF Recorded, Inputs, InputsIn
<1>2. Recorded >= InputsIn(queue) + InputsIn(unsent) + AtProgram
  BY DEF Counted
<1>3. Recorded >= InputsIn(queue) + InputsIn(unsent) + AtProgram'
  BY <1>2 DEF Numbers
<1> QED BY <1>1, <1>3 DEF Counted

LEMMA AtProgramKeeps ==
  ASSUME UNCHANGED <<server, initial, toRunner, linked, consumed, pipe, client>>
  PROVE  AtProgram' = AtProgram
BY DEF AtProgram, First, InputsIn

\* Another input is recorded before it is sent.
LEMMA SubmitCounts ==
  ASSUME Numbers, Numbers', SessionTypes, Counted, NEW command \in Commands, Submit(command),
         \/ command = "input" /\ events' = Append(events, Stdin)
         \/ command # "input" /\ events' = events
  PROVE  Counted'
<1>1. AtProgram' = AtProgram /\ phase # "none" /\ InputsIn(queue') = InputsIn(queue)
  BY AtProgramKeeps DEF Submit, thread, link, runner, program
<1>2. InputsIn(unsent') = InputsIn(unsent) + IsInput(command)
  BY InputsInAppend DEF Submit, SessionTypes
<1>3. Recorded' = Recorded + IsInput(command)
  <2>1. CASE command = "input" /\ events' = Append(events, Stdin)
    <3>1. Cardinality(Inputs(Append(events, Stdin))) = Cardinality(Inputs(events)) + 1
      BY InputsAppend DEF SessionTypes
    <3> QED BY <2>1, <3>1 DEF Recorded, IsInput
  <2>2. CASE command # "input" /\ events' = events
    <3>1. Recorded' = Recorded /\ IsInput(command) = 0 /\ Recorded \in Nat
      BY <2>2 DEF Recorded, Inputs, IsInput, Numbers
    <3> QED BY <3>1
  <2> QED BY <2>1, <2>2
<1>4. IsInput(command) \in Nat
  BY DEF IsInput
<1>5. Recorded >= InputsIn(queue) + InputsIn(unsent) + AtProgram
  BY <1>1 DEF Counted
<1>6. Recorded' >= InputsIn(queue) + InputsIn(unsent') + AtProgram
  <2>1. Recorded \in Nat /\ InputsIn(queue) \in Nat /\ InputsIn(unsent) \in Nat /\ AtProgram \in Nat
    BY DEF Numbers
  <2> QED BY <1>2, <1>3, <1>4, <1>5, <2>1
<1> QED BY <1>1, <1>6 DEF Counted

LEMMA SessionCounts ==
  ASSUME CleanInv, SessionTypes, RunnerTypes, SocketInv, Numbers, Numbers', Counted,
         Browser \/ SendCommand \/ Coordinator
  PROVE  Counted'
<1>1. CASE StartRun
  <2>1. queue' = <<>> /\ unsent' = <<>> /\ client' = "connect" /\ ~linked' /\ server' # "requested"
    BY <1>1 DEF StartRun, SocketInv, CleanInv, AnswerInv, link, runner
  <2>2. InputsIn(queue') = 0 /\ InputsIn(unsent') = 0
    BY <2>1, InputsInEmpty
  <2>3. AtProgram' = First'
    BY <2>1 DEF AtProgram
  <2>4. CASE initial' > 0
    <3>1. events' = Append(<<>>, Stdin) /\ <<>> \in Seq(Events)
      BY <1>1, <2>4 DEF StartRun
    <3>2. Recorded' = 1
      <4>1. Cardinality(Inputs(Append(<<>>, Stdin))) = Cardinality(Inputs(<<>>)) + 1
        BY <3>1, InputsAppend
      <4> QED BY <3>1, <4>1, InputsNone DEF Recorded
    <3> QED BY <2>2, <2>3, <2>4, <3>2 DEF Counted, First
  <2>5. CASE ~(initial' > 0)
    <3>1. events' = <<>>
      BY <1>1, <2>5 DEF StartRun
    <3>2. Recorded' = 0
      BY <3>1, InputsNone DEF Recorded
    <3> QED BY <2>2, <2>3, <2>5, <3>2 DEF Counted, First
  <2> QED BY <2>4, <2>5
<1>2. CASE SubmitInput
  BY <1>2, Kinds, SubmitCounts DEF SubmitInput
<1>3. CASE SubmitEof
  BY <1>3, Kinds, SubmitCounts DEF SubmitEof
<1>4. CASE CancelRun
  <2>1. Submit("cancel") /\ UNCHANGED events
    BY <1>4 DEF CancelRun
  <2> QED BY <2>1, Kinds, SubmitCounts
<1>5. CASE SendCommand
  <2>1. PICK i \in DOMAIN unsent : queue' = Append(queue, unsent[i]) /\ unsent' = RemoveAt(unsent, i)
    BY <1>5 DEF SendCommand
  <2>2. queue \in Seq(Commands) /\ unsent \in Seq(Commands) /\ unsent[i] \in Commands
    BY DEF SessionTypes
  <2>3. InputsIn(queue') = InputsIn(queue) + IsInput(unsent[i])
    BY <2>1, <2>2, InputsInAppend
  <2>4. InputsIn(unsent') + IsInput(unsent[i]) <= InputsIn(unsent)
    BY <2>1, <2>2, InputsInRemoveAt
  <2>5. IsInput(unsent[i]) \in Nat
    BY DEF IsInput
  <2>6. AtProgram' = AtProgram /\ Recorded' = Recorded
    BY <1>5, AtProgramKeeps DEF SendCommand, thread, link, runner, program, Recorded, Inputs
  <2>7. UNCHANGED phase
    BY <1>5 DEF SendCommand
  <2>8. CASE phase # "none"
    <3>1. Recorded >= InputsIn(queue) + InputsIn(unsent) + AtProgram
      BY <2>8 DEF Counted
    <3>2. Recorded >= InputsIn(queue') + InputsIn(unsent') + AtProgram
      BY <2>3, <2>4, <2>5, <3>1 DEF Numbers
    <3> QED BY <2>6, <3>2 DEF Counted
  <2> QED BY <2>7, <2>8 DEF Counted
<1>6. CASE DeleteProject
  <2>1. AtProgram' = AtProgram /\ UNCHANGED <<phase, events, queue, unsent>>
    BY <1>6, AtProgramKeeps DEF DeleteProject, session, thread, link, runner, program
  <2>2. CASE phase # "none"
    BY <2>1, <2>2, CountedKeeps DEF Numbers
  <2> QED BY <2>1, <2>2 DEF Counted
<1>7. CASE NoticeHangUp \/ RecordResult
  <2>1. AtProgram' = AtProgram /\ UNCHANGED <<events, queue, unsent>> /\ phase = "running"
    BY <1>7, AtProgramKeeps DEF NoticeHangUp, RecordResult, thread, link, runner, program
  <2> QED BY <2>1, CountedKeeps DEF Numbers
<1>8. CASE CloseSession
  BY <1>8 DEF CloseSession, Counted
<1> QED BY <1>1, <1>2, <1>3, <1>4, <1>5, <1>6, <1>7, <1>8 DEF Browser, Coordinator

\* When the client ends, nothing it has sent can reach a program any more.
LEMMA EndCounts ==
  ASSUME Numbers, Numbers', Counted, NEW with, EndClient(with), server' # "requested",
         UNCHANGED <<events, unsent>>, InputsIn(queue') <= InputsIn(queue), phase # "none"
  PROVE  Counted'
<1>1. AtProgram' = 0
  BY DEF EndClient, AtProgram
<1>2. Recorded' = Recorded /\ InputsIn(unsent') = InputsIn(unsent)
  BY DEF Recorded, Inputs, InputsIn
<1>3. Recorded >= InputsIn(queue) + InputsIn(unsent) + AtProgram
  BY DEF Counted
<1>4. InputsIn(queue') \in Nat
  BY DEF Numbers
<1>5. Recorded >= InputsIn(queue') + InputsIn(unsent) + 0
  BY <1>3, <1>4 DEF Numbers
<1> QED BY <1>1, <1>2, <1>5 DEF Counted

\* The client's loop, on a connection that holds.
LEMMA StageCounts ==
  ASSUME client \in {"cancel", "send", "receive"}, client' \in {"cancel", "send", "receive"},
         UNCHANGED <<server, initial, linked, consumed, pipe>>, NEW n \in Nat, Numbers,
         InputsIn(toRunner') = InputsIn(toRunner) + n
  PROVE  AtProgram' <= AtProgram + n /\ AtProgram' \in Nat
BY DEF AtProgram, First, Numbers

\* What is received is output: as many inputs are recorded as before.
LEMMA ReceiveRecords ==
  ASSUME CleanInv, SessionTypes, SocketInv, Receive
  PROVE  /\ Inputs(events') = Inputs(events)
         /\ \/ events' = events
            \/ \E k \in 0..Len(toApp) : events' = events \o SubSeq(toApp, 1, k)
<1>1. CASE toApp = <<>>
  BY <1>1 DEF Receive
<1>2. CASE toApp # <<>>
  <2>1. PICK k \in 1..Len(toApp) :
          IF toApp[k].type = "stdout" THEN events' = events \o SubSeq(toApp, 1, k)
                                      ELSE events' = events \o SubSeq(toApp, 1, k - 1)
    BY <1>2 DEF Receive
  <2>2. toApp \in Seq(Events) /\ events \in Seq(Events)
    BY DEF CleanInv, LinkInv, SessionTypes
  <2>3. PICK n \in 0..Len(toApp) : events' = events \o SubSeq(toApp, 1, n)
    <3>1. k \in 0..Len(toApp) /\ k - 1 \in 0..Len(toApp)
      BY <2>2
    <3> QED BY <2>1, <3>1
  <2> DEFINE f == SubSeq(toApp, 1, n)
  <2>4. f \in Seq(Events) /\ \A i \in DOMAIN f : i \in DOMAIN toApp /\ f[i] = toApp[i]
    BY <2>2
  <2>5. \A i \in DOMAIN f : f[i].type # "stdin"
    <3> HIDE DEF f
    <3> QED BY <2>4 DEF SocketInv
  <2>6. Inputs(events \o f) = Inputs(events)
    <3> HIDE DEF f
    <3> QED BY <2>2, <2>4, <2>5, InputsConcat
  <2> QED BY <2>3, <2>6
<1> QED BY <1>1, <1>2

LEMMA ClientCounts ==
  ASSUME CleanInv, SessionTypes, RunnerTypes, SocketInv, Numbers, Numbers', Counted, Client \/ GiveUp
  PROVE  Counted'
<1>0. client \notin {"off", "done"} => phase # "none"
  BY DEF CleanInv, AnswerInv
<1>1. CASE Connect
  <2>1. ~linked /\ server # "requested" /\ phase # "none" /\ client = "connect"
        /\ UNCHANGED <<initial, events, queue, unsent>>
    BY <1>0, <1>1 DEF Connect, SocketInv, session
  <2>2. CASE client' = "cancel"
    <3>1. toRunner' = <<>> /\ server' = "requested"
      BY <1>1, <2>2 DEF Connect, EndClient
    <3>2. AtProgram' = First /\ AtProgram = First
      BY <2>1, <3>1, InputsInEmpty DEF AtProgram, First, Numbers
    <3> QED BY <2>1, <3>2, CountedKeeps DEF Numbers
  <2>3. CASE client' # "cancel"
    <3>1. PICK with \in {"oversized", "unavailable"} : EndClient(with) /\ UNCHANGED server
      BY <1>1, <2>3, ConnectEnds
    <3> QED BY <2>1, <3>1, EndCounts DEF Numbers
  <2> QED BY <2>2, <2>3
<1>2. CASE SendCancel
  <2>1. client = "cancel" /\ phase # "none" /\ UNCHANGED <<initial, server, consumed, pipe, events, queue, unsent>>
    BY <1>0, <1>2 DEF SendCancel, session, runner, program
  <2>2. CASE cancelEvent /\ ~cancelSent /\ PeerClosed
    <3>1. EndClient("unreachable") /\ server # "requested"
      BY <1>2, <2>2 DEF SendCancel, Transmit, PeerClosed
    <3> QED BY <2>1, <3>1, EndCounts DEF Numbers
  <2>3. CASE ~(cancelEvent /\ ~cancelSent /\ PeerClosed)
    <3>1. client' = "send" /\ UNCHANGED linked /\ (toRunner' = toRunner \/ toRunner' = Append(toRunner, "cancel"))
      BY <1>2, <2>3 DEF SendCancel, Transmit, link
    <3>2. InputsIn(toRunner') = InputsIn(toRunner) + 0
      <4>1. "cancel" \in Commands /\ IsInput("cancel") = 0 /\ toRunner \in Seq(Commands)
            /\ InputsIn(toRunner) \in Nat
        BY Kinds DEF IsInput, RunnerTypes, Numbers
      <4>2. InputsIn(Append(toRunner, "cancel")) = InputsIn(toRunner) + IsInput("cancel")
        BY <4>1, InputsInAppend
      <4>3. InputsIn(toRunner') = InputsIn(toRunner)
        <5>1. InputsIn(Append(toRunner, "cancel")) = InputsIn(toRunner) + 0
          BY <4>1, <4>2, Zenon
        <5>2. InputsIn(Append(toRunner, "cancel")) = InputsIn(toRunner)
          BY <4>1, <5>1
        <5> QED BY <3>1, <5>2, Zenon
      <4> QED BY <4>1, <4>3
    <3>3. AtProgram' <= AtProgram + 0
      BY <2>1, <3>1, <3>2, StageCounts
    <3> QED BY <2>1, <3>3, CountedKeeps DEF Numbers
  <2> QED BY <2>2, <2>3
<1>3. CASE SendQueued
  <2>1. client = "send" /\ phase # "none" /\ UNCHANGED <<phase, initial, server, consumed, pipe, events, unsent>>
    BY <1>0, <1>3 DEF SendQueued, runner, program
  <2>2. CASE queue = <<>>
    <3>1. client' = "receive" /\ UNCHANGED <<queue, linked, toRunner>>
      BY <1>3, <2>2 DEF SendQueued, link
    <3>2. AtProgram' <= AtProgram + 0
      <4>1. InputsIn(toRunner') = InputsIn(toRunner) + 0
        BY <3>1 DEF Numbers
      <4> QED BY <2>1, <3>1, <4>1, StageCounts
    <3> QED BY <2>1, <3>1, <3>2, CountedKeeps DEF Numbers
  <2>3. CASE queue # <<>>
    <3>1. queue' = Tail(queue) /\ Transmit(Head(queue), "send") /\ queue \in Seq(Commands)
      BY <1>3, <2>3 DEF SendQueued, SessionTypes
    <3>2. InputsIn(queue') + IsInput(Head(queue)) <= InputsIn(queue) /\ Head(queue) \in Commands
      BY <2>3, <3>1, InputsInTail
    <3>3. IsInput(Head(queue)) \in Nat
      BY DEF IsInput
    <3>4. CASE PeerClosed
      <4>1. EndClient("unreachable") /\ server # "requested"
        BY <3>1, <3>4 DEF Transmit, PeerClosed
      <4>2. InputsIn(queue') <= InputsIn(queue)
        BY <3>2, <3>3 DEF Numbers
      <4> QED BY <2>1, <4>1, <4>2, EndCounts
    <3>5. CASE ~PeerClosed
      <4>1. client' = "send" /\ UNCHANGED linked /\ toRunner' = Append(toRunner, Head(queue))
        BY <3>1, <3>5 DEF Transmit
      <4>2. InputsIn(toRunner') = InputsIn(toRunner) + IsInput(Head(queue))
        BY <3>2, <4>1, InputsInAppend DEF RunnerTypes
      <4>3. AtProgram' <= AtProgram + IsInput(Head(queue))
        BY <2>1, <3>3, <4>1, <4>2, StageCounts
      <4>4. Recorded' = Recorded /\ InputsIn(unsent') = InputsIn(unsent)
        BY <2>1 DEF Recorded, Inputs, InputsIn
      <4>5. Recorded >= InputsIn(queue) + InputsIn(unsent) + AtProgram
        BY <2>1 DEF Counted
      <4>6. InputsIn(queue') \in Nat /\ AtProgram' \in Nat
        BY DEF Numbers
      <4>7. Recorded >= InputsIn(queue') + InputsIn(unsent) + AtProgram'
        BY <3>2, <3>3, <4>3, <4>5, <4>6 DEF Numbers
      <4> QED BY <4>4, <4>7 DEF Counted
    <3> QED BY <3>4, <3>5
  <2> QED BY <2>2, <2>3
<1>4. CASE Receive
  <2>1. client = "receive" /\ phase # "none" /\ UNCHANGED <<server, initial, consumed, pipe, queue, unsent, toRunner>>
    BY <1>0, <1>4 DEF Receive, runner, program
  <2>2. Recorded' = Recorded
    BY <1>4, ReceiveRecords DEF Recorded
  <2>3. AtProgram' <= AtProgram
    <3>1. \/ client' = "cancel" /\ linked' = linked
          \/ client' = "done" /\ linked' = FALSE /\ server # "requested"
      <4>1. CASE toApp = <<>>
        BY <1>4, <4>1 DEF Receive, EndClient, PeerClosed
      <4>2. CASE toApp # <<>>
        <5>1. server # "requested"
          BY <4>2 DEF SocketInv
        <5>2. \E k \in 1..Len(toApp) : (client' = "cancel" /\ linked' = linked) \/ EndClient(toApp[k].type)
          BY <1>4, <4>2 DEF Receive
        <5> QED BY <5>1, <5>2 DEF EndClient
      <4> QED BY <4>1, <4>2
    <3> QED BY <2>1, <3>1 DEF AtProgram, First, Numbers, InputsIn
  <2>4. InputsIn(queue') = InputsIn(queue) /\ InputsIn(unsent') = InputsIn(unsent)
    BY <2>1
  <2>5. Recorded >= InputsIn(queue) + InputsIn(unsent) + AtProgram /\ AtProgram' \in Nat
    BY <2>1 DEF Counted, Numbers
  <2>6. Recorded >= InputsIn(queue) + InputsIn(unsent) + AtProgram'
    BY <2>3, <2>5 DEF Numbers
  <2> QED BY <2>2, <2>4, <2>6 DEF Counted
<1>5. CASE GiveUp
  <2>1. EndClient("deadline") /\ server' # "requested" /\ UNCHANGED <<events, queue, unsent>> /\ phase # "none"
    BY <1>0, <1>5 DEF GiveUp, session, runner
  <2> QED BY <2>1, EndCounts DEF Numbers
<1> QED BY <1>1, <1>2, <1>3, <1>4, <1>5 DEF Client

LEMMA RunnerCounts ==
  ASSUME CleanInv, SocketInv, Numbers, Numbers', RunnerTypes, Counted, Spawn \/ Pump \/ Finish \/ Program
  PROVE  Counted'
<1>1. UNCHANGED <<linked, client, phase, initial, events, queue, unsent>>
  BY DEF Pump, Finish, Program, Spawn, PumpOutput, PumpFails, ForwardInput, CloseStdin, Canceled,
         LoopEnds, Drain, Reply, Listen, Write, Read, Exit, link, session, thread
<1>2. linked => client # "connect"
  BY DEF SocketInv
<1>3. AtProgram' <= AtProgram
  <2> USE DEF AtProgram, First, Numbers
  <2>1. CASE Spawn
    <3>1. server = "requested" /\ linked /\ InputsIn(toRunner') <= InputsIn(toRunner)
      BY <2>1, ReadRequestInputs DEF Spawn, SocketInv
    <3>2. CASE server' = "running"
      <4>1. consumed' = 0 /\ pipe' = IF initial \in 1..MessageLimit THEN 1 ELSE 0
        BY <2>1, <3>2 DEF Spawn
      <4>2. pipe' \in 0..First
        BY <4>1, CodeRunAssumption
      <4>3. AtProgram' = pipe' + InputsIn(toRunner')
        BY <1>1, <3>1, <3>2, <4>1
      <4> QED BY <3>1, <4>2, <4>3
    <3>3. CASE server' # "running"
      <4>1. server' = "replying"
        BY <2>1, <3>3 DEF Spawn
      <4> QED BY <1>1, <1>2, <3>1, <4>1
    <3> QED BY <3>2, <3>3
  <2>2. CASE PumpOutput \/ PumpFails \/ LoopEnds
    <3>1. server = "running" /\ server' \in {"running", "draining"} /\ UNCHANGED <<toRunner, consumed, pipe>>
      BY <2>2 DEF PumpOutput, PumpFails, LoopEnds, Kill, link, program
    <3> QED BY <1>1, <3>1
  <2>3. CASE ForwardInput
    <3>1. /\ server = "running" /\ UNCHANGED <<server, consumed>>
          /\ toRunner # <<>> /\ Head(toRunner) = "input" /\ toRunner' = Tail(toRunner)
          /\ pipe' \in {pipe, pipe + 1}
      BY <2>3 DEF ForwardInput
    <3>2. InputsIn(toRunner') + IsInput(Head(toRunner)) <= InputsIn(toRunner)
      BY <3>1, InputsInTail DEF RunnerTypes
    <3>3. InputsIn(toRunner') + 1 <= InputsIn(toRunner)
      BY <3>1, <3>2 DEF IsInput
    <3> QED BY <1>1, <3>1, <3>3, SMTT(30)
  <2>4. CASE CloseStdin \/ Canceled
    <3>1. /\ server = "running" /\ server' \in {"running", "draining"} /\ UNCHANGED <<consumed, pipe>>
          /\ toRunner' = toRunner \/ (toRunner # <<>> /\ toRunner' = Tail(toRunner))
      BY <2>4 DEF CloseStdin, Canceled, Kill, program
    <3>2. InputsIn(toRunner') <= InputsIn(toRunner)
      <4>1. CASE toRunner' = toRunner
        BY <4>1
      <4>2. CASE toRunner # <<>> /\ toRunner' = Tail(toRunner)
        <5>1. InputsIn(toRunner') + IsInput(Head(toRunner)) <= InputsIn(toRunner)
          BY <4>2, InputsInTail DEF RunnerTypes
        <5>2. IsInput(Head(toRunner)) \in Nat
          BY DEF IsInput
        <5> QED BY <5>1, <5>2
      <4> QED BY <3>1, <4>1, <4>2
    <3> QED BY <1>1, <3>1, <3>2
  <2>5. CASE Drain \/ Reply \/ Listen
    <3>1. server # "requested" /\ server' \in {"replying", "closed", "listening"}
      BY <2>5 DEF Drain, Reply, Listen
    <3>2. CASE linked
      BY <1>1, <1>2, <3>1, <3>2
    <3>3. CASE ~linked
      BY <1>1, <3>1, <3>3
    <3> QED BY <3>2, <3>3 DEF SocketInv
  <2>6. CASE Write \/ Exit
    <3>1. UNCHANGED <<server, initial, toRunner, linked, consumed, pipe, client>>
      BY <1>1, <2>6 DEF Write, Exit, link, runner
    <3> QED BY <3>1, AtProgramKeeps
  <2>7. CASE Read
    <3>1. pipe > 0 /\ pipe' = pipe - 1 /\ consumed' = consumed + 1 /\ UNCHANGED <<server, toRunner>>
      BY <2>7 DEF Read, link, runner
    <3> QED BY <1>1, <3>1
  <2> QED BY <2>1, <2>2, <2>3, <2>4, <2>5, <2>6, <2>7 DEF Pump, Finish, Program
<1>4. CASE phase # "none"
  BY <1>1, <1>3, <1>4, CountedKeeps
<1> QED BY <1>1, <1>4 DEF Counted

-----------------------------------------------------------------------------
(* What the program has written.                                           *)

LEMMA WrittenStep ==
  ASSUME CleanInv, Numbers, Numbers', WrittenReads, [Next]_vars
  PROVE  WrittenReads'
<1>1. ASSUME UNCHANGED written, consumed' >= consumed PROVE WrittenReads'
  <2>1. ASSUME NEW i \in DOMAIN written PROVE written[i] <= consumed'
    <3>1. written[i] \in Nat /\ written[i] <= consumed
      BY DEF CleanInv, PipeInv, WrittenReads
    <3> QED BY <1>1, <3>1 DEF Numbers
  <2> QED BY <1>1, <2>1 DEF WrittenReads
<1>2. CASE Write
  <2>1. written' = Append(written, consumed) /\ UNCHANGED consumed
    BY <1>2 DEF Write
  <2>2. written \in Seq(Nat) /\ consumed \in Nat
    BY DEF CleanInv, PipeInv
  <2>3. ASSUME NEW i \in DOMAIN written' PROVE written'[i] <= consumed
    BY <2>1, <2>2 DEF WrittenReads
  <2> QED BY <2>1, <2>3 DEF WrittenReads
<1>3. CASE Read
  BY <1>1, <1>3 DEF Read, Numbers
<1>4. CASE Spawn
  <2>1. CASE written' = <<>>
    BY <2>1 DEF WrittenReads
  <2>2. CASE written' # <<>>
    BY <1>1, <1>4, <2>2 DEF Spawn, program, Numbers
  <2> QED BY <2>1, <2>2
<1>5. CASE ~(Write \/ Read \/ Spawn)
  <2>1. UNCHANGED <<written, consumed>>
    BY <1>5 DEF Next, Browser, Coordinator, Client, Pump, Finish, Program, StartRun, SubmitInput,
         SubmitEof, CancelRun, Submit, DeleteProject, SendCommand, NoticeHangUp, RecordResult,
         CloseSession, Connect, SendCancel, SendQueued, Receive, GiveUp, PumpOutput, PumpFails,
         ForwardInput, CloseStdin, Canceled, LoopEnds, Drain, Reply, Listen, Exit, vars, program
  <2> QED BY <1>1, <2>1 DEF Numbers
<1> QED BY <1>2, <1>3, <1>4, <1>5

-----------------------------------------------------------------------------
(* What is on the socket claims no more inputs than are recorded.          *)

\* A piece of what was written has values that were written.
LEMMA KeptFrom ==
  ASSUME CleanInv, NEW last \in captured..Len(written)
  PROVE  \A k \in DOMAIN Kept(captured + 1, last) :
           \E i \in DOMAIN written : Kept(captured + 1, last)[k] = written[i]
<1> DEFINE n == IF last < OutputLimit THEN last ELSE OutputLimit
           g == SubSeq(written, captured + 1, n)
<1>1. n \in Nat /\ n <= Len(written) /\ captured \in Nat /\ written \in Seq(Nat) /\ Len(written) \in Nat
  BY CodeRunAssumption DEF CleanInv, PipeInv
<1> HIDE DEF n
<1>2. \A i \in captured + 1 .. n : i \in DOMAIN written /\ written[i] \in Nat
  BY <1>1
<1>3. /\ g \in Seq(Nat) /\ Len(g) = IF captured + 1 <= n THEN n - captured ELSE 0
      /\ \A k \in 1 .. n - captured : g[k] = written[captured + k]
  BY <1>1, <1>2
<1> HIDE DEF g
<1>4. ASSUME NEW k \in DOMAIN g PROVE \E i \in DOMAIN written : g[k] = written[i]
  <2>1. k \in 1..Len(g)
    BY <1>3
  <2>2. k \in 1..(n - captured) /\ captured + k \in captured + 1 .. n
    <3>1. CASE captured + 1 <= n
      <4>1. Len(g) = n - captured
        BY <1>3, <3>1, Zenon
      <4>2. n \in Nat /\ captured \in Nat
        BY <1>1
      <4> QED BY ONLY <2>1, <4>1, <4>2
    <3>2. CASE ~(captured + 1 <= n)
      BY <1>3, <2>1, <3>2
    <3> QED BY <3>1, <3>2
  <2> QED BY <1>2, <1>3, <2>2
<1> QED BY <1>4 DEF Kept, g, n

LEMMA SocketReadsKeeps ==
  ASSUME CleanInv, Numbers, Numbers', SocketReads, Recorded' >= Recorded,
         \A i \in DOMAIN toApp' : \E j \in DOMAIN toApp : toApp'[i] = toApp[j]
  PROVE  SocketReads'
<1>1. ASSUME NEW i \in DOMAIN toApp', NEW k \in DOMAIN toApp'[i].text PROVE toApp'[i].text[k] <= Recorded'
  <2>1. PICK j \in DOMAIN toApp : toApp'[i] = toApp[j]
    OBVIOUS
  <2>2. toApp[j].text \in Seq(Nat)
    <3>1. toApp \in Seq(Events)
      BY DEF CleanInv, LinkInv
    <3>2. toApp[j] \in Events
      BY <3>1
    <3> QED BY <3>2 DEF Events
  <2>3. toApp[j].text[k] <= Recorded /\ toApp[j].text[k] \in Nat
    BY <2>1, <2>2 DEF SocketReads
  <2> QED BY <2>1, <2>3 DEF Numbers
<1> QED BY <1>1 DEF SocketReads

\* Whatever the program has read, while the client is there, is recorded.
LEMMA CaptureReads ==
  ASSUME CleanInv, SocketInv, Numbers, Numbers', Counted, WrittenReads, SocketReads,
         server \in {"running", "draining"}, NEW last \in captured..Len(written), Capture(last),
         UNCHANGED events
  PROVE  SocketReads'
<1> DEFINE text == Kept(captured + 1, last)
           x == Event("stdout", text)
<1>1. \/ toApp' = toApp
      \/ linked /\ toApp' = Append(toApp, x)
  BY CaptureSends DEF PeerClosed
<1>2. x \in Events /\ x.text = text /\ text \in Seq(Nat)
  BY CaptureSends DEF PeerClosed, Event
<1>3. Recorded' = Recorded
  BY DEF Recorded, Inputs
<1>4. ASSUME linked, NEW k \in DOMAIN text PROVE text[k] <= Recorded
  <2>1. PICK i \in DOMAIN written : text[k] = written[i]
    BY KeptFrom
  <2>2. written[i] <= consumed /\ written[i] \in Nat
    BY DEF WrittenReads, CleanInv, PipeInv
  <2>3. AtProgram = consumed + pipe + InputsIn(toRunner)
    BY <1>4 DEF AtProgram
  <2>4. phase # "none"
    BY <1>4 DEF CleanInv, AnswerInv, LinkInv
  <2>5. Recorded >= InputsIn(queue) + InputsIn(unsent) + AtProgram
    BY <2>4 DEF Counted
  <2>6. consumed <= Recorded
    <3>1. /\ Recorded \in Nat /\ InputsIn(queue) \in Nat /\ InputsIn(unsent) \in Nat
          /\ InputsIn(toRunner) \in Nat /\ consumed \in Nat /\ pipe \in Nat
      BY DEF Numbers
    <3> QED BY <2>3, <2>5, <3>1
  <2> HIDE DEF text
  <2> QED BY <2>1, <2>2, <2>6, SMTT(30) DEF Numbers
<1>5. toApp \in Seq(Events)
  BY DEF CleanInv, LinkInv
<1> HIDE DEF x, text
<1>6. CASE toApp' = toApp
  BY <1>3, <1>6 DEF SocketReads
<1>7. CASE linked /\ toApp' = Append(toApp, x)
  <2>1. ASSUME NEW i \in DOMAIN toApp', NEW k \in DOMAIN toApp'[i].text PROVE toApp'[i].text[k] <= Recorded
    <3>1. toApp'[i] = x \/ (i \in DOMAIN toApp /\ toApp'[i] = toApp[i])
      BY <1>2, <1>5, <1>7
    <3>2. CASE toApp'[i] = x
      BY <1>2, <1>4, <1>7, <3>2
    <3>3. CASE i \in DOMAIN toApp /\ toApp'[i] = toApp[i]
      BY <3>3 DEF SocketReads
    <3> QED BY <3>1, <3>2, <3>3
  <2> QED BY <1>3, <2>1 DEF SocketReads
<1> QED BY <1>1, <1>6, <1>7

LEMMA SocketReadsStep ==
  ASSUME CleanInv, SessionTypes, SocketInv, Numbers, Numbers', Counted, WrittenReads, SocketReads, [Next]_vars
  PROVE  SocketReads'
<1>1. ASSUME toApp' = <<>> PROVE SocketReads'
  BY <1>1 DEF SocketReads
<1>2. ASSUME UNCHANGED <<toApp, events>> PROVE SocketReads'
  <2>1. Recorded' = Recorded
    BY <1>2 DEF Recorded, Inputs
  <2> QED BY <1>2, <2>1 DEF SocketReads
<1>3. CASE StartRun \/ CloseSession
  <2>1. toApp' = <<>>
    BY <1>3 DEF StartRun, CloseSession, CleanInv, AnswerInv, LinkInv, link
  <2> QED BY <1>1, <2>1
<1>4. CASE SubmitInput
  <2>1. events' = Append(events, Stdin) /\ UNCHANGED toApp
    BY <1>4 DEF SubmitInput, Submit, link
  <2>2. Recorded' = Recorded + 1
    <3>1. Cardinality(Inputs(Append(events, Stdin))) = Cardinality(Inputs(events)) + 1
      BY InputsAppend DEF SessionTypes
    <3> QED BY <2>1, <3>1 DEF Recorded
  <2>3. Recorded' >= Recorded
    BY <2>2 DEF Numbers
  <2> QED BY <2>1, <2>3, SocketReadsKeeps
<1>5. CASE Receive
  <2>1. Recorded' = Recorded
    BY <1>5, ReceiveRecords DEF Recorded
  <2>2. toApp' = <<>> \/ \E k \in 1..Len(toApp) : toApp' = SubSeq(toApp, k + 1, Len(toApp))
    BY <1>5 DEF Receive, EndClient
  <2>3. ASSUME NEW k \in 1..Len(toApp), toApp' = SubSeq(toApp, k + 1, Len(toApp))
        PROVE  \A i \in DOMAIN toApp' : \E j \in DOMAIN toApp : toApp'[i] = toApp[j]
    <3>1. toApp \in Seq(Events)
      BY DEF CleanInv, LinkInv
    <3>2. \A i \in DOMAIN toApp' : i + k \in DOMAIN toApp /\ toApp'[i] = toApp[i + k]
      BY <2>3, <3>1
    <3> QED BY <3>2
  <2>4. Recorded' >= Recorded
    BY <2>1 DEF Numbers
  <2> QED BY <1>1, <2>2, <2>3, <2>4, SocketReadsKeeps
<1>6. CASE PumpOutput
  <2>1. server = "running" /\ captured + 1 \in captured..Len(written) /\ Capture(captured + 1) /\ UNCHANGED events
    BY <1>6 DEF PumpOutput, CleanInv, PipeInv, session
  <2> QED BY <2>1, CaptureReads
<1>7. CASE Drain
  <2>1. UNCHANGED events /\ server = "draining"
    BY <1>7 DEF Drain, session
  <2>2. CASE CanSend(Kept(captured + 1, Len(written)))
    <3>1. Len(written) \in captured..Len(written) /\ Capture(Len(written))
      BY <1>7, <2>2 DEF Drain, CleanInv, PipeInv
    <3> QED BY <2>1, <3>1, CaptureReads
  <2>3. CASE ~CanSend(Kept(captured + 1, Len(written)))
    BY <1>2, <1>7, <2>1, <2>3 DEF Drain
  <2> QED BY <2>2, <2>3
<1>8. CASE Reply
  <2> DEFINE x == Event(IF verdict \in {"refused", "error"} THEN "error" ELSE "result", <<>>)
  <2>1. toApp' = toApp \/ toApp' = Append(toApp, x)
    BY <1>8 DEF Reply
  <2>2. x \in Events /\ x.text = <<>> /\ toApp \in Seq(Events)
    BY DEF Event, Events, CleanInv, LinkInv
  <2>3. UNCHANGED events
    BY <1>8 DEF Reply, session
  <2>4. Recorded' = Recorded
    BY <2>3 DEF Recorded, Inputs
  <2> HIDE DEF x
  <2>5. ASSUME NEW i \in DOMAIN toApp', NEW k \in DOMAIN toApp'[i].text PROVE toApp'[i].text[k] <= Recorded
    <3>1. toApp'[i] = x \/ (i \in DOMAIN toApp /\ toApp'[i] = toApp[i])
      BY <2>1, <2>2
    <3>2. toApp'[i] # x
      BY <2>2
    <3> QED BY <3>1, <3>2 DEF SocketReads
  <2> QED BY <2>4, <2>5 DEF SocketReads
<1>9. CASE Connect \/ SendCancel \/ SendQueued \/ GiveUp
  <2>1. UNCHANGED events /\ (toApp' = toApp \/ toApp' = <<>>)
    BY <1>9 DEF Connect, SendCancel, SendQueued, Transmit, GiveUp, EndClient, session, link
  <2> QED BY <1>1, <1>2, <2>1
<1>10. CASE SubmitEof \/ CancelRun \/ DeleteProject \/ SendCommand \/ NoticeHangUp \/ RecordResult
  BY <1>2, <1>10 DEF SubmitEof, CancelRun, Submit, DeleteProject, SendCommand, NoticeHangUp,
                     RecordResult, session, link
<1>11. CASE Spawn \/ PumpFails \/ ForwardInput \/ CloseStdin \/ Canceled \/ LoopEnds \/ Listen \/ Program
  BY <1>2, <1>11 DEF Spawn, PumpFails, ForwardInput, CloseStdin, Canceled, LoopEnds, Listen, Kill,
                     Program, Write, Read, Exit, session, link
<1>12. CASE UNCHANGED vars
  BY <1>2, <1>12 DEF vars, session, link
<1> QED BY <1>3, <1>4, <1>5, <1>6, <1>7, <1>8, <1>9, <1>10, <1>11, <1>12
        DEF Next, Browser, Coordinator, Client, Pump, Finish

-----------------------------------------------------------------------------
(* The transcript is causal.                                               *)

Before(e, i) == Cardinality({j \in Inputs(e) : j < i})
Causal(e) == \A i \in DOMAIN e : \A k \in DOMAIN e[i].text : Before(e, i) >= e[i].text[k]

\* A recorded input changes nothing for what was there,
LEMMA CausalAppend ==
  ASSUME NEW e \in Seq(Events), Causal(e)
  PROVE  Causal(Append(e, Stdin))
<1> DEFINE g == Append(e, Stdin)
<1>1. DOMAIN g = 1..(Len(e) + 1) /\ (\A i \in 1..Len(e) : g[i] = e[i]) /\ g[Len(e) + 1] = Stdin
      /\ DOMAIN e = 1..Len(e) /\ Len(e) \in Nat
  BY Kinds
<1>2. Inputs(g) = Inputs(e) \cup {Len(e) + 1}
  BY InputsAppend
<1> HIDE DEF g
<1>3. ASSUME NEW i \in 1..Len(e) PROVE Before(g, i) = Before(e, i)
  <2>1. {j \in Inputs(g) : j < i} = {j \in Inputs(e) : j < i}
    BY <1>1, <1>2
  <2> QED BY <2>1 DEF Before
<1>4. ASSUME NEW i \in DOMAIN g, NEW k \in DOMAIN g[i].text PROVE Before(g, i) >= g[i].text[k]
  <2>1. i # Len(e) + 1
    BY <1>1, Kinds
  <2>2. i \in 1..Len(e) /\ g[i] = e[i]
    BY <1>1, <2>1
  <2> QED BY <1>1, <1>3, <2>2 DEF Causal
<1>5. Causal(g)
  BY <1>4 DEF Causal
<1> QED BY <1>5 DEF g

\* and output is appended to all that its program can have read.
LEMMA CausalConcat ==
  ASSUME NEW e \in Seq(Events), Causal(e), NEW f \in Seq(Events),
         \A i \in DOMAIN f : f[i].type # "stdin",
         \A i \in DOMAIN f : \A k \in DOMAIN f[i].text : f[i].text[k] <= Cardinality(Inputs(e))
  PROVE  Causal(e \o f)
<1> DEFINE g == e \o f
<1>1. DOMAIN g = 1..(Len(e) + Len(f)) /\ (\A i \in 1..Len(e) : g[i] = e[i])
      /\ \A i \in 1..(Len(e) + Len(f)) : i > Len(e) => i - Len(e) \in DOMAIN f /\ g[i] = f[i - Len(e)]
  OBVIOUS
<1>2. Inputs(g) = Inputs(e)
  BY InputsConcat
<1>3. Len(e) \in Nat /\ DOMAIN e = 1..Len(e) /\ Cardinality(Inputs(e)) \in Nat
  BY InputsFinite
<1> HIDE DEF g
<1>4. ASSUME NEW i \in DOMAIN g, NEW k \in DOMAIN g[i].text PROVE Before(g, i) >= g[i].text[k]
  <2>1. CASE i <= Len(e)
    <3>1. i \in 1..Len(e) /\ g[i] = e[i]
      BY <1>1, <1>3, <2>1
    <3>2. Before(g, i) = Before(e, i)
      BY <1>2 DEF Before
    <3> QED BY <1>3, <3>1, <3>2 DEF Causal
  <2>2. CASE i > Len(e)
    <3>1. i - Len(e) \in DOMAIN f /\ g[i] = f[i - Len(e)]
      BY <1>1, <2>2
    <3>2. {j \in Inputs(g) : j < i} = Inputs(e)
      BY <1>1, <1>2, <1>3, <2>2 DEF Inputs
    <3>3. Before(g, i) = Cardinality(Inputs(e))
      BY <3>2 DEF Before
    <3>4. f[i - Len(e)] \in Events
      BY <3>1
    <3>5. f[i - Len(e)].text \in Seq(Nat)
      BY <3>4 DEF Events
    <3>6. g[i].text[k] <= Cardinality(Inputs(e)) /\ g[i].text[k] \in Nat
      BY <3>1, <3>5
    <3> QED BY <1>3, <3>3, <3>6
  <2> QED BY <1>1, <1>3, <2>1, <2>2
<1>5. Causal(g)
  BY <1>4 DEF Causal
<1> QED BY <1>5 DEF g

LEMMA CausalStep ==
  ASSUME CleanInv, SessionTypes, SocketInv, SocketReads, TranscriptIsCausal, [Next]_vars
  PROVE  TranscriptIsCausal'
<1>1. Causal(events)
  BY DEF TranscriptIsCausal, Causal, Before
<1>2. ASSUME Causal(events') PROVE TranscriptIsCausal'
  BY <1>2 DEF TranscriptIsCausal, Causal, Before
<1>3. events \in Seq(Events) /\ toApp \in Seq(Events) /\ <<>> \in Seq(Events) /\ Causal(<<>>)
  BY DEF SessionTypes, CleanInv, LinkInv, Causal
<1>4. CASE StartRun
  <2>1. events' = Append(<<>>, Stdin) \/ events' = <<>>
    BY <1>4 DEF StartRun
  <2> QED BY <1>2, <1>3, <2>1, CausalAppend
<1>5. CASE SubmitInput
  BY <1>1, <1>2, <1>3, <1>5, CausalAppend DEF SubmitInput
<1>6. CASE CloseSession
  BY <1>2, <1>3, <1>6 DEF CloseSession
<1>7. CASE Receive
  <2>1. CASE events' = events
    BY <1>1, <1>2, <2>1
  <2>2. ASSUME NEW n \in 0..Len(toApp), events' = events \o SubSeq(toApp, 1, n)
        PROVE  TranscriptIsCausal'
    <3> DEFINE f == SubSeq(toApp, 1, n)
    <3>1. f \in Seq(Events) /\ \A i \in DOMAIN f : i \in DOMAIN toApp /\ f[i] = toApp[i]
      BY <1>3
    <3> HIDE DEF f
    <3>2. \A i \in DOMAIN f : f[i].type # "stdin"
      BY <3>1 DEF SocketInv
    <3>3. \A i \in DOMAIN f : \A k \in DOMAIN f[i].text : f[i].text[k] <= Cardinality(Inputs(events))
      BY <3>1 DEF SocketReads, Recorded
    <3>4. Causal(events \o f)
      BY <1>1, <1>3, <3>1, <3>2, <3>3, CausalConcat
    <3> QED BY <1>2, <2>2, <3>4 DEF f
  <2> QED BY <1>7, <2>1, <2>2, ReceiveRecords
<1>8. CASE ~(StartRun \/ SubmitInput \/ CloseSession \/ Receive)
  <2>1. UNCHANGED events
    BY <1>8 DEF Next, Browser, Coordinator, Client, Pump, Finish, Program, SubmitEof, CancelRun,
         DeleteProject, SendCommand, NoticeHangUp, RecordResult, Connect, SendCancel, SendQueued,
         GiveUp, Spawn, PumpOutput, PumpFails, ForwardInput, CloseStdin, Canceled, LoopEnds, Drain,
         Reply, Listen, Write, Read, Exit, vars, session
  <2> QED BY <1>1, <1>2, <2>1
<1> QED BY <1>4, <1>5, <1>6, <1>7, <1>8

-----------------------------------------------------------------------------
(* The transcript is complete.                                             *)

\* What a recorded run has left does not change.
LEMMA CompleteKeeps ==
  ASSUME TranscriptIsComplete, UNCHANGED <<phase, message, written>>
  PROVE  TranscriptIsComplete'
BY DEF TranscriptIsComplete, Kept

LEMMA SameOutput ==
  ASSUME OutputInv, Output(events') = Output(events),
         UNCHANGED <<client, server, toApp, linked, verdict, captured, written, answer, phase, message>>
  PROVE  OutputInv'
<1>1. Output(events)' = Output(events) /\ Output(toApp)' = Output(toApp)
  BY DEF Output
<1>2. Sent' = Sent
  BY <1>1 DEF Sent
<1>3. Kept(1, captured)' = Kept(1, captured) /\ Kept(1, Len(written))' = Kept(1, Len(written))
  BY DEF Kept
<1>4. TranscriptIsComplete'
  BY CompleteKeeps DEF OutputInv
<1> QED BY <1>1, <1>2, <1>3, <1>4
        DEF OutputInv, Silent, Streamed, Drained, Failed, Responded, Answered

\* A step of the client's loop.
LEMMA StageOutput ==
  ASSUME OutputInv, client \in {"cancel", "send", "receive"}, client' \in {"cancel", "send", "receive"},
         UNCHANGED <<events, server, toApp, linked, verdict, captured, written, answer, phase, message>>
  PROVE  OutputInv'
<1>1. Output(events)' = Output(events) /\ Output(toApp)' = Output(toApp)
  BY DEF Output
<1>2. Sent' = Sent
  BY <1>1 DEF Sent
<1>3. Kept(1, captured)' = Kept(1, captured) /\ Kept(1, Len(written))' = Kept(1, Len(written))
  BY DEF Kept
<1>4. TranscriptIsComplete'
  BY CompleteKeeps DEF OutputInv
<1> QED BY <1>1, <1>2, <1>3, <1>4
        DEF OutputInv, Silent, Streamed, Drained, Failed, Responded, Answered

\* The client ends without a result.
LEMMA EndOutput ==
  ASSUME OutputInv, NEW with, with # "result", EndClient(with), phase # "recorded", server # "requested",
         UNCHANGED <<server, verdict, captured, written, phase>>
  PROVE  OutputInv'
BY DEF EndClient, OutputInv, Silent, Streamed, Drained, Failed, Responded, Answered, TranscriptIsComplete

LEMMA SessionOutput ==
  ASSUME CleanInv, SessionTypes, SocketInv, OutputInv, Browser \/ SendCommand \/ Coordinator
  PROVE  OutputInv'
<1>1. CASE StartRun
  <2>1. /\ client' = "connect" /\ ~linked' /\ server' # "requested" /\ answer' = None /\ toApp' = <<>>
        /\ phase' = "running" /\ UNCHANGED <<server, verdict, captured, written>>
    BY <1>1 DEF StartRun, SocketInv, CleanInv, AnswerInv, LinkInv, link, runner, program
  <2>2. Output(events') = <<>>
    <3>1. CASE events' = <<>>
      BY <3>1, OutputEmpty, Zenon
    <3>2. CASE events' = <<Stdin>>
      <4>1. events' = Append(<<>>, Stdin) /\ <<>> \in Seq(Events)
        BY <3>2
      <4>2. Output(events') = Output(<<>>) \o Stdin.text
        BY <4>1, Kinds, OutputAppend
      <4>3. Output(events') = <<>> \o <<>>
        BY <4>2, OutputEmpty, Kinds, Zenon
      <4> QED BY <4>3
    <3> QED BY <1>1, <3>1, <3>2 DEF StartRun
  <2>3. Output(events)' = <<>>
    BY <2>2 DEF Output
  <2>4. None # "result"
    BY NoneIsNoAnswer
  <2> QED BY <2>1, <2>3, <2>4
          DEF OutputInv, Silent, Streamed, Drained, Failed, Responded, Answered, TranscriptIsComplete
<1>2. CASE SubmitInput
  <2>1. events' = Append(events, Stdin) /\ events \in Seq(Events)
    BY <1>2 DEF SubmitInput, SessionTypes
  <2>2. Output(events') = Output(events) \o <<>> /\ Output(events) \in Seq(Nat)
    BY <2>1, Kinds, OutputAppend, OutputType
  <2>3. Output(events') = Output(events)
    <3> DEFINE o == Output(events)
    <3>1. Output(events') = o \o <<>> /\ o \in Seq(Nat)
      BY <2>2
    <3> HIDE DEF o
    <3>2. Output(events') = o
      BY <3>1
    <3> QED BY <3>2 DEF o
  <2> QED BY <1>2, <2>3, SameOutput DEF SubmitInput, Submit, thread, link, runner, program
<1>3. CASE SubmitEof \/ CancelRun \/ SendCommand \/ NoticeHangUp \/ DeleteProject
  <2>1. UNCHANGED <<events, client, server, toApp, linked, verdict, captured, written, answer, phase, message>>
    BY <1>3 DEF SubmitEof, CancelRun, Submit, SendCommand, NoticeHangUp, DeleteProject, session, thread,
                link, runner, program
  <2> QED BY <2>1, SameOutput
<1>4. CASE RecordResult
  <2>1. UNCHANGED <<events, client, server, toApp, linked, verdict, captured, written, answer>>
    BY <1>4 DEF RecordResult, thread, link, runner, program
  <2>2. phase' = "recorded" => answer = "result" /\ message' \in Shown(events)
    BY <1>4 DEF RecordResult
  <2>3. Output(events)' = Output(events) /\ Output(toApp)' = Output(toApp)
    BY <2>1 DEF Output
  <2>4. Sent' = Sent
    BY <2>3 DEF Sent
  <2>5. Kept(1, captured)' = Kept(1, captured) /\ Kept(1, Len(written))' = Kept(1, Len(written))
    BY <2>1 DEF Kept
  <2>6. Silent' /\ Streamed' /\ Drained' /\ Responded' /\ Answered'
    BY <2>1, <2>3, <2>4, <2>5 DEF OutputInv, Silent, Streamed, Drained, Failed, Responded, Answered
  <2>7. TranscriptIsComplete'
    <3> DEFINE m == message'
    <3>1. SUFFICES ASSUME phase' = "recorded" PROVE TranscriptIsComplete'
      BY DEF TranscriptIsComplete
    <3>2. Output(events) = Kept(1, Len(written))' /\ m \in Shown(events)
      BY <2>2, <2>5, <3>1 DEF OutputInv, Answered
    <3>3. events \in Seq(Events)
      BY DEF SessionTypes
    <3> HIDE DEF m
    <3>4. /\ m.result = events
          /\ IsPrefix(Output(m.shown), Output(events))
          /\ ~m.truncated => m.shown = events
      BY <3>2, <3>3, ShownIsPrefix
    <3>5. /\ Output(m.result) = Kept(1, Len(written))'
          /\ IsPrefix(Output(m.shown), Kept(1, Len(written))')
          /\ ~m.truncated => Output(m.shown) = Kept(1, Len(written))'
      BY <3>2, <3>4, Zenon
    <3> QED BY <3>5 DEF TranscriptIsComplete, m
  <2> QED BY <2>6, <2>7 DEF OutputInv
<1>5. CASE CloseSession
  <2>1. /\ client' = "off" /\ ~linked' /\ server' # "requested" /\ answer' = None /\ toApp' = <<>>
        /\ phase' = "none" /\ UNCHANGED <<server, verdict, captured, written>>
    BY <1>5 DEF CloseSession, SocketInv, CleanInv, AnswerInv, LinkInv, link, runner, program
  <2>2. None # "result"
    BY NoneIsNoAnswer
  <2> QED BY <2>1, <2>2
          DEF OutputInv, Silent, Streamed, Drained, Failed, Responded, Answered, TranscriptIsComplete
<1> QED BY <1>1, <1>2, <1>3, <1>4, <1>5 DEF Browser, Coordinator

\* What is read from the socket is in the transcript instead, and with the
\* final response, which has no text, all of it is.
LEMMA SplitOutput ==
  ASSUME NEW e \in Seq(Events), NEW s \in Seq(Events), NEW k \in 1..Len(s)
  PROVE  /\ Output(e \o SubSeq(s, 1, k)) \o Output(SubSeq(s, k + 1, Len(s))) = Output(e) \o Output(s)
         /\ k = Len(s) /\ s[k].text = <<>> => Output(e \o SubSeq(s, 1, k - 1)) = Output(e) \o Output(s)
<1> DEFINE a == SubSeq(s, 1, k)
           b == SubSeq(s, k + 1, Len(s))
           c == SubSeq(s, 1, k - 1)
<1>1. a \in Seq(Events) /\ b \in Seq(Events) /\ c \in Seq(Events)
  OBVIOUS
<1>2. s = a \o b
  <2>1. Len(s) \in Nat /\ k \in 0..Len(s) /\ Len(s) \in k..Len(s)
    OBVIOUS
  <2>2. SubSeq(s, 1, k) \o SubSeq(s, k + 1, Len(s)) = SubSeq(s, 1, Len(s))
    BY <2>1, ConcatAdjacentSubSeq
  <2> QED BY <2>2, SubSeqFull
<1>3. k = Len(s) => s = Append(c, s[k]) /\ s[k] \in Events
  <2> SUFFICES ASSUME k = Len(s) PROVE s = Append(c, s[k]) /\ s[k] \in Events
    OBVIOUS
  <2> QED OBVIOUS
<1> HIDE DEF a, b, c
<1> DEFINE x == Output(e)
           y == Output(a)
           z == Output(b)
<1>4. x \in Seq(Nat) /\ y \in Seq(Nat) /\ z \in Seq(Nat)
  BY <1>1, OutputType
<1>5. Output(s) = y \o z
  BY <1>1, <1>2, OutputConcat
<1>6. Output(e \o a) = x \o y
  BY <1>1, OutputConcat
<1>7. (x \o y) \o z = x \o (y \o z)
  <2> HIDE DEF x, y, z
  <2> QED BY <1>4, TextsAssociative
<1>8. Output(e \o a) \o Output(b) = Output(e) \o Output(s)
  BY <1>5, <1>6, <1>7, Zenon
<1>9. ASSUME k = Len(s), s[k].text = <<>> PROVE Output(e \o c) = Output(e) \o Output(s)
  <2> DEFINE v == Output(c)
  <2>1. Output(s) = v \o <<>> /\ v \in Seq(Nat)
    BY <1>1, <1>3, <1>9, OutputAppend, OutputType
  <2>2. Output(s) = v
    <3> HIDE DEF v
    <3> QED BY <2>1
  <2>3. Output(e \o c) = x \o v
    BY <1>1, OutputConcat
  <2> QED BY <2>2, <2>3, Zenon
<1> QED BY <1>8, <1>9 DEF a, b, c

LEMMA ReceiveOutput ==
  ASSUME CleanInv, SessionTypes, SocketInv, OutputInv, Receive
  PROVE  OutputInv'
<1>1. client = "receive" /\ phase # "recorded" /\ UNCHANGED <<server, verdict, captured, written, phase, message>>
  BY DEF Receive, CleanInv, AnswerInv, runner, program
<1>2. CASE toApp = <<>>
  <2>1. CASE PeerClosed
    <3>1. EndClient("nothing") /\ server # "requested"
      BY <1>2, <2>1 DEF Receive, PeerClosed
    <3> QED BY <1>1, <3>1, EndOutput
  <2>2. CASE ~PeerClosed
    BY <1>1, <1>2, <2>2, StageOutput DEF Receive
  <2> QED BY <2>1, <2>2
<1>3. CASE toApp # <<>>
  <2>1. PICK k \in 1..Len(toApp) :
          IF toApp[k].type = "stdout"
          THEN /\ events' = events \o SubSeq(toApp, 1, k)
               /\ toApp' = SubSeq(toApp, k + 1, Len(toApp))
               /\ client' = "cancel"
               /\ UNCHANGED <<answer, linked>>
          ELSE events' = events \o SubSeq(toApp, 1, k - 1) /\ EndClient(toApp[k].type)
    BY <1>3 DEF Receive
  <2>2. toApp \in Seq(Events) /\ events \in Seq(Events) /\ server # "requested" /\ OnSocket(toApp)
    BY <1>3 DEF CleanInv, LinkInv, SessionTypes, SocketInv, OnSocket
  <2>3. Kept(1, captured)' = Kept(1, captured) /\ Kept(1, Len(written))' = Kept(1, Len(written))
    BY <1>1 DEF Kept
  <2>4. CASE toApp[k].type = "stdout"
    <3>1. /\ events' = events \o SubSeq(toApp, 1, k)
          /\ toApp' = SubSeq(toApp, k + 1, Len(toApp))
          /\ client' = "cancel" /\ UNCHANGED <<answer, linked>>
      BY <2>1, <2>4
    <3>2. Sent' = Sent
      <4>1. Output(events') \o Output(toApp') = Output(events) \o Output(toApp)
        BY <2>2, <3>1, SplitOutput
      <4> QED BY <4>1 DEF Sent, Output
    <3>3. (\E i \in DOMAIN toApp' : toApp'[i].type = "result") => \E i \in DOMAIN toApp : toApp[i].type = "result"
      <4>1. \A i \in DOMAIN toApp' : i + k \in DOMAIN toApp /\ toApp'[i] = toApp[i + k]
        BY <2>2, <3>1
      <4> QED BY <4>1
    <3>4. answer # "result"
      BY <1>1, NoneIsNoAnswer DEF CleanInv, AnswerInv
    <3>5. Silent' /\ Answered' /\ TranscriptIsComplete'
      BY <1>1, <2>2, <3>1, <3>4 DEF Silent, Answered, TranscriptIsComplete
    <3>6. Streamed' /\ Drained' /\ Responded'
      BY <1>1, <2>3, <3>1, <3>2, <3>3 DEF OutputInv, Streamed, Drained, Failed, Responded
    <3> QED BY <3>5, <3>6 DEF OutputInv
  <2>5. CASE toApp[k].type # "stdout"
    <3>1. events' = events \o SubSeq(toApp, 1, k - 1) /\ EndClient(toApp[k].type)
      BY <2>1, <2>5
    <3>2. k = Len(toApp) /\ toApp[k].text = <<>>
      BY <2>2, <2>5 DEF OnSocket
    <3>3. Output(events') = Sent
      BY <2>2, <3>1, <3>2, SplitOutput DEF Sent
    <3>4. Output(events)' = Sent
      BY <3>3 DEF Output
    <3>5. answer' = "result" => Sent = Kept(1, Len(written))
      <4>1. answer' = toApp[k].type /\ k \in DOMAIN toApp
        BY <2>2, <3>1 DEF EndClient
      <4> QED BY <4>1 DEF OutputInv, Responded
    <3>6. Answered'
      BY <2>3, <3>4, <3>5 DEF Answered
    <3>7. Silent' /\ Streamed' /\ Drained' /\ Responded' /\ TranscriptIsComplete'
      BY <1>1, <2>2, <3>1
         DEF EndClient, OutputInv, Silent, Streamed, Drained, Failed, Responded, TranscriptIsComplete
    <3> QED BY <3>6, <3>7 DEF OutputInv
  <2> QED BY <2>4, <2>5
<1> QED BY <1>2, <1>3

LEMMA ClientOutput ==
  ASSUME CleanInv, SessionTypes, SocketInv, OutputInv, Client \/ GiveUp
  PROVE  OutputInv'
<1>0. client # "done" => phase # "recorded"
  BY DEF CleanInv, AnswerInv
<1>1. CASE Connect
  <2>1. /\ client = "connect" /\ server # "requested" /\ toApp = <<>> /\ answer = None /\ phase # "recorded"
        /\ UNCHANGED <<phase, events, message, verdict, captured, written>>
    BY <1>0, <1>1 DEF Connect, SocketInv, CleanInv, LinkInv, AnswerInv, session, program
  <2>2. CASE client' = "cancel"
    <3>1. server' = "requested" /\ client' = "cancel" /\ toApp' = <<>> /\ answer' = None
      BY <1>1, <2>1, <2>2 DEF Connect, EndClient
    <3>2. Output(events)' = <<>>
      BY <2>1 DEF OutputInv, Silent, Output
    <3>3. None # "result"
      BY NoneIsNoAnswer
    <3> QED BY <2>1, <3>1, <3>2, <3>3
            DEF OutputInv, Silent, Streamed, Drained, Failed, Responded, Answered, TranscriptIsComplete
  <2>3. CASE client' # "cancel"
    <3>1. PICK with \in {"oversized", "unavailable"} : EndClient(with) /\ UNCHANGED server
      BY <1>1, <2>3, ConnectEnds
    <3> QED BY <2>1, <3>1, EndOutput
  <2> QED BY <2>2, <2>3
<1>2. CASE SendCancel \/ SendQueued
  <2>1. /\ client \in {"cancel", "send"} /\ phase # "recorded"
        /\ UNCHANGED <<phase, events, message, server, verdict, captured, written>>
    BY <1>0, <1>2 DEF SendCancel, SendQueued, session, runner, program
  <2>2. \/ EndClient("unreachable") /\ server # "requested"
        \/ client' \in {"send", "receive"} /\ UNCHANGED <<toApp, linked, answer>>
    BY <1>2 DEF SendCancel, SendQueued, Transmit, PeerClosed, link
  <2> QED BY <2>1, <2>2, EndOutput, StageOutput
<1>3. CASE GiveUp
  BY <1>0, <1>3, EndOutput DEF GiveUp, session, runner, program
<1> QED BY <1>1, <1>2, <1>3, ReceiveOutput DEF Client

\* While the runner holds the connection no response is under way, none was
\* received, and nothing is recorded.
LEMMA NoResponse ==
  ASSUME CleanInv, ~PeerClosed
  PROVE  /\ answer # "result" /\ phase # "recorded"
         /\ \A i \in DOMAIN toApp : toApp[i].type # "result"
BY OnlyOutput DEF CleanInv, AnswerInv

\* Then only what is captured and sent matters.
LEMMA HeldOutput ==
  ASSUME CleanInv, OutputInv, ~PeerClosed, UNCHANGED <<client, answer, phase>>,
         \A i \in DOMAIN toApp' : toApp'[i].type # "result", server' # "requested", client # "connect"
            \/ UNCHANGED events, Streamed', Drained'
  PROVE  OutputInv'
<1>1. answer' # "result" /\ phase' # "recorded"
  BY NoResponse
<1>2. Silent'
  BY DEF OutputInv, Silent, Output
<1> QED BY <1>1, <1>2 DEF OutputInv, Responded, Answered, TranscriptIsComplete

\* What is captured is sent.
LEMMA CaptureSent ==
  ASSUME CleanInv, SessionTypes, SocketInv, ~PeerClosed, NEW last \in captured..Len(written), Capture(last),
         UNCHANGED <<events, written>>
  PROVE  /\ captured' = last
         /\ \A i \in DOMAIN toApp' : toApp'[i].type # "result"
         /\ Sent = Kept(1, captured) => Sent' = Kept(1, captured)'
<1> DEFINE text == Kept(captured + 1, last)
           x == Event("stdout", text)
<1>1. /\ captured' = last /\ text \in Seq(Nat) /\ x \in Events
      /\ \/ text = <<>> /\ toApp' = toApp
         \/ toApp' = Append(toApp, x)
  BY CaptureSends
<1>2. x.text = text /\ x.type = "stdout"
  BY DEF Event
<1>3. Kept(1, last) = Kept(1, captured) \o text /\ Kept(1, captured) \in Seq(Nat)
  BY KeptAdds DEF CleanInv
<1>8. Kept(1, captured)' = Kept(1, last)
  BY <1>1 DEF Kept
<1>4. toApp \in Seq(Events) /\ events \in Seq(Events) /\ \A i \in DOMAIN toApp : toApp[i].type = "stdout"
  BY OnlyOutput DEF CleanInv, LinkInv, SessionTypes
<1> HIDE DEF text, x
<1>5. \A i \in DOMAIN toApp' : toApp'[i].type # "result"
  <2>1. \A i \in DOMAIN toApp' : toApp'[i] = x \/ (i \in DOMAIN toApp /\ toApp'[i] = toApp[i])
    BY <1>1, <1>4, SMTT(30)
  <2> QED BY <1>2, <1>4, <2>1
<1>6. Sent' = Output(events) \o Output(toApp')
  BY DEF Sent, Output
<1>7. ASSUME Sent = Kept(1, captured) PROVE Sent' = Kept(1, last)
  <2> DEFINE a == Output(events)
             b == Output(toApp)
             kept == Kept(1, captured)
  <2>1. a \in Seq(Nat) /\ b \in Seq(Nat) /\ kept \in Seq(Nat) /\ a \o b = kept
    BY <1>3, <1>4, <1>7, OutputType DEF Sent
  <2>2. CASE text = <<>> /\ toApp' = toApp
    <3>1. kept \o text = kept
      <4> HIDE DEF kept
      <4> QED BY <2>1, <2>2
    <3> QED BY <1>3, <1>6, <2>1, <2>2, <3>1, Zenon
  <2>3. CASE toApp' = Append(toApp, x)
    <3>1. Output(toApp') = b \o text
      BY <1>1, <1>2, <1>4, <2>3, OutputAppend
    <3>2. (a \o b) \o text = a \o (b \o text)
      <4> HIDE DEF a, b
      <4> QED BY <1>1, <2>1, TextsAssociative
    <3> QED BY <1>3, <1>6, <2>1, <3>1, <3>2, Zenon
  <2> QED BY <1>1, <2>2, <2>3
<1> QED BY <1>1, <1>5, <1>7, <1>8

LEMMA RunnerOutput ==
  ASSUME CleanInv, SessionTypes, RunnerTypes, SocketInv, OutputInv, Spawn \/ Pump \/ Finish \/ Program
  PROVE  OutputInv'
<1>1. UNCHANGED <<linked, client, phase, answer, events, message>>
  BY DEF Pump, Finish, Program, Spawn, PumpOutput, PumpFails, ForwardInput, CloseStdin, Canceled,
         LoopEnds, Drain, Reply, Listen, Write, Read, Exit, link, session, thread
<1>2. ASSUME UNCHANGED toApp PROVE Sent' = Sent
  BY <1>1, <1>2 DEF Sent, Output
<1>3. ASSUME UNCHANGED <<captured, written>> PROVE Kept(1, captured)' = Kept(1, captured)
  BY <1>3 DEF Kept
<1>4. CASE Spawn
  <2>1. server = "requested" /\ toApp' = <<>> /\ UNCHANGED toApp /\ ~PeerClosed
    BY <1>4 DEF Spawn, SocketInv, PeerClosed, link
  <2>2. Sent' = <<>>
    <3>1. Output(events) = <<>> /\ Output(toApp) = <<>>
      BY <2>1, OutputEmpty DEF OutputInv, Silent
    <3>2. Sent = <<>> \o <<>>
      BY <3>1, Zenon DEF Sent
    <3> QED BY <1>2, <2>1, <3>2
  <2>3. \/ server' = "running" /\ captured' = 0
        \/ server' = "replying" /\ verdict' = "refused"
    BY <1>4 DEF Spawn
  <2>4. Streamed'
    <3>1. CASE server' = "running" /\ captured' = 0
      <4>1. Kept(1, captured)' = <<>>
        BY <3>1, KeptNothing
      <4> QED BY <2>2, <4>1 DEF Streamed
    <3>2. CASE server' = "replying" /\ verdict' = "refused"
      BY <3>2 DEF Streamed, Failed
    <3> QED BY <2>3, <3>1, <3>2
  <2>5. Drained'
    BY <2>3 DEF Drained, Failed
  <2> QED BY <1>1, <2>1, <2>3, <2>4, <2>5, HeldOutput
<1>5. CASE PumpOutput
  <2>1. /\ server = "running" /\ server' = "running" /\ ~PeerClosed /\ UNCHANGED written
        /\ captured + 1 \in captured..Len(written) /\ Capture(captured + 1)
    BY <1>5 DEF PumpOutput, CleanInv, PipeInv, PeerClosed, program
  <2>2. captured' = captured + 1 /\ (\A i \in DOMAIN toApp' : toApp'[i].type # "result")
        /\ (Sent = Kept(1, captured) => Sent' = Kept(1, captured)')
    BY <1>1, <2>1, CaptureSent
  <2>3. Streamed'
    <3>1. linked => Sent' = Kept(1, captured)'
      BY <2>1, <2>2 DEF OutputInv, Streamed
    <3> QED BY <1>1, <3>1 DEF Streamed
  <2>4. Drained'
    BY <2>1 DEF Drained
  <2> QED BY <1>1, <2>1, <2>2, <2>3, <2>4, HeldOutput
<1>6. CASE PumpFails
  <2>1. server = "running" /\ server' = "draining" /\ verdict' = "error" /\ UNCHANGED toApp /\ ~PeerClosed
    BY <1>6 DEF PumpFails, Kill, PeerClosed, link
  <2>2. Streamed' /\ Drained'
    BY <2>1 DEF Streamed, Drained, Failed
  <2> QED BY <1>1, <2>1, <2>2, HeldOutput, NoResponse
<1>7. CASE ForwardInput \/ CloseStdin
  <2>1. UNCHANGED <<events, client, server, toApp, linked, verdict, captured, written, answer, phase, message>>
    BY <1>1, <1>7 DEF ForwardInput, CloseStdin, program
  <2>2. Output(events') = Output(events)
    BY <2>1
  <2> QED BY <2>1, <2>2, SameOutput
<1>8. CASE Canceled \/ LoopEnds
  <2>1. server = "running" /\ server' = "draining" /\ UNCHANGED <<toApp, captured, written>> /\ ~PeerClosed
    BY <1>8 DEF Canceled, LoopEnds, Kill, PeerClosed, link
  <2>2. Streamed'
    BY <1>1, <1>2, <1>3, <2>1 DEF OutputInv, Streamed
  <2>3. Drained'
    BY <2>1 DEF Drained
  <2> QED BY <1>1, <2>1, <2>2, <2>3, HeldOutput, NoResponse
<1>9. CASE Drain
  <2>1. server = "draining" /\ server' = "replying" /\ ~PeerClosed /\ UNCHANGED written
    BY <1>9 DEF Drain, PeerClosed, program
  <2>2. CASE CanSend(Kept(captured + 1, Len(written)))
    <3>1. Len(written) \in captured..Len(written) /\ Capture(Len(written)) /\ UNCHANGED verdict
      BY <1>9, <2>2 DEF Drain, CleanInv, PipeInv
    <3>2. captured' = Len(written) /\ (\A i \in DOMAIN toApp' : toApp'[i].type # "result")
          /\ (Sent = Kept(1, captured) => Sent' = Kept(1, captured)')
      BY <1>1, <2>1, <3>1, CaptureSent
    <3>3. Streamed'
      <4>1. linked /\ ~Failed => Sent' = Kept(1, captured)'
        BY <2>1, <3>2 DEF OutputInv, Streamed
      <4> QED BY <1>1, <2>1, <3>1, <4>1 DEF Streamed, Failed
    <3>4. Drained'
      BY <2>1, <3>2 DEF Drained
    <3> QED BY <1>1, <2>1, <3>2, <3>3, <3>4, HeldOutput
  <2>3. CASE ~CanSend(Kept(captured + 1, Len(written)))
    <3>1. verdict' = "error" /\ UNCHANGED toApp
      BY <1>9, <2>3 DEF Drain
    <3>2. Streamed' /\ Drained'
      BY <2>1, <3>1 DEF Streamed, Drained, Failed
    <3> QED BY <1>1, <2>1, <3>1, <3>2, HeldOutput, NoResponse
  <2> QED BY <2>2, <2>3
<1>10. CASE Reply
  <2> DEFINE x == Event(IF verdict \in {"refused", "error"} THEN "error" ELSE "result", <<>>)
  <2>1. /\ server = "replying" /\ server' = "closed" /\ ~PeerClosed /\ UNCHANGED <<captured, written>>
        /\ toApp' = toApp \/ (linked /\ toApp' = Append(toApp, x))
    BY <1>10 DEF Reply, PeerClosed, program
  <2>2. x \in Events /\ x.text = <<>> /\ (Failed => x.type = "error")
    BY DEF Event, Events, Failed
  <2>3. toApp \in Seq(Events) /\ events \in Seq(Events)
    BY DEF CleanInv, LinkInv, SessionTypes
  <2> HIDE DEF x
  <2>4. Responded'
    <3>1. CASE toApp' = toApp
      BY <2>1, <3>1, NoResponse DEF Responded
    <3>2. CASE linked /\ toApp' = Append(toApp, x)
      <4>1. CASE Failed
        <5>1. \A i \in DOMAIN toApp' : toApp'[i] = x \/ (i \in DOMAIN toApp /\ toApp'[i] = toApp[i])
          BY <2>2, <2>3, <3>2
        <5> QED BY <2>1, <2>2, <4>1, <5>1, NoResponse DEF Responded
      <4>2. CASE ~Failed
        <5>1. Sent = Kept(1, Len(written))
          BY <2>1, <3>2, <4>2 DEF OutputInv, Streamed, Drained
        <5> DEFINE o == Output(toApp)
        <5>2. Output(toApp') = o \o <<>> /\ o \in Seq(Nat)
          BY <2>2, <2>3, <3>2, OutputAppend, OutputType
        <5>3. Output(toApp') = o
          <6> HIDE DEF o
          <6> QED BY <5>2
        <5>4. Sent' = Output(events) \o Output(toApp')
          BY <1>1 DEF Sent, Output
        <5>5. Sent' = Sent
          BY <5>3, <5>4 DEF Sent
        <5>6. Kept(1, Len(written))' = Kept(1, Len(written))
          BY <2>1 DEF Kept
        <5> QED BY <5>1, <5>5, <5>6 DEF Responded
      <4> QED BY <4>1, <4>2
    <3> QED BY <2>1, <3>1, <3>2
  <2>5. answer' # "result" /\ phase' # "recorded"
    BY <1>1, <2>1, NoResponse
  <2>6. Silent'
    BY <1>1, <2>1 DEF OutputInv, Silent, Output
  <2> QED BY <2>1, <2>4, <2>5, <2>6 DEF OutputInv, Streamed, Drained, Answered, TranscriptIsComplete
<1>11. CASE Listen
  <2>1. server = "closed" /\ server' = "listening" /\ UNCHANGED <<toApp, captured, written, verdict>>
    BY <1>11 DEF Listen, link, program
  <2>2. Kept(1, Len(written))' = Kept(1, Len(written)) /\ Output(events)' = Output(events)
    BY <1>1, <2>1 DEF Kept, Output
  <2>3. TranscriptIsComplete'
    BY <1>1, <2>1, CompleteKeeps DEF OutputInv
  <2> QED BY <1>1, <1>2, <2>1, <2>2, <2>3
          DEF OutputInv, Silent, Streamed, Drained, Responded, Answered
<1>12. CASE Write
  <2>1. server = "running" /\ ~PeerClosed /\ UNCHANGED <<server, toApp, captured, verdict>>
        /\ written' = Append(written, consumed)
    BY <1>12 DEF Write, CleanInv, RunnerInv, PeerClosed, link, runner
  <2>2. Kept(1, captured)' = Kept(1, captured)
    <3> DEFINE n == IF captured < OutputLimit THEN captured ELSE OutputLimit
    <3>1. n \in Nat /\ n <= Len(written) /\ written \in Seq(Nat) /\ consumed \in Nat
      BY CodeRunAssumption DEF CleanInv, PipeInv
    <3>2. Kept(1, captured)' = SubSeq(Append(written, consumed), 1, n) /\ Kept(1, captured) = SubSeq(written, 1, n)
      BY <2>1 DEF Kept
    <3> HIDE DEF n
    <3>3. SubSeq(Append(written, consumed), 1, n) = SubSeq(written, 1, n)
      BY <3>1
    <3> QED BY <3>2, <3>3
  <2>3. Streamed'
    BY <1>1, <1>2, <2>1, <2>2 DEF OutputInv, Streamed
  <2>4. Drained'
    BY <2>1 DEF Drained
  <2> QED BY <1>1, <2>1, <2>3, <2>4, HeldOutput, NoResponse
<1>13. CASE Read \/ Exit
  <2>1. UNCHANGED <<events, client, server, toApp, linked, verdict, captured, written, answer, phase, message>>
    BY <1>1, <1>13 DEF Read, Exit, runner, link
  <2>2. Output(events') = Output(events)
    BY <2>1
  <2> QED BY <2>1, <2>2, SameOutput
<1> QED BY <1>4, <1>5, <1>6, <1>7, <1>8, <1>9, <1>10, <1>11, <1>12, <1>13 DEF Pump, Finish, Program

-----------------------------------------------------------------------------
(* The theorems.                                                           *)

LEMMA InitTranscript == Init => TInv
<1> SUFFICES ASSUME Init PROVE TInv
  OBVIOUS
<1>1. CleanInv
  BY InitClean
<1>2. SessionTypes /\ RunnerTypes
  <2>1. 0 \in 0..InputLimit
    BY CodeRunAssumption
  <2>2. SessionTypes
    <3>1. initial \in 0..InputLimit /\ inputBytes \in 0..InputLimit
      BY <2>1 DEF Init
    <3>2. /\ runs = 0 /\ project = TRUE /\ phase = "none" /\ events = <<>> /\ message = None
          /\ queue = <<>> /\ unsent = <<>> /\ commands = 0 /\ cancelEvent = FALSE /\ client = "off"
          /\ cancelSent = FALSE /\ answer = None
      BY DEF Init
    <3>3. events \in Seq(Events) /\ message \in Messages \cup {None}
          /\ queue \in Seq(Commands) /\ unsent \in Seq(Commands)
      BY <3>2
    <3>4. runs \in Nat /\ commands \in Nat
      BY <3>2
    <3>5. /\ project \in BOOLEAN /\ cancelEvent \in BOOLEAN /\ cancelSent \in BOOLEAN
      BY <3>2
    <3>6. /\ phase \in {"none", "running", "recorded", "failed"}
          /\ client \in {"off", "connect", "cancel", "send", "receive", "done"}
      BY <3>2
    <3>7. answer \in {None, "unavailable", "oversized", "unreachable", "nothing", "deadline", "result", "error"}
      BY <3>2
    <3> QED BY <3>1, <3>3, <3>4, <3>5, <3>6, <3>7 DEF SessionTypes
  <2>3. RunnerTypes
    <3>1. delivered \in 0..InputLimit
      BY <2>1 DEF Init
    <3>2. /\ linked = FALSE /\ toRunner = <<>> /\ socketFile = TRUE /\ server = "listening"
          /\ verdict = None /\ stdinOpen = FALSE /\ process = "none" /\ pipe = 0
      BY DEF Init
    <3>3. linked \in BOOLEAN /\ socketFile \in BOOLEAN /\ stdinOpen \in BOOLEAN
      BY <3>2
    <3>4. toRunner \in Seq(Commands) /\ pipe \in Nat
      BY <3>2
    <3>5. verdict \in {None, "completed", "canceled", "timed_out", "error", "refused"}
      BY <3>2
    <3>6. /\ server \in {"listening", "requested", "running", "draining", "replying", "closed"}
          /\ process \in {"none", "alive", "exited"}
      BY <3>2
    <3> QED BY <3>1, <3>3, <3>4, <3>5, <3>6 DEF RunnerTypes
  <2> QED BY <2>2, <2>3
<1>3. SocketInv
  BY DEF Init, SocketInv
<1>4. InputInv
  BY DEF Init, InputInv, Counted, WrittenReads, SocketReads, TranscriptIsCausal
<1>5. OutputInv
  BY NoneIsNoAnswer DEF Init, OutputInv, Silent, Streamed, Drained, Responded, Answered, TranscriptIsComplete
<1> QED BY <1>1, <1>2, <1>3, <1>4, <1>5 DEF TInv

LEMMA NextTranscript == TInv /\ [Next]_vars => TInv'
<1> SUFFICES ASSUME TInv, [Next]_vars PROVE TInv'
  OBVIOUS
<1> USE DEF TInv
<1>1. CleanInv'
  <2>1. CASE UNCHANGED vars
    BY <2>1 DEF vars, session, thread, link, runner, program, CleanInv, RunnerInv, PipeInv, LinkInv,
           AnswerInv, PeerClosed
  <2> QED BY <2>1, BrowserClean, CoordinatorClean, ClientClean, SpawnClean, PumpClean, FinishClean,
             ProgramClean DEF Next
<1>2. SessionTypes' /\ RunnerTypes'
  <2>1. CASE UNCHANGED vars
    BY <2>1 DEF vars, session, thread, link, runner, program, SessionTypes, RunnerTypes
  <2> QED BY <2>1, BrowserTypes, CoordinatorTypes, ClientTypes, RunnerStepTypes DEF Next
<1>3. SocketInv'
  <2>1. CASE UNCHANGED vars
    BY <2>1, SocketKeeps DEF vars, session, thread, link, runner
  <2> QED BY <2>1, SessionSocket, ClientSocket, RunnerSocket DEF Next
<1>4. Numbers /\ Numbers'
  BY <1>1, <1>2, NumbersHold, NumbersHoldNext
<1>5. Counted'
  <2>1. CASE UNCHANGED vars
    <3>1. AtProgram' = AtProgram /\ UNCHANGED <<phase, events, queue, unsent>>
      BY <2>1, AtProgramKeeps DEF vars, session, thread, link, runner, program
    <3>2. CASE phase # "none"
      BY <1>4, <3>1, <3>2, CountedKeeps DEF InputInv, Numbers
    <3> QED BY <3>1, <3>2 DEF Counted
  <2> QED BY <1>4, <2>1, SessionCounts, ClientCounts, RunnerCounts DEF Next, InputInv
<1>6. WrittenReads' /\ SocketReads' /\ TranscriptIsCausal'
  BY <1>4, WrittenStep, SocketReadsStep, CausalStep DEF InputInv
<1>7. OutputInv'
  <2>1. CASE UNCHANGED vars
    BY <2>1, SameOutput DEF vars, session, thread, link, runner, program
  <2> QED BY <2>1, SessionOutput, ClientOutput, RunnerOutput DEF Next
<1> QED BY <1>1, <1>2, <1>3, <1>5, <1>6, <1>7 DEF InputInv

\* The invariant is inductive: what holds of the session, the socket and the
\* runner at the start of a service holds after any number of its steps.
THEOREM TranscriptInductive == Spec => []TInv
BY InitTranscript, NextTranscript, PTL DEF Spec

LEMMA TypesImply == TInv => TypeOK
<1> SUFFICES ASSUME TInv PROVE TypeOK
  OBVIOUS
<1>1. initial \in Nat
  BY CodeRunAssumption DEF TInv, SessionTypes
<1> QED BY <1>1 DEF TInv, CleanInv, PipeInv, LinkInv, SessionTypes, RunnerTypes, Answers, TypeOK

\* TypeOK holds in every behaviour; in particular neither the session nor the
\* runner ever counts more input than the limit allows.
THEOREM RunTypesHold == Spec => []TypeOK
<1>1. TInv => TypeOK
  BY TypesImply
<1> QED BY <1>1, TranscriptInductive, PTL

\* TranscriptIsCausal: whatever the endpoints, the client's thread and the
\* runner do in between, what a program writes after reading an input comes
\* after that input in the transcript.
THEOREM TranscriptStaysCausal == Spec => []TranscriptIsCausal
<1>1. TInv => TranscriptIsCausal
  BY DEF TInv, InputInv
<1> QED BY <1>1, TranscriptInductive, PTL

\* TranscriptIsComplete: the transcript with which a run is answered has all
\* of the output that the program wrote and the runner's limit allows, whether
\* the run ended, was canceled or ran out of time; the message of the room has
\* the beginning of it, and all of it unless it is marked as cut.
THEOREM TranscriptBecomesComplete == Spec => []TranscriptIsComplete
<1>1. TInv => TranscriptIsComplete
  BY DEF TInv, OutputInv
<1> QED BY <1>1, TranscriptInductive, PTL
=============================================================================
