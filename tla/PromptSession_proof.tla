------------------------ MODULE PromptSession_proof ------------------------
(***************************************************************************)
(* Proofs about PromptSession, for any policies, sources, reminders, turns *)
(* and rounds.                                                             *)
(*                                                                         *)
(* The properties speak of the step in which compile() returns; the        *)
(* invariant says what the steps before it have prepared: the candidate is *)
(* the transcript without its k oldest turns, for a k at which every       *)
(* longer candidate was excluded (CandidateInv); the projections are its   *)
(* own (ProjectionInv); what remains of the session is a function of what  *)
(* it began with (SessionInv); a NEXT_REQUEST reminder still stored is     *)
(* owed (OwedInv).  With it compile() is one step for the turn: the same k *)
(* is the cut, what it consumes is consumed in the step in which it        *)
(* returns, and everything before is invisible (CompileIsAtomic).          *)
(*                                                                         *)
(* The last sections are about PromptTemplates, where the texts are        *)
(* written: the bindings of a template are those its operations left       *)
(* (TemplateInv), and what chains of policies make of any value.           *)
(***************************************************************************)
EXTENDS Prompts, Reminders_proof, FiniteSetTheorems

Reminder == [key : DynamicKeys, scope : Scopes, text : Nat]

Compiled == {"count", "trace", "consume"}
Places   == {"idle", "prepare", "resolve", "generate"} \cup Compiled

TypeInv ==
    /\ policy \in Policies /\ pc \in Places
    /\ committed \in Nat /\ current \in Nat /\ serial \in Nat
    /\ stored \in Seq(Reminder)
    /\ session \in [base : Seq(Reminder), remaining : Seq(Reminder)]

(* The boundaries of the committed turns. *)
BoundsInv ==
    /\ bounds \in Seq(Nat)
    /\ \A i \in DOMAIN bounds : bounds[i] \in 1 .. committed
    /\ \A i, j \in DOMAIN bounds : i < j => bounds[i] < bounds[j]

(* Where the transcript starts without its k oldest turns, and what is left. *)
StartOf(k) == IF k = 0 THEN 0 ELSE bounds[k]
Rest(k) == [messages |-> From(StartOf(k)),
            bounds   |-> [i \in 1 .. Len(bounds) - k |-> bounds[k + i] - StartOf(k)]]

(* Every candidate longer than this one is more than the policy keeps, or was  *)
(* counted over the budget.                                                    *)
Longest(k) == /\ PolicyKeeps(StartOf(k))
              /\ \A j \in 0 .. k - 1 : ~ PolicyKeeps(StartOf(j)) \/ From(StartOf(j)) \in over

CandidateInv ==
    pc \in {"resolve"} \cup Compiled =>
        \E k \in 0 .. Len(bounds) : candidate = Rest(k) /\ Longest(k)

Projects(projections, messages) ==
    /\ projections \in Seq([source : 1 .. NumSources, key : DynamicKeys, seen : {messages}])
    /\ Len(projections) <= NumSources
    /\ \A i \in DOMAIN projections : projections[i].source = i

ProjectionInv ==
    /\ pc = "resolve" => Projects(dynamic, candidate.messages)
    /\ pc \in Compiled =>
          /\ compiled.messages = candidate.messages
          /\ Projects(compiled.dynamic, compiled.messages)
          /\ Len(compiled.dynamic) = NumSources
          /\ compiled.stored = Active(session)
    /\ pc \in {"trace", "consume"} => fitting = compiled

(* What remains stored: all but the TURN reminders, until a request is accepted. *)
SessionInv ==
    LET left == Without(session.base, "turn")
    IN  session.remaining \in {left, Without(left, "next_request")}

TraceInv ==
    /\ pc \notin {"consume", "generate"} => traced = NoTrace
    /\ pc = "consume" => /\ traced = [compiled |-> compiled, consumed |-> <<>>]
                         /\ HasScope(compiled.stored, "next_request")

(* No two reminders share a text, which is the number of a registration. *)
TextsInv ==
    /\ \A r \in Members(Pending) : r.text <= serial
    /\ \A r, s \in Members(Pending) : r.text = s.text => r = s

OwedInv == owed = Texts(OfScope(Pending, "next_request"))

IInv == /\ TypeInv /\ BoundsInv
        /\ CandidateInv /\ ProjectionInv
        /\ SessionInv /\ TraceInv
        /\ TextsInv /\ OwedInv

-----------------------------------------------------------------------------
(* Whole turns. *)

LEMMA UpTo ==
  ASSUME NEW a \in Nat, NEW b \in Nat, a <= b
  PROVE  IsFiniteSet(a + 1 .. b) /\ Cardinality(a + 1 .. b) = b - a
<1> DEFINE c == a + 1
<1>1. c \in Int /\ b \in Int /\ (c > b <=> b - a = 0) /\ b - c + 1 = b - a
    OBVIOUS
<1> HIDE DEF c
<1>2. IsFiniteSet(c .. b) /\ Cardinality(c .. b) = IF c > b THEN 0 ELSE b - c + 1
    BY <1>1, FS_Interval
<1> QED
    BY <1>1, <1>2 DEF c

LEMMA Shift ==
  ASSUME NEW a \in Nat, NEW b \in Nat, a <= b, NEW i \in 1 .. b - a
  PROVE  a + i \in 1 .. b
    OBVIOUS

LEMMA Slice ==
  ASSUME NEW s, NEW a \in Nat, NEW b \in Nat, a <= b
  PROVE  SubSeq(s, a + 1, b) = [i \in 1 .. b - a |-> s[a + i]]
<1>1. SubSeq(s, a + 1, b) = [i \in 1 .. b - (a + 1) + 1 |-> s[i + (a + 1) - 1]]
    OBVIOUS
<1>2. b - (a + 1) + 1 = b - a
    OBVIOUS
<1>3. \A i \in 1 .. b - a : i + (a + 1) - 1 = a + i
    OBVIOUS
<1> QED
    BY <1>1, <1>2, <1>3

LEMMA FromFacts ==
  ASSUME TypeInv, NEW s \in 0 .. committed
  PROVE  LET m == committed + current
         IN  /\ m \in Nat /\ s \in Nat /\ s <= m /\ committed + current - s = m - s
             /\ From(s) = [i \in 1 .. m - s |-> s + i]
             /\ Len(From(s)) = m - s
<1> DEFINE m == committed + current
<1>1. m \in Nat /\ s \in Nat /\ s <= m /\ committed + current - s = m - s
    BY DEF TypeInv
<1>2. From(s) = [i \in 1 .. m - s |-> s + i]
    BY <1>1 DEF From
<1> HIDE DEF m
<1>3. Len(From(s)) = m - s
    BY <1>1, <1>2
<1> QED
    BY <1>1, <1>2, <1>3 DEF m

LEMMA Starts ==
  ASSUME TypeInv, BoundsInv
  PROVE  /\ Len(bounds) \in Nat /\ DOMAIN bounds = 1 .. Len(bounds)
         /\ \A k \in 0 .. Len(bounds) : StartOf(k) \in 0 .. committed
         /\ \A j, k \in 0 .. Len(bounds) : j < k => StartOf(j) < StartOf(k)
         /\ \A k \in 1 .. Len(bounds) : StartOf(k) = bounds[k]
         /\ StartOf(0) = 0
         /\ TurnStarts = {StartOf(k) : k \in 0 .. Len(bounds)}
<1>1. Len(bounds) \in Nat /\ DOMAIN bounds = 1 .. Len(bounds)
    BY DEF BoundsInv
<1> DEFINE n == Len(bounds)
<1> HIDE DEF n
<1>2. n \in Nat /\ DOMAIN bounds = 1 .. n
    BY <1>1 DEF n
<1>3. \A k \in 0 .. n : k = 0 \/ k \in 1 .. n
    BY <1>2
<1>4. /\ \A k \in 1 .. n : StartOf(k) = bounds[k] /\ bounds[k] \in 1 .. committed
      /\ StartOf(0) = 0 /\ committed \in Nat
  <2>1. \A k \in 1 .. n : k # 0 /\ bounds[k] \in 1 .. committed
      BY <1>2 DEF BoundsInv
  <2> QED
      BY <2>1 DEF StartOf, TypeInv
<1>5. \A k \in 0 .. n : StartOf(k) \in 0 .. committed
    BY <1>2, <1>3, <1>4
<1>6. ASSUME NEW j \in 0 .. n, NEW k \in 0 .. n, j < k
      PROVE  StartOf(j) < StartOf(k)
  <2>1. k \in 1 .. n
      BY <1>2, <1>6
  <2>2. CASE j = 0
      BY <1>4, <2>1, <2>2
  <2>3. CASE j \in 1 .. n
    <3>1. bounds[j] < bounds[k]
        BY <1>2, <1>6, <2>1, <2>3 DEF BoundsInv
    <3> QED
        BY <1>4, <2>1, <2>3, <3>1
  <2> QED
      BY <1>3, <2>2, <2>3
<1>7. TurnStarts = {StartOf(k) : k \in 0 .. n}
  <2>1. 0 \in 0 .. n /\ \A k \in 1 .. n : k \in 0 .. n
      BY <1>2
  <2>2. TurnStarts = {0} \cup {bounds[k] : k \in 1 .. n}
      BY <1>2 DEF TurnStarts
  <2>3. \A x \in TurnStarts : \E k \in 0 .. n : x = StartOf(k)
      BY <1>4, <2>1, <2>2
  <2>4. \A k \in 0 .. n : StartOf(k) \in TurnStarts
      BY <1>3, <1>4, <2>2
  <2> QED
      BY <2>3, <2>4
<1> QED
    BY <1>1, <1>4, <1>5, <1>6, <1>7 DEF n

(* How many turns begin after the first k. *)
LEMMA LaterStarts ==
  ASSUME TypeInv, BoundsInv, NEW k \in 0 .. Len(bounds)
  PROVE  Cardinality({b \in TurnStarts : StartOf(k) < b}) = Len(bounds) - k
<1> DEFINE n == Len(bounds)
           later == {b \in TurnStarts : StartOf(k) < b}
           f == [i \in k + 1 .. n |-> StartOf(i)]
<1>1. n \in Nat /\ k \in Nat /\ k <= n /\ k + 1 .. n \subseteq 0 .. n
    BY Starts
<1>2. \A i \in 0 .. n : StartOf(k) < StartOf(i) <=> i \in k + 1 .. n
  <2> SUFFICES ASSUME NEW i \in 0 .. n
               PROVE  StartOf(k) < StartOf(i) <=> i \in k + 1 .. n
      OBVIOUS
  <2>1. StartOf(i) \in Nat /\ StartOf(k) \in Nat
      BY Starts
  <2>2. CASE i \in k + 1 .. n
      BY <1>1, <2>2, Starts
  <2>3. CASE i \notin k + 1 .. n
    <3>1. i < k \/ i = k
        BY <1>1, <2>3
    <3>2. StartOf(i) < StartOf(k) \/ i = k
        BY <3>1, Starts
    <3> QED
        BY <2>1, <2>3, <3>2
  <2> QED
      BY <2>2, <2>3
<1>3. later = {StartOf(i) : i \in k + 1 .. n}
  <2>1. \A b \in later : \E i \in k + 1 .. n : b = StartOf(i)
    <3> SUFFICES ASSUME NEW b \in TurnStarts, StartOf(k) < b
                 PROVE  \E i \in k + 1 .. n : b = StartOf(i)
        OBVIOUS
    <3>1. PICK i \in 0 .. n : b = StartOf(i)
        BY Starts
    <3> QED
        BY <1>2, <3>1
  <2>2. \A i \in k + 1 .. n : StartOf(i) \in later
      BY <1>1, <1>2, Starts
  <2> QED
      BY <2>1, <2>2
<1>4. \A i, j \in k + 1 .. n : f[i] = f[j] => i = j
  <2> SUFFICES ASSUME NEW i \in k + 1 .. n, NEW j \in k + 1 .. n, StartOf(i) = StartOf(j)
               PROVE  i = j
      OBVIOUS
  <2>1. i \in 0 .. n /\ j \in 0 .. n /\ StartOf(i) \in Nat
      BY <1>1, Starts
  <2>2. ~ (i < j) /\ ~ (j < i)
      BY <2>1, Starts
  <2> QED
      BY <1>1, <2>1, <2>2
<1>5. f \in [k + 1 .. n -> later] /\ \A b \in later : \E i \in k + 1 .. n : f[i] = b
    BY <1>3
<1> DEFINE I == k + 1 .. n
<1>6. IsFiniteSet(I) /\ Cardinality(I) = n - k
    BY <1>1, UpTo
<1> HIDE DEF n, later, f, I
<1>7. f \in Surjection(I, later)
    BY <1>5 DEF Surjection, I
<1>8. f \in Injection(I, later)
    BY <1>4, <1>5 DEF Injection, IsInjective, I
<1>9. Cardinality(later) = Cardinality(I)
    BY <1>6, <1>7, <1>8, FS_Surjection
<1> QED
    BY <1>6, <1>9 DEF later, n

(* What the policy keeps, in numbers of turns and of messages. *)
LEMMA KeptTurns ==
  ASSUME TypeInv, BoundsInv, NEW k \in 0 .. Len(bounds)
  PROVE  PolicyKeeps(StartOf(k)) <=>
           /\ policy.kind = "window" => Len(bounds) - k <= policy.limit
           /\ policy.kind = "budget" => committed + current - StartOf(k) <= policy.limit
<1>1. policy.kind \in PolicyKinds /\ policy.limit \in Nat
    BY PromptAssumption DEF TypeInv
<1>2. StartOf(k) \in 0 .. committed /\ committed \in Nat /\ current \in Nat
    BY Starts DEF TypeInv
<1>3. Len(From(StartOf(k))) = committed + current - StartOf(k)
    BY <1>2, FromFacts
<1> QED
    BY <1>1, <1>3, LaterStarts DEF PolicyKeeps, PolicyKinds

(* Fewer turns are kept whenever more are. *)
LEMMA KeepsFewer ==
  ASSUME TypeInv, BoundsInv, NEW j \in 0 .. Len(bounds), NEW k \in 0 .. Len(bounds), j <= k,
         PolicyKeeps(StartOf(j))
  PROVE  PolicyKeeps(StartOf(k))
<1>1. /\ StartOf(j) \in 0 .. committed /\ StartOf(k) \in 0 .. committed
      /\ StartOf(j) <= StartOf(k) /\ Len(bounds) \in Nat
  <2>1. j = k \/ j < k
      OBVIOUS
  <2> QED
      BY <2>1, Starts
<1>2. policy.limit \in Nat /\ committed \in Nat /\ current \in Nat
    BY PromptAssumption DEF TypeInv
<1> HIDE DEF StartOf
<1> QED
    BY <1>1, <1>2, KeptTurns

(* DropTurns leaves the rest, from the transcript and from a candidate. *)
LEMMA DropsOfProvisional ==
  ASSUME TypeInv, BoundsInv, NEW k \in 0 .. Len(bounds)
  PROVE  /\ DropTurns(Provisional, k) = Rest(k)
         /\ Tokens(DropTurns(Provisional, k)) = committed + current - StartOf(k)
         /\ Len(Provisional.bounds) = Len(bounds)
<1> DEFINE m == committed + current
           s == StartOf(k)
<1>1. m \in Nat /\ s \in Nat /\ s <= m
    BY Starts DEF TypeInv
<1>2. /\ Provisional.messages = [i \in 1 .. m |-> i] /\ Provisional.bounds = bounds
      /\ Len(Provisional.messages) = m
    BY <1>1 DEF Provisional
<1>3. (IF k = 0 THEN 0 ELSE Provisional.bounds[k]) = s
    BY <1>2 DEF StartOf
<1> HIDE DEF m, s
<1>4. SubSeq(Provisional.messages, s + 1, m) = [i \in 1 .. m - s |-> s + i]
  <2> DEFINE whole == Provisional.messages
  <2>1. whole = [i \in 1 .. m |-> i]
      BY <1>2
  <2>2. \A i \in 1 .. m - s : s + i \in 1 .. m
      BY <1>1, Shift
  <2> HIDE DEF whole
  <2>3. SubSeq(whole, s + 1, m) = [i \in 1 .. m - s |-> whole[s + i]]
      BY ONLY <1>1, Slice
  <2>4. \A i \in 1 .. m - s : whole[s + i] = s + i
      BY <2>1, <2>2
  <2> QED
      BY <2>3, <2>4 DEF whole
<1>5. DropTurns(Provisional, k) =
        [messages |-> [i \in 1 .. m - s |-> s + i],
         bounds   |-> [i \in 1 .. Len(bounds) - k |-> bounds[k + i] - s]]
    BY <1>2, <1>3, <1>4 DEF DropTurns
<1>6. From(s) = [i \in 1 .. m - s |-> s + i] /\ Len(From(s)) = m - s
  <2>1. s \in 0 .. committed
      BY Starts DEF s
  <2> QED
      BY <2>1, FromFacts DEF m
<1>7. DropTurns(Provisional, k) = Rest(k)
    BY <1>5, <1>6 DEF Rest, s
<1>8. Tokens(DropTurns(Provisional, k)) = m - s
  <2>1. Rest(k).messages = From(s)
      BY DEF Rest, s
  <2> QED
      BY <1>6, <1>7, <2>1 DEF Tokens
<1>9. Len(Provisional.bounds) = Len(bounds)
    BY <1>2
<1>10. m - s = committed + current - StartOf(k)
  <2>1. StartOf(k) \in 0 .. committed
      BY Starts
  <2> QED
      BY <2>1, FromFacts DEF m, s
<1> QED
    BY <1>7, <1>8, <1>9, <1>10

LEMMA RestFacts ==
  ASSUME TypeInv, BoundsInv, NEW k \in 0 .. Len(bounds)
  PROVE  /\ Rest(k).messages = From(StartOf(k))
         /\ Len(Rest(k).messages) = committed + current - StartOf(k)
         /\ Len(Rest(k).bounds) = Len(bounds) - k
         /\ \A i \in 1 .. Len(bounds) - k : Rest(k).bounds[i] = bounds[k + i] - StartOf(k)
         /\ Rest(k).bounds = <<>> <=> k = Len(bounds)
<1> DEFINE n == Len(bounds) - k
<1>1. n \in Nat /\ StartOf(k) \in 0 .. committed
    BY Starts
<1>2. /\ Rest(k).messages = From(StartOf(k))
      /\ Rest(k).bounds = [i \in 1 .. n |-> bounds[k + i] - StartOf(k)]
    BY DEF Rest
<1>3. \A i \in 1 .. n : bounds[k + i] - StartOf(k) \in Int
  <2>1. \A i \in 1 .. n : k + i \in 1 .. Len(bounds)
      BY Starts
  <2> QED
      BY <1>1, <2>1, Starts
<1> HIDE DEF n
<1>4. Rest(k).bounds \in Seq(Int) /\ Len(Rest(k).bounds) = n
    BY <1>1, <1>2, <1>3
<1>5. Rest(k).bounds = <<>> <=> n = 0
    BY <1>4, EmptySeq
<1>6. n = 0 <=> k = Len(bounds)
    BY Starts DEF n
<1> QED
    BY <1>1, <1>2, <1>4, <1>5, <1>6, FromFacts DEF n

LEMMA DropsOfRest ==
  ASSUME TypeInv, BoundsInv, NEW k \in 0 .. Len(bounds), k < Len(bounds)
  PROVE  DropTurns(Rest(k), 1) = Rest(k + 1)
<1> DEFINE m == committed + current
           s == StartOf(k)
           t == StartOf(k + 1)
           n == Len(bounds)
           c == Rest(k)
<1>1. /\ n \in Nat /\ k \in Nat /\ k + 1 \in 0 .. n /\ k < n
      /\ s \in Nat /\ t \in Nat /\ s < t /\ t <= m /\ m \in Nat
      /\ t = bounds[k + 1] /\ bounds \in Seq(Nat)
    BY Starts DEF TypeInv, BoundsInv
<1>2. /\ c.messages = [i \in 1 .. m - s |-> s + i] /\ Len(c.messages) = m - s
      /\ c.bounds = [i \in 1 .. n - k |-> bounds[k + i] - s] /\ Len(c.bounds) = n - k
  <2>1. c.messages = From(s) /\ c.bounds = [i \in 1 .. n - k |-> bounds[k + i] - s]
      BY DEF Rest
  <2>2. s \in 0 .. committed
      BY Starts
  <2>3. From(s) = [i \in 1 .. m - s |-> s + i] /\ committed + current - s = m - s
      BY <2>2, FromFacts
  <2>4. Len(c.messages) = committed + current - s /\ Len(c.bounds) = n - k
      BY RestFacts
  <2> QED
      BY <2>1, <2>3, <2>4
<1>3. Rest(k + 1) = [messages |-> [i \in 1 .. m - t |-> t + i],
                     bounds |-> [i \in 1 .. n - (k + 1) |-> bounds[(k + 1) + i] - t]]
  <2>1. t \in 0 .. committed
      BY <1>1, Starts
  <2>2. From(t) = [i \in 1 .. m - t |-> t + i]
      BY <2>1, FromFacts
  <2> QED
      BY <2>2 DEF Rest
<1> HIDE DEF m, s, t, n, c
<1>4. c.bounds[1] = t - s
    BY <1>1, <1>2
<1>5. SubSeq(c.messages, (t - s) + 1, Len(c.messages)) = [i \in 1 .. m - t |-> t + i]
  <2> DEFINE whole == c.messages
             size == m - s
             from == t - s
  <2>1. size \in Nat /\ from \in Nat /\ from <= size /\ size - from = m - t
      BY <1>1
  <2>2. \A i \in 1 .. m - t : from + i \in 1 .. size /\ s + (from + i) = t + i
      BY <1>1, SMTT(20)
  <2>3. whole = [i \in 1 .. size |-> s + i] /\ Len(whole) = size
      BY <1>2
  <2> HIDE DEF whole, size, from
  <2>4. SubSeq(whole, from + 1, size) = [i \in 1 .. size - from |-> whole[from + i]]
      BY <2>1, Slice
  <2>5. \A i \in 1 .. m - t : whole[from + i] = t + i
      BY <2>2, <2>3
  <2>6. SubSeq(whole, from + 1, size) = [i \in 1 .. m - t |-> t + i]
      BY <2>1, <2>4, <2>5
  <2> QED
      BY <2>3, <2>6 DEF whole, size, from
<1>6. /\ Len(c.bounds) - 1 = n - (k + 1)
      /\ \A i \in 1 .. n - (k + 1) :
            c.bounds[1 + i] - (t - s) = bounds[(k + 1) + i] - t
  <2>1. Len(c.bounds) - 1 = n - (k + 1)
      BY <1>1, <1>2
  <2>2. ASSUME NEW i \in 1 .. n - (k + 1)
        PROVE  c.bounds[1 + i] - (t - s) = bounds[(k + 1) + i] - t
    <3>1. PICK p \in 1 .. n - k : p = 1 + i
        BY <1>1
    <3>2. PICK q \in 1 .. n : q = k + p /\ q = (k + 1) + i
        BY <1>1, <3>1
    <3>3. c.bounds[p] = bounds[q] - s
        BY <1>2, <3>2
    <3>4. bounds[q] \in Nat
        BY <1>1, <3>2, SMTT(20) DEF n
    <3> DEFINE b == bounds[q]
    <3>5. b \in Nat /\ c.bounds[1 + i] = b - s /\ bounds[(k + 1) + i] = b
        BY <3>1, <3>2, <3>3, <3>4
    <3> HIDE DEF b
    <3>6. (b - s) - (t - s) = b - t
        BY <1>1, <3>5
    <3> QED
        BY <3>5, <3>6
  <2> QED
      BY <2>1, <2>2
<1>7. DropTurns(c, 1) =
        [messages |-> SubSeq(c.messages, (t - s) + 1, Len(c.messages)),
         bounds |-> [i \in 1 .. Len(c.bounds) - 1 |-> c.bounds[1 + i] - (t - s)]]
    BY <1>4 DEF DropTurns
<1>8. DropTurns(c, 1) = Rest(k + 1)
    BY <1>3, <1>5, <1>6, <1>7
<1> QED
    BY <1>8 DEF c

(* The policy keeps the most turns it may. *)
LEMMA DropsRight ==
  ASSUME TypeInv, BoundsInv, Admits(Provisional)
  PROVE  LET k == Drops(Provisional)
         IN  /\ k \in 0 .. Len(bounds)
             /\ PolicyKeeps(StartOf(k))
             /\ \A j \in 0 .. k - 1 : ~ PolicyKeeps(StartOf(j))
<1> DEFINE n == Len(bounds)
           T(j) == committed + current - StartOf(j)
<1>1. /\ policy.kind \in PolicyKinds /\ policy.limit \in Nat
      /\ n \in Nat /\ Len(Provisional.bounds) = n
  <2>1. 0 \in 0 .. Len(bounds)
      BY Starts
  <2> QED
      BY <2>1, Starts, DropsOfProvisional, PromptAssumption DEF TypeInv
<1>2. \A j \in 0 .. n : /\ Tokens(DropTurns(Provisional, j)) = T(j) /\ T(j) \in Nat
                        /\ PolicyKeeps(StartOf(j)) <=>
                              /\ policy.kind = "window" => n - j <= policy.limit
                              /\ policy.kind = "budget" => T(j) <= policy.limit
  <2> SUFFICES ASSUME NEW j \in 0 .. n
               PROVE  /\ Tokens(DropTurns(Provisional, j)) = T(j) /\ T(j) \in Nat
                      /\ PolicyKeeps(StartOf(j)) <=>
                            /\ policy.kind = "window" => n - j <= policy.limit
                            /\ policy.kind = "budget" => T(j) <= policy.limit
      OBVIOUS
  <2>1. T(j) \in Nat
      BY Starts, FromFacts
  <2> QED
      BY <2>1, DropsOfProvisional, KeptTurns
<1>3. \A i, j \in 0 .. n : i <= j => T(j) <= T(i)
  <2> SUFFICES ASSUME NEW i \in 0 .. n, NEW j \in 0 .. n, i <= j
               PROVE  T(j) <= T(i)
      OBVIOUS
  <2>1. StartOf(i) \in Nat /\ StartOf(j) \in Nat /\ StartOf(i) <= StartOf(j)
    <3>1. i = j \/ i < j
        OBVIOUS
    <3> QED
        BY <3>1, Starts
  <2> QED
      BY <2>1 DEF TypeInv
<1> HIDE DEF T
<1>4. CASE policy.kind = "append"
    BY <1>1, <1>2, <1>4 DEF Drops
<1>5. CASE policy.kind = "window"
  <2>1. Drops(Provisional) = IF n > policy.limit THEN n - policy.limit ELSE 0
      BY <1>1, <1>5 DEF Drops
  <2> DEFINE k == Drops(Provisional)
  <2>2. k \in 0 .. n /\ n - k <= policy.limit /\ \A j \in 0 .. k - 1 : ~ (n - j <= policy.limit)
      BY <1>1, <2>1
  <2>3. \A j \in 0 .. k - 1 : j \in 0 .. n
      BY <1>1, <2>2
  <2> HIDE DEF k
  <2> QED
      BY <1>2, <1>5, <2>2, <2>3 DEF k
<1>6. CASE policy.kind = "budget"
  <2> DEFINE Right(k) == /\ \A j \in k .. n : Tokens(DropTurns(Provisional, j)) <= policy.limit
                         /\ k > 0 => Tokens(DropTurns(Provisional, k - 1)) > policy.limit
             Good == {k \in 0 .. n : \A j \in k .. n : T(j) <= policy.limit}
  <2>1. n \in Good
    <3>1. T(n) <= policy.limit
        BY <1>1, <1>2, <1>6 DEF Admits
    <3>2. n \in 0 .. n /\ \A j \in n .. n : j = n
        BY <1>1
    <3> QED
        BY <3>1, <3>2
  <2>2. PICK k \in Good : \A m \in Good : ~ (<<m, k>> \in OpToRel(<, Nat))
    <3>1. Good \subseteq Nat /\ Good # {}
        BY <1>1, <2>1
    <3> HIDE DEF Good
    <3> QED
        BY <3>1, NatLessThanWellFounded, WFMin, Zenon
  <2>3. k \in 0 .. n /\ \A j \in k .. n : T(j) <= policy.limit
      OBVIOUS
  <2>4. \A m \in Good : m \in Nat /\ ~ (m < k)
    <3>1. k \in Nat /\ Good \subseteq Nat
        BY <1>1, <2>3
    <3> HIDE DEF Good
    <3> QED
        BY <2>2, <3>1 DEF OpToRel
  <2>5. k > 0 => T(k - 1) > policy.limit
    <3> SUFFICES ASSUME k > 0, ~ (T(k - 1) > policy.limit)
                 PROVE  FALSE
        OBVIOUS
    <3>1. k - 1 \in 0 .. n /\ \A j \in k - 1 .. n : j = k - 1 \/ j \in k .. n
        BY <1>1, <2>3
    <3>2. T(k - 1) <= policy.limit
        BY <1>1, <1>2, <3>1
    <3>3. k - 1 \in Good
        BY <2>3, <3>1, <3>2
    <3> QED
        BY <2>3, <2>4, <3>3
  <2>6. Right(k)
    <3>1. \A j \in k .. n : j \in 0 .. n
        BY <1>1, <2>3
    <3>2. k > 0 => k - 1 \in 0 .. n
        BY <1>1, <2>3
    <3> QED
        BY <1>2, <2>3, <2>5, <3>1, <3>2
  <2>7. Drops(Provisional) = CHOOSE d \in 0 .. n : Right(d)
      BY <1>1, <1>6 DEF Drops
  <2> DEFINE d == Drops(Provisional)
  <2>8. d \in 0 .. n /\ Right(d)
    <3> HIDE DEF Right
    <3> QED
        BY <2>3, <2>6, <2>7
  <2> HIDE DEF d
  <2>9. T(d) <= policy.limit /\ (d > 0 => T(d - 1) > policy.limit)
    <3>1. d \in d .. n /\ (d > 0 => d - 1 \in 0 .. n)
        BY <1>1, <2>8
    <3> QED
        BY <1>2, <2>8, <3>1
  <2>10. ASSUME NEW j \in 0 .. d - 1
        PROVE  j \in 0 .. n /\ ~ (T(j) <= policy.limit)
    <3>1. d > 0 /\ d - 1 \in 0 .. n /\ j \in 0 .. n /\ j <= d - 1
        BY <1>1, <2>8
    <3>2. T(d - 1) <= T(j) /\ T(d - 1) \in Nat /\ T(j) \in Nat
        BY <1>2, <1>3, <3>1
    <3> QED
        BY <1>1, <2>9, <3>1, <3>2
  <2>11. \A j \in 0 .. d - 1 : ~ PolicyKeeps(StartOf(j))
      BY <1>2, <1>6, <2>10
  <2>12. PolicyKeeps(StartOf(d))
      BY <1>2, <1>6, <2>8, <2>9
  <2> QED
      BY <2>8, <2>11, <2>12 DEF d
<1> QED
    BY <1>1, <1>4, <1>5, <1>6 DEF PolicyKinds

-----------------------------------------------------------------------------
(* Reminders. *)

LEMMA TextsMembers ==
  ASSUME NEW state \in Seq(Reminder)
  PROVE  Texts(state) = {r.text : r \in Members(state)}
<1>1. \A t \in Texts(state) : \E r \in Members(state) : t = r.text
    BY DEF Texts, Members
<1>2. \A r \in Members(state) : r.text \in Texts(state)
    BY DEF Texts, Members
<1> QED
    BY <1>1, <1>2 DEF Texts

LEMMA ScopeMembers ==
  ASSUME NEW state \in Seq(Reminder), NEW scope
  PROVE  /\ OfScope(state, scope) \in Seq(Reminder)
         /\ Members(OfScope(state, scope)) = {r \in Members(state) : r.scope = scope}
<1> DEFINE S == {r \in Members(state) : r.scope = scope}
<1>1. OfScope(state, scope) = Selected(state, S)
    BY DEF OfScope
<1>2. S \subseteq Members(state)
    OBVIOUS
<1> HIDE DEF S
<1>3. /\ Selected(state, S) \in Seq(Reminder)
      /\ Members(Selected(state, S)) = Members(state) \cap S
    BY SelectedMembers
<1>4. Members(state) \cap S = S
    BY <1>2
<1> QED
    BY <1>1, <1>3, <1>4 DEF S

LEMMA ScopeTexts ==
  ASSUME NEW state \in Seq(Reminder), NEW scope, NEW t
  PROVE  t \in Texts(OfScope(state, scope)) <=>
            \E r \in Members(state) : r.scope = scope /\ r.text = t
    BY ScopeMembers, TextsMembers

LEMMA ScopeNone ==
  ASSUME NEW state \in Seq(Reminder), NEW scope, ~ HasScope(state, scope)
  PROVE  OfScope(state, scope) = <<>> /\ Texts(OfScope(state, scope)) = {}
<1> DEFINE s == OfScope(state, scope)
<1>1. s \in Seq(Reminder) /\ Members(s) = {}
    BY ScopeMembers, HasScopeMember
<1> HIDE DEF s
<1>2. s = <<>>
  <2>1. Len(s) \in Nat /\ \A i \in 1 .. Len(s) : s[i] \in Members(s)
      BY <1>1 DEF Members
  <2>2. Len(s) = 0
      BY <1>1, <2>1
  <2> QED
      BY <1>1, <2>2, EmptySeq
<1>3. Texts(s) = {}
    BY <1>1, TextsMembers
<1> QED
    BY <1>2, <1>3 DEF s

LEMMA UpsertMembers ==
  ASSUME NEW state \in Seq(Reminder), NEW r \in Reminder
  PROVE  /\ Upsert(state, r) \in Seq(Reminder)
         /\ r \in Members(Upsert(state, r))
         /\ Members(Upsert(state, r)) \subseteq Members(state) \cup {r}
<1>1. CASE r.key # NoKey /\ \E i \in DOMAIN state : state[i].key = r.key
  <2>1. Upsert(state, r) = [i \in DOMAIN state |-> IF state[i].key = r.key THEN r ELSE state[i]]
      BY <1>1 DEF Upsert
  <2>2. DOMAIN state = 1 .. Len(state) /\ Len(state) \in Nat
        /\ \A i \in DOMAIN state : state[i] \in Reminder
      OBVIOUS
  <2>3. Upsert(state, r) \in Seq(Reminder) /\ DOMAIN Upsert(state, r) = DOMAIN state
      BY <2>1, <2>2
  <2>4. PICK i \in DOMAIN state : state[i].key = r.key
      BY <1>1
  <2>5. Upsert(state, r)[i] = r
      BY <2>1, <2>4
  <2>6. \A j \in DOMAIN state : Upsert(state, r)[j] \in Members(state) \cup {r}
      BY <2>1 DEF Members
  <2> QED
      BY <2>3, <2>5, <2>6 DEF Members
<1>2. CASE ~ (r.key # NoKey /\ \E i \in DOMAIN state : state[i].key = r.key)
  <2>1. Upsert(state, r) = Append(state, r)
      BY <1>2 DEF Upsert
  <2> QED
      BY <2>1, MembersAppend
<1> QED
    BY <1>1, <1>2

(* What a session sends and what it leaves. *)
LEMMA SessionFacts ==
  ASSUME TypeInv, SessionInv
  PROVE  /\ Members(session.remaining) \subseteq Members(session.base)
         /\ Active(session) \in Seq(Reminder)
         /\ HasScope(Active(session), "next_request") <=>
               HasScope(session.remaining, "next_request")
         /\ Texts(OfScope(Active(session), "next_request")) =
               Texts(OfScope(session.remaining, "next_request"))
         /\ Texts(OfScope(session.remaining, "next_request")) \subseteq Texts(Active(session))
         /\ Without(Active(session), "next_request") = Without(session.base, "next_request")
         /\ Accept(session) =
               [session EXCEPT !.remaining = Without(session.remaining, "next_request")]
<1> DEFINE base == session.base
           remaining == session.remaining
           left == Without(base, "turn")
<1>1. base \in Seq(Reminder) /\ remaining \in Seq(Reminder)
    BY DEF TypeInv
<1>2. remaining = left \/ remaining = Without(left, "next_request")
    BY DEF SessionInv
<1>3. /\ left \in Seq(Reminder)
      /\ Members(left) = {r \in Members(base) : r.scope # "turn"}
    BY <1>1, WithoutKeeps
<1>4. /\ Without(left, "next_request") \in Seq(Reminder)
      /\ Members(Without(left, "next_request")) = {r \in Members(left) : r.scope # "next_request"}
      /\ ~ HasScope(Without(left, "next_request"), "next_request")
  <2> HIDE DEF left
  <2> QED
      BY <1>3, WithoutKeeps, WithoutHasScope
<1>5. Members(remaining) \subseteq Members(base)
    BY <1>2, <1>3, <1>4
<1>6. /\ Without(base, "next_request") \in Seq(Reminder)
      /\ ~ HasScope(Without(base, "next_request"), "next_request")
    BY <1>1, WithoutKeeps, WithoutHasScope
<1>7. session \in [base : Seq(Reminder), remaining : Seq(Reminder)]
    BY DEF TypeInv
<1>8. /\ Accept(session) = [session EXCEPT !.remaining = Without(session.remaining, "next_request")]
      /\ HasScope(Active(session), "next_request") <=>
            HasScope(session.remaining, "next_request")
    BY <1>5, <1>7, AcceptConsumes
<1>9. CASE HasScope(remaining, "next_request")
  <2>1. Active(session) = base
      BY <1>9 DEF Active
  <2>2. Members(remaining) = {r \in Members(base) : r.scope # "turn"}
      BY <1>2, <1>3, <1>4, <1>9
  <2> HIDE DEF base, remaining
  <2>3. \A t : t \in Texts(OfScope(base, "next_request")) <=>
               t \in Texts(OfScope(remaining, "next_request"))
    <3> SUFFICES ASSUME NEW t
                 PROVE  t \in Texts(OfScope(base, "next_request")) <=>
                        t \in Texts(OfScope(remaining, "next_request"))
        OBVIOUS
    <3>1. t \in Texts(OfScope(base, "next_request")) <=>
             \E r \in Members(base) : r.scope = "next_request" /\ r.text = t
        BY <1>1, ScopeTexts
    <3>2. t \in Texts(OfScope(remaining, "next_request")) <=>
             \E r \in Members(remaining) : r.scope = "next_request" /\ r.text = t
        BY <1>1, ScopeTexts
    <3> QED
        BY <2>2, <3>1, <3>2
  <2>4. Texts(OfScope(base, "next_request")) = Texts(OfScope(remaining, "next_request"))
      BY <2>3 DEF Texts
  <2>5. \A t : t \in Texts(OfScope(base, "next_request")) => t \in Texts(base)
    <3> SUFFICES ASSUME NEW t, t \in Texts(OfScope(base, "next_request"))
                 PROVE  t \in Texts(base)
        OBVIOUS
    <3> QED
        BY <1>1, ScopeTexts, TextsMembers
  <2> QED
      BY <1>1, <1>5, <1>8, <2>1, <2>4, <2>5 DEF base, remaining
<1>10. CASE ~ HasScope(remaining, "next_request")
  <2>1. Active(session) = Without(base, "next_request")
      BY <1>10 DEF Active
  <2>2. /\ Texts(OfScope(Active(session), "next_request")) = {}
        /\ Texts(OfScope(remaining, "next_request")) = {}
      BY <1>1, <1>6, <1>10, <2>1, ScopeNone
  <2>3. Without(Active(session), "next_request") = Without(base, "next_request")
      BY <1>6, <2>1, WithoutNothing
  <2> QED
      BY <1>5, <1>6, <1>8, <2>1, <2>2, <2>3
<1> QED
    BY <1>9, <1>10

LEMMA OpenFacts ==
  ASSUME NEW state \in Seq(Reminder)
  PROVE  /\ OpenSession(state) \in [base : Seq(Reminder), remaining : Seq(Reminder)]
         /\ OpenSession(state).base = state
         /\ OpenSession(state).remaining = Without(state, "turn")
    BY WithoutKeeps DEF OpenSession

-----------------------------------------------------------------------------
(* The inductive invariant, one step after another. *)

LEMMA EmptySession ==
  /\ OpenSession(<<>>) \in [base : Seq(Reminder), remaining : Seq(Reminder)]
  /\ OpenSession(<<>>).remaining = Without(OpenSession(<<>>).base, "turn")
<1>1. <<>> \in Seq(Reminder)
    OBVIOUS
<1> QED
    BY <1>1, OpenFacts

LEMMA InitInv == Init => IInv
<1> SUFFICES ASSUME Init
             PROVE  IInv
    OBVIOUS
<1>1. TypeInv
    BY EmptySession, PromptAssumption DEF Init, TypeInv, Places
<1>2. BoundsInv
    BY DEF Init, BoundsInv
<1>3. SessionInv
    BY EmptySession DEF Init, SessionInv
<1>4. Members(Pending) = {} /\ owed = {} /\ OfScope(Pending, "next_request") = <<>>
  <2>1. Pending = <<>> /\ owed = {}
      BY DEF Init, Pending
  <2> QED
      BY <2>1, MembersEmpty, SelectedEmpty DEF OfScope
<1>5. Texts(<<>>) = {}
    BY DEF Texts
<1> QED
    BY <1>1, <1>2, <1>3, <1>4, <1>5
       DEF Init, IInv, CandidateInv, ProjectionInv, TraceInv, TextsInv, OwedInv, Compiled

(* Parts of the invariant that a step leaves alone. *)
LEMMA BoundsKept ==
  ASSUME BoundsInv, UNCHANGED <<committed, bounds>>
  PROVE  BoundsInv'
    BY DEF BoundsInv

LEMMA TurnsKept ==
  ASSUME UNCHANGED <<policy, committed, bounds, current>>, NEW k
  PROVE  /\ From(StartOf(k))' = From(StartOf(k))
         /\ Rest(k)' = Rest(k)
         /\ PolicyKeeps(StartOf(k))' <=> PolicyKeeps(StartOf(k))
<1>1. StartOf(k)' = StartOf(k)
    BY DEF StartOf
<1>2. From(StartOf(k))' = From(StartOf(k))
    BY <1>1 DEF From
<1>3. Rest(k)' = Rest(k)
    BY <1>1, <1>2 DEF Rest
<1>4. TurnStarts' = TurnStarts
    BY DEF TurnStarts
<1>5. {b \in TurnStarts : StartOf(k) < b}' = {b \in TurnStarts : StartOf(k) < b}
    BY <1>1, <1>4
<1>6. PolicyKeeps(StartOf(k))' <=> PolicyKeeps(StartOf(k))
    BY <1>2, <1>5 DEF PolicyKeeps
<1> QED
    BY <1>2, <1>3, <1>6

(* The next candidate is the rest after k turns. *)
LEMMA CandidateIs ==
  ASSUME UNCHANGED <<policy, committed, bounds, current>>,
         NEW k \in 0 .. Len(bounds), candidate' = Rest(k), PolicyKeeps(StartOf(k)),
         \A j \in 0 .. k - 1 : ~ PolicyKeeps(StartOf(j)) \/ From(StartOf(j)) \in over'
  PROVE  CandidateInv'
<1>1. candidate' = Rest(k)' /\ PolicyKeeps(StartOf(k))'
    BY TurnsKept
<1>2. ASSUME NEW j \in 0 .. k - 1
      PROVE  ~ PolicyKeeps(StartOf(j))' \/ From(StartOf(j))' \in over'
  <2>1. ~ PolicyKeeps(StartOf(j)) \/ From(StartOf(j)) \in over'
      OBVIOUS
  <2> QED
      BY <2>1, TurnsKept
<1>3. Longest(k)'
    BY <1>1, <1>2 DEF Longest
<1> QED
    BY <1>1, <1>3 DEF CandidateInv

LEMMA CandidateKept ==
  ASSUME CandidateInv, UNCHANGED <<policy, committed, bounds, current, candidate, over>>,
         pc' \in {"resolve"} \cup Compiled => pc \in {"resolve"} \cup Compiled
  PROVE  CandidateInv'
<1>1. CASE pc \in {"resolve"} \cup Compiled
  <2>1. PICK k \in 0 .. Len(bounds) : candidate = Rest(k) /\ Longest(k)
      BY <1>1 DEF CandidateInv
  <2> QED
      BY <2>1, CandidateIs DEF Longest
<1>2. CASE pc \notin {"resolve"} \cup Compiled
    BY <1>2 DEF CandidateInv
<1> QED
    BY <1>1, <1>2

LEMMA SessionKept ==
  ASSUME SessionInv, UNCHANGED session
  PROVE  SessionInv'
    BY DEF SessionInv

LEMMA OwedKept ==
  ASSUME TextsInv, OwedInv, Pending' = Pending, UNCHANGED <<owed, serial>>
  PROVE  TextsInv' /\ OwedInv'
    BY DEF TextsInv, OwedInv

(* compile() and the turn are over: what remains is what was pending. *)
LEMMA EndsTurn ==
  ASSUME IInv, pc # "idle", EndTurn, policy' = policy,
         committed' \in Nat, BoundsInv'
  PROVE  IInv'
<1> USE DEF IInv
<1>1. /\ pc' = "idle" /\ current' = 0 /\ stored' = session.remaining
      /\ session' = OpenSession(<<>>) /\ traced' = NoTrace /\ UNCHANGED <<owed, serial>>
    BY DEF EndTurn
<1>2. TypeInv'
    BY <1>1, EmptySession DEF TypeInv, Places
<1>3. SessionInv'
    BY <1>1, EmptySession DEF SessionInv
<1>4. Pending' = Pending
    BY <1>1 DEF Pending
<1>5. TextsInv' /\ OwedInv'
    BY <1>1, <1>4, OwedKept
<1> QED
    BY <1>1, <1>2, <1>3, <1>5 DEF CandidateInv, ProjectionInv, TraceInv, Compiled

LEMMA Commits ==
  ASSUME IInv, Commit
  PROVE  IInv'
<1> USE DEF IInv
<1>1. /\ pc = "generate" /\ EndTurn /\ policy' = policy
      /\ committed' = committed + current + 1 /\ bounds' = Append(bounds, committed')
    BY DEF Commit
<1>2. committed' \in Nat /\ committed \in Nat /\ committed < committed'
    BY <1>1 DEF TypeInv
<1>3. BoundsInv'
  <2>1. /\ bounds' \in Seq(Nat) /\ DOMAIN bounds' = 1 .. Len(bounds) + 1
        /\ DOMAIN bounds = 1 .. Len(bounds) /\ Len(bounds) \in Nat
        /\ \A i \in 1 .. Len(bounds) : bounds'[i] = bounds[i]
        /\ bounds'[Len(bounds) + 1] = committed'
      BY <1>1, <1>2 DEF BoundsInv
  <2>2. \A i \in 1 .. Len(bounds) : bounds[i] \in 1 .. committed
      BY <2>1 DEF BoundsInv
  <2>3. \A i \in 1 .. Len(bounds) + 1 : i = Len(bounds) + 1 \/ i \in 1 .. Len(bounds)
      BY <2>1
  <2>4. \A i \in DOMAIN bounds' : bounds'[i] \in 1 .. committed'
      BY <1>2, <2>1, <2>2, <2>3
  <2>5. ASSUME NEW i \in DOMAIN bounds', NEW j \in DOMAIN bounds', i < j
        PROVE  bounds'[i] < bounds'[j]
    <3>1. i \in 1 .. Len(bounds)
        BY <2>1, <2>5
    <3>2. CASE j \in 1 .. Len(bounds)
        BY <2>1, <2>5, <3>1, <3>2 DEF BoundsInv
    <3>3. CASE j = Len(bounds) + 1
        BY <1>2, <2>1, <2>2, <3>1, <3>3
    <3> QED
        BY <2>1, <2>3, <3>2, <3>3
  <2> QED
      BY <2>1, <2>4, <2>5 DEF BoundsInv
<1> QED
    BY <1>1, <1>2, <1>3, EndsTurn

LEMMA Fails ==
  ASSUME IInv, pc # "idle", Fail
  PROVE  IInv'
<1>1. EndTurn /\ UNCHANGED <<policy, committed, bounds>>
    BY DEF Fail, transcriptVars
<1>2. committed' \in Nat /\ BoundsInv'
    BY <1>1, BoundsKept DEF IInv, TypeInv
<1> QED
    BY <1>1, <1>2, EndsTurn

(* The text of a new reminder is new; one it replaces is no longer owed. *)
LEMMA Reminds ==
  ASSUME IInv, NEW shape \in Shapes, Remind(shape)
  PROVE  IInv'
<1> USE DEF IInv
<1> DEFINE r == [key |-> shape.key, scope |-> shape.scope, text |-> serial + 1]
<1>1. /\ pc = "idle" /\ serial' = serial + 1 /\ stored' = Upsert(stored, r)
      /\ owed' = (owed \cap Texts(stored'))
                    \cup (IF r.scope = "next_request" THEN {r.text} ELSE {})
      /\ UNCHANGED <<transcriptVars, turnVars, tryVars, traced, pastVars>>
    BY DEF Remind
<1>2. r \in Reminder /\ r.text = serial + 1 /\ serial \in Nat
  <2>1. shape \in [key : DynamicKeys, scope : Scopes]
      BY PromptAssumption
  <2> QED
      BY <2>1 DEF TypeInv, Reminder
<1> HIDE DEF r
<1>3. stored \in Seq(Reminder) /\ Pending = stored /\ Pending' = stored'
    BY <1>1 DEF TypeInv, Pending, turnVars
<1>4. /\ stored' \in Seq(Reminder) /\ r \in Members(stored')
      /\ Members(stored') \subseteq Members(stored) \cup {r}
    BY <1>1, <1>2, <1>3, UpsertMembers
<1>5. /\ \A m \in Members(stored) : m.text <= serial /\ m.text \in Nat
      /\ \A m, n \in Members(stored) : m.text = n.text => m = n
  <2>1. Members(stored) \subseteq Reminder
      BY <1>3 DEF Members
  <2> QED
      BY <1>3, <2>1 DEF TextsInv, Reminder
<1>6. TextsInv'
    BY <1>1, <1>2, <1>3, <1>4, <1>5 DEF TextsInv
<1>7. \A t : t \in owed' <=> t \in Texts(OfScope(stored', "next_request"))
  <2> SUFFICES ASSUME NEW t
               PROVE  t \in owed' <=> t \in Texts(OfScope(stored', "next_request"))
      OBVIOUS
  <2>1. t \in owed <=> \E m \in Members(stored) : m.scope = "next_request" /\ m.text = t
      BY <1>3, ScopeTexts DEF OwedInv
  <2>2. t \in Texts(OfScope(stored', "next_request")) <=>
           \E m \in Members(stored') : m.scope = "next_request" /\ m.text = t
      BY <1>4, ScopeTexts
  <2>3. t \in Texts(stored') <=> \E m \in Members(stored') : m.text = t
      BY <1>4, TextsMembers
  <2>4. ASSUME t \in owed, t \in Texts(stored')
        PROVE  \E m \in Members(stored') : m.scope = "next_request" /\ m.text = t
    <3>1. PICK m \in Members(stored) : m.scope = "next_request" /\ m.text = t
        BY <2>1, <2>4
    <3>2. PICK n \in Members(stored') : n.text = t
        BY <2>3, <2>4
    <3>3. n \in Members(stored)
        BY <1>2, <1>4, <1>5, <3>1, <3>2
    <3> QED
        BY <1>5, <3>1, <3>2, <3>3
  <2>5. ASSUME NEW m \in Members(stored'), m.scope = "next_request", m.text = t
        PROVE  t \in owed'
    <3>1. CASE m = r
        BY <1>1, <2>5, <3>1
    <3>2. CASE m \in Members(stored)
        BY <1>1, <2>1, <2>3, <2>5, <3>2
    <3> QED
        BY <1>4, <3>1, <3>2
  <2> QED
      BY <1>1, <1>4, <2>2, <2>4, <2>5
<1>8. OwedInv'
  <2>1. owed' = Texts(OfScope(stored', "next_request"))
      BY <1>1, <1>7 DEF Texts
  <2> QED
      BY <1>3, <2>1 DEF OwedInv
<1>9. TypeInv'
    BY <1>1, <1>2, <1>4 DEF TypeInv, turnVars, transcriptVars
<1>10. BoundsInv' /\ SessionInv'
    BY <1>1, BoundsKept, SessionKept DEF turnVars, transcriptVars
<1> QED
    BY <1>1, <1>6, <1>8, <1>9, <1>10
       DEF CandidateInv, ProjectionInv, TraceInv, Compiled, turnVars

LEMMA Begins ==
  ASSUME IInv, Begin
  PROVE  IInv'
<1> USE DEF IInv
<1>1. /\ pc = "idle" /\ pc' = "prepare" /\ current' = 1
      /\ session' = OpenSession(stored)
      /\ UNCHANGED <<transcriptVars, stored, tryVars, traced, pastVars, owed, serial>>
    BY DEF Begin
<1>2. stored \in Seq(Reminder) /\ Pending = stored /\ Pending' = Without(stored, "turn")
    BY <1>1, OpenFacts DEF TypeInv, Pending
<1>3. /\ Without(stored, "turn") \in Seq(Reminder)
      /\ Members(Without(stored, "turn")) = {r \in Members(stored) : r.scope # "turn"}
    BY <1>2, WithoutKeeps
<1>4. TextsInv'
    BY <1>1, <1>2, <1>3 DEF TextsInv
<1>5. \A t : t \in Texts(OfScope(stored, "next_request")) <=>
             t \in Texts(OfScope(Without(stored, "turn"), "next_request"))
  <2> SUFFICES ASSUME NEW t
               PROVE  t \in Texts(OfScope(stored, "next_request")) <=>
                      t \in Texts(OfScope(Without(stored, "turn"), "next_request"))
      OBVIOUS
  <2>1. t \in Texts(OfScope(stored, "next_request")) <=>
           \E m \in Members(stored) : m.scope = "next_request" /\ m.text = t
      BY <1>2, ScopeTexts
  <2>2. t \in Texts(OfScope(Without(stored, "turn"), "next_request")) <=>
           \E m \in Members(Without(stored, "turn")) : m.scope = "next_request" /\ m.text = t
      BY <1>3, ScopeTexts
  <2> QED
      BY <1>3, <2>1, <2>2
<1>6. OwedInv'
  <2>1. owed = Texts(OfScope(stored, "next_request"))
      BY <1>2 DEF OwedInv
  <2>2. owed = Texts(OfScope(Without(stored, "turn"), "next_request"))
      BY <1>5, <2>1 DEF Texts
  <2> QED
      BY <1>1, <1>2, <2>2 DEF OwedInv
<1>7. TypeInv'
    BY <1>1, <1>2, OpenFacts DEF TypeInv, transcriptVars, Places
<1>8. BoundsInv' /\ SessionInv'
    BY <1>1, <1>2, BoundsKept, OpenFacts DEF SessionInv, transcriptVars
<1> QED
    BY <1>1, <1>4, <1>6, <1>7, <1>8 DEF CandidateInv, ProjectionInv, TraceInv, Compiled

(* A step of compile() before the request is accepted. *)
LEMMA WithinCompile ==
  ASSUME IInv, pc \notin {"idle", "consume", "generate"}, pc' \in {"resolve", "count", "trace"},
         UNCHANGED <<policy, committed, current, serial, stored, session, bounds, traced, owed>>
  PROVE  TypeInv' /\ BoundsInv' /\ SessionInv' /\ TraceInv' /\ TextsInv' /\ OwedInv'
<1> USE DEF IInv
<1>1. TypeInv' /\ TraceInv'
    BY DEF TypeInv, TraceInv, Places, Compiled
<1>2. Pending' = Pending
    BY DEF Pending
<1> QED
    BY <1>1, <1>2, BoundsKept, SessionKept, OwedKept

LEMMA Prepares ==
  ASSUME IInv, Prepare
  PROVE  IInv'
<1> USE DEF IInv
<1>1. /\ pc = "prepare" /\ Admits(Provisional) /\ pc' = "resolve"
      /\ candidate' = DropTurns(Provisional, Drops(Provisional)) /\ dynamic' = <<>>
      /\ UNCHANGED <<policy, committed, bounds, stored, current, session, traced, over, owed,
                     serial>>
    BY DEF Prepare, Try, Prepared, transcriptVars, pastVars
<1> DEFINE k == Drops(Provisional)
<1>2. /\ k \in 0 .. Len(bounds) /\ PolicyKeeps(StartOf(k))
      /\ \A j \in 0 .. k - 1 : ~ PolicyKeeps(StartOf(j))
    BY <1>1, DropsRight
<1>3. candidate' = Rest(k)
    BY <1>1, <1>2, DropsOfProvisional
<1> HIDE DEF k
<1>4. CandidateInv'
    BY <1>1, <1>2, <1>3, CandidateIs
<1>5. ProjectionInv'
    BY <1>1, PromptAssumption DEF ProjectionInv, Projects, Compiled
<1> QED
    BY <1>1, <1>4, <1>5, WithinCompile

LEMMA Resolves ==
  ASSUME IInv, Resolve
  PROVE  IInv'
<1> USE DEF IInv
<1>1. /\ pc = "resolve" /\ pc' = pc /\ Len(dynamic) < NumSources
      /\ UNCHANGED <<policy, committed, bounds, stored, current, session, candidate, traced,
                     over, owed, serial>>
    BY DEF Resolve, transcriptVars, turnVars, pastVars
<1>2. PICK key \in DynamicKeys :
         dynamic' = Append(dynamic, [source |-> Len(dynamic) + 1, key |-> key,
                                     seen |-> candidate.messages])
    BY DEF Resolve
<1>3. Projects(dynamic, candidate.messages)
    BY <1>1 DEF ProjectionInv
<1>4. Projects(dynamic', candidate'.messages)
  <2> DEFINE n == Len(dynamic)
             Item == [source : 1 .. NumSources, key : DynamicKeys, seen : {candidate.messages}]
             new == [source |-> n + 1, key |-> key, seen |-> candidate.messages]
  <2>1. dynamic \in Seq(Item) /\ n \in Nat /\ n < NumSources /\ NumSources \in Nat
      BY <1>1, <1>3, PromptAssumption DEF Projects
  <2>2. new \in Item
      BY <2>1
  <2>3. dynamic' = Append(dynamic, new)
      BY <1>2
  <2>4. new.source = n + 1
      OBVIOUS
  <2> HIDE DEF Item, new
  <2>5. /\ dynamic' \in Seq(Item) /\ Len(dynamic') = n + 1
        /\ DOMAIN dynamic = 1 .. n /\ DOMAIN dynamic' = 1 .. n + 1
        /\ \A i \in 1 .. n : dynamic'[i] = dynamic[i]
        /\ dynamic'[n + 1] = new
      BY <2>1, <2>2, <2>3
  <2>6. \A i \in 1 .. n + 1 : i = n + 1 \/ i \in 1 .. n
      BY <2>1
  <2>7. \A i \in DOMAIN dynamic' : dynamic'[i].source = i
      BY <1>3, <2>4, <2>5, <2>6 DEF Projects
  <2>8. n + 1 <= NumSources
      BY <2>1
  <2> QED
      BY <1>1, <2>5, <2>7, <2>8 DEF Projects, Item
<1>5. ProjectionInv'
    BY <1>1, <1>4 DEF ProjectionInv, Compiled
<1> QED
    BY <1>1, <1>5, CandidateKept, WithinCompile DEF Compiled

LEMMA CompilesCandidate ==
  ASSUME IInv, CompileCandidate
  PROVE  IInv'
<1> USE DEF IInv
<1>1. /\ pc = "resolve" /\ pc' = "count" /\ Len(dynamic) = NumSources
      /\ compiled' = [messages |-> candidate.messages, stored |-> Active(session),
                      dynamic |-> dynamic]
      /\ UNCHANGED <<policy, committed, bounds, stored, current, session, candidate, traced,
                     over, owed, serial>>
    BY DEF CompileCandidate, Resolved, transcriptVars, pastVars
<1>2. Projects(dynamic, candidate.messages)
    BY <1>1 DEF ProjectionInv
<1>3. Active(session)' = Active(session)
    BY <1>1
<1>4. ProjectionInv'
    BY <1>1, <1>2, <1>3 DEF ProjectionInv
<1> QED
    BY <1>1, <1>4, CandidateKept, WithinCompile DEF Compiled

LEMMA CountsFitting ==
  ASSUME IInv, CountFits
  PROVE  IInv'
<1> USE DEF IInv
<1>1. /\ pc = "count" /\ pc' = "trace" /\ fitting' = compiled
      /\ UNCHANGED <<policy, committed, bounds, stored, current, session, candidate, dynamic,
                     compiled, traced, over, owed, serial>>
    BY DEF CountFits, transcriptVars, tryVars
<1>2. Active(session)' = Active(session)
    BY <1>1
<1>3. ProjectionInv'
    BY <1>1, <1>2 DEF ProjectionInv, Compiled
<1> QED
    BY <1>1, <1>3, CandidateKept, WithinCompile DEF Compiled

LEMMA Trims ==
  ASSUME IInv, Trim
  PROVE  IInv'
<1> USE DEF IInv
<1>1. /\ pc = "count" /\ pc' = "resolve" /\ candidate.bounds # <<>>
      /\ candidate' = DropTurns(candidate, 1) /\ dynamic' = <<>>
      /\ over' = over \cup {compiled.messages}
      /\ UNCHANGED <<policy, committed, bounds, stored, current, session, traced, owed, serial>>
    BY DEF Trim, OverBudget, Try, transcriptVars
<1>2. PICK k \in 0 .. Len(bounds) : candidate = Rest(k) /\ Longest(k)
    BY <1>1 DEF CandidateInv, Compiled
<1>3. k < Len(bounds) /\ k \in Nat /\ k + 1 \in 0 .. Len(bounds) /\ k <= k + 1
  <2>1. k # Len(bounds)
      BY <1>1, <1>2, RestFacts
  <2>2. Len(bounds) \in Nat
      BY Starts
  <2> QED
      BY <2>1, <2>2
<1>4. candidate' = Rest(k + 1)
    BY <1>1, <1>2, <1>3, DropsOfRest
<1>5. compiled.messages = From(StartOf(k))
  <2>1. compiled.messages = candidate.messages
      BY <1>1 DEF ProjectionInv, Compiled
  <2> QED
      BY <1>2, <2>1, RestFacts
<1>6. PolicyKeeps(StartOf(k + 1))
    BY <1>2, <1>3, KeepsFewer DEF Longest
<1>7. \A j \in 0 .. (k + 1) - 1 : ~ PolicyKeeps(StartOf(j)) \/ From(StartOf(j)) \in over'
  <2>1. \A j \in 0 .. (k + 1) - 1 : j = k \/ j \in 0 .. k - 1
      BY <1>3
  <2> QED
      BY <1>1, <1>2, <1>5, <2>1 DEF Longest
<1>8. CandidateInv'
    BY <1>1, <1>3, <1>4, <1>6, <1>7, CandidateIs
<1>9. ProjectionInv'
    BY <1>1, PromptAssumption DEF ProjectionInv, Projects, Compiled
<1> QED
    BY <1>1, <1>8, <1>9, WithinCompile

(* compile() returns: the NEXT_REQUEST reminders sent are the ones that were owed. *)
LEMMA ReturnsOwed ==
  ASSUME IInv, pc \in {"trace", "consume"}, pc' = "generate",
         compiled.stored = Active(session), owed' = owed \ Texts(compiled.stored),
         ~ HasScope(session'.remaining, "next_request"),
         session'.remaining \in Seq(Reminder),
         Members(session'.remaining) \subseteq Members(session.remaining),
         UNCHANGED serial
  PROVE  TextsInv' /\ OwedInv'
<1> USE DEF IInv
<1>1. Pending = session.remaining /\ Pending' = session'.remaining
    BY DEF Pending
<1>2. TextsInv'
    BY <1>1 DEF TextsInv
<1>3. owed' = {}
    BY <1>1, SessionFacts DEF OwedInv
<1>4. OwedInv'
  <2>1. Texts(OfScope(session'.remaining, "next_request")) = {}
      BY ScopeNone
  <2> QED
      BY <1>1, <1>3, <2>1 DEF OwedInv
<1> QED
    BY <1>2, <1>4

LEMMA Traces ==
  ASSUME IInv, Trace
  PROVE  IInv'
<1> USE DEF IInv
<1>1. /\ pc = "trace" /\ traced' = [traced EXCEPT !.compiled = compiled]
      /\ UNCHANGED <<policy, committed, bounds, stored, current, session, serial>>
      /\ AfterTrace
    BY DEF Trace, transcriptVars
<1>2. compiled.stored = Active(session) /\ traced = NoTrace
    BY <1>1 DEF ProjectionInv, TraceInv, Compiled
<1>3. BoundsInv' /\ SessionInv'
    BY <1>1, BoundsKept, SessionKept
<1>4. CASE HasScope(compiled.stored, "next_request")
  <2>1. pc' = "consume" /\ UNCHANGED <<owed, candidate, dynamic, compiled, over, fitting>>
      BY <1>1, <1>4 DEF AfterTrace, tryVars, pastVars
  <2>2. TypeInv'
      BY <1>1, <2>1 DEF TypeInv, Places, Compiled
  <2>3. CandidateInv'
      BY <1>1, <2>1, CandidateKept DEF Compiled
  <2>4. Active(session)' = Active(session)
      BY <1>1
  <2>5. ProjectionInv'
      BY <1>1, <2>1, <2>4 DEF ProjectionInv, Compiled
  <2>6. HasScope(compiled.stored, "next_request")'
      BY <1>4, <2>1
  <2>7. TraceInv'
      BY <1>1, <1>2, <2>1, <2>6 DEF TraceInv, NoTrace
  <2>8. Pending' = Pending
      BY <1>1, <2>1 DEF Pending
  <2> QED
      BY <1>1, <1>3, <2>1, <2>2, <2>3, <2>5, <2>7, <2>8, OwedKept
<1>5. CASE ~ HasScope(compiled.stored, "next_request")
  <2>1. pc' = "generate" /\ owed' = owed \ Texts(compiled.stored)
      BY <1>1, <1>5 DEF AfterTrace, Return
  <2>2. TypeInv'
      BY <1>1, <2>1 DEF TypeInv, Places
  <2>3. ~ HasScope(session.remaining, "next_request") /\ session.remaining \in Seq(Reminder)
      BY <1>2, <1>5, SessionFacts DEF TypeInv
  <2>4. TextsInv' /\ OwedInv'
      BY <1>1, <1>2, <2>1, <2>3, ReturnsOwed
  <2> QED
      BY <1>3, <2>1, <2>2, <2>4 DEF CandidateInv, ProjectionInv, TraceInv, Compiled
<1> QED
    BY <1>4, <1>5

LEMMA Consumes ==
  ASSUME IInv, Consume
  PROVE  IInv'
<1> USE DEF IInv
<1>1. /\ pc = "consume" /\ pc' = "generate" /\ session' = Accept(session)
      /\ owed' = owed \ Texts(compiled.stored)
      /\ UNCHANGED <<policy, committed, bounds, stored, current, serial>>
    BY DEF Consume, Return, transcriptVars
<1> DEFINE left == Without(session.remaining, "next_request")
<1>2. session' = [session EXCEPT !.remaining = left]
    BY <1>1, SessionFacts
<1>3. session.remaining \in Seq(Reminder)
    BY DEF TypeInv
<1>4. /\ left \in Seq(Reminder) /\ Members(left) \subseteq Members(session.remaining)
      /\ ~ HasScope(left, "next_request")
    BY <1>3, WithoutKeeps, WithoutHasScope
<1>5. SessionInv'
  <2> DEFINE begun == Without(session.base, "turn")
  <2>1. begun \in Seq(Reminder)
      BY WithoutKeeps DEF TypeInv
  <2>2. session.remaining = begun \/ session.remaining = Without(begun, "next_request")
      BY DEF SessionInv
  <2>3. left = Without(begun, "next_request")
    <3>1. CASE session.remaining = begun
        BY <3>1
    <3>2. CASE session.remaining = Without(begun, "next_request")
      <4>1. ~ HasScope(session.remaining, "next_request")
        <5> HIDE DEF begun
        <5> QED
            BY <2>1, <3>2, WithoutHasScope
      <4>2. left = session.remaining
          BY <1>3, <4>1, WithoutNothing
      <4> QED
          BY <3>2, <4>2
    <3> QED
        BY <2>2, <3>1, <3>2
  <2>4. session'.base = session.base /\ session'.remaining = left
      BY <1>2 DEF TypeInv
  <2> QED
      BY <2>3, <2>4 DEF SessionInv
<1> HIDE DEF left
<1>6. session'.remaining = left /\ TypeInv'
    BY <1>1, <1>2, <1>4 DEF TypeInv, Places
<1>7. compiled.stored = Active(session)
    BY <1>1 DEF ProjectionInv, Compiled
<1>8. TextsInv' /\ OwedInv'
    BY <1>1, <1>4, <1>6, <1>7, ReturnsOwed
<1>9. BoundsInv'
    BY <1>1, BoundsKept
<1> QED
    BY <1>1, <1>5, <1>6, <1>8, <1>9 DEF CandidateInv, ProjectionInv, TraceInv, Compiled

LEMMA Continues ==
  ASSUME IInv, NextRound
  PROVE  IInv'
<1> USE DEF IInv
<1>1. /\ pc = "generate" /\ pc' = "prepare" /\ current' = current + 2 /\ traced' = NoTrace
      /\ UNCHANGED <<policy, committed, bounds, stored, session, owed, serial>>
    BY DEF NextRound, transcriptVars
<1>2. TypeInv' /\ Pending' = Pending
    BY <1>1 DEF TypeInv, Places, Pending
<1> QED
    BY <1>1, <1>2, BoundsKept, SessionKept, OwedKept
       DEF CandidateInv, ProjectionInv, TraceInv, Compiled

LEMMA Stutters ==
  ASSUME IInv, UNCHANGED vars
  PROVE  IInv'
<1> USE DEF IInv
<1>1. UNCHANGED <<policy, committed, bounds, stored, pc, current, session, candidate, dynamic,
                  compiled, traced, over, fitting, owed, serial>>
    BY DEF vars, transcriptVars, turnVars, tryVars, pastVars
<1>2. TypeInv' /\ TraceInv'
    BY <1>1 DEF TypeInv, TraceInv
<1>3. Pending' = Pending /\ Active(session)' = Active(session)
    BY <1>1 DEF Pending
<1>4. ProjectionInv'
    BY <1>1, <1>3 DEF ProjectionInv
<1> QED
    BY <1>1, <1>2, <1>3, <1>4, BoundsKept, CandidateKept, SessionKept, OwedKept

LEMMA StepInv == IInv /\ [Next]_vars => IInv'
<1> SUFFICES ASSUME IInv, [Next]_vars
             PROVE  IInv'
    OBVIOUS
<1>1. CASE Prepare
    BY <1>1, Prepares
<1>2. CASE Resolve
    BY <1>2, Resolves
<1>3. CASE CompileCandidate
    BY <1>3, CompilesCandidate
<1>4. CASE CountFits
    BY <1>4, CountsFitting
<1>5. CASE Trim
    BY <1>5, Trims
<1>6. CASE Trace
    BY <1>6, Traces
<1>7. CASE Consume
    BY <1>7, Consumes
<1>8. CASE PolicyRejects \/ CompileRejects \/ BudgetRejects \/ Abort
  <2>1. pc # "idle" /\ Fail
      BY <1>8 DEF PolicyRejects, CompileRejects, Resolved, BudgetRejects, Abort
  <2> QED
      BY <2>1, Fails
<1>9. CASE \E shape \in Shapes : Remind(shape)
    BY <1>9, Reminds
<1>10. CASE Begin
    BY <1>10, Begins
<1>11. CASE Commit
    BY <1>11, Commits
<1>12. CASE NextRound
    BY <1>12, Continues
<1>13. CASE UNCHANGED vars
    BY <1>13, Stutters
<1> QED
    BY <1>1, <1>2, <1>3, <1>4, <1>5, <1>6, <1>7, <1>8, <1>9, <1>10, <1>11, <1>12, <1>13
       DEF Next, CompileStep

-----------------------------------------------------------------------------
(* The theorems.  No step but the one in which compile() returns is one the    *)
(* action properties speak of.                                                 *)

(* Every request compile() is working on is a suffix of the transcript that    *)
(* begins with a turn and that no longer one could replace, with projections   *)
(* made for it, and no reminder is forgotten or kept after it was sent.        *)
THEOREM Invariance == Spec => []IInv
    BY InitInv, StepInv, PTL DEF Spec

(* What such a step does. *)
LEMMA ReturnFacts ==
  ASSUME IInv, [Next]_vars, Returns
  PROVE  /\ pc \in {"trace", "consume"} /\ request' = compiled
         /\ compiled.stored = Active(session) /\ fitting = compiled
         /\ compiled.messages = candidate.messages
         /\ pc = "trace" => /\ ~ HasScope(compiled.stored, "next_request")
                            /\ traced' = [compiled |-> compiled, consumed |-> <<>>]
         /\ pc = "consume" =>
               traced' = [compiled |-> compiled,
                          consumed |-> Keys(OfScope(session.remaining, "next_request"))]
<1>1. pc \in {"trace", "consume"} /\ pc' = "generate"
    BY DEF Returns
<1>2. compiled.stored = Active(session) /\ fitting = compiled
      /\ compiled.messages = candidate.messages
    BY <1>1 DEF IInv, ProjectionInv, Compiled
<1>3. Trace \/ Consume
    BY <1>1 DEF Next, CompileStep, Prepare, PolicyRejects, Resolve, Resolved, CompileCandidate,
                CompileRejects, CountFits, Trim, OverBudget, BudgetRejects, Remind, Begin,
                Commit, NextRound, Abort, Fail, EndTurn, vars, turnVars
<1>4. CASE Trace
  <2>1. pc = "trace" /\ AfterTrace /\ traced = NoTrace
        /\ traced' = [traced EXCEPT !.compiled = compiled]
      BY <1>4 DEF Trace, IInv, TraceInv
  <2>2. ~ HasScope(compiled.stored, "next_request") /\ request' = compiled
      BY <1>1, <2>1 DEF AfterTrace, Return
  <2> QED
      BY <1>1, <1>2, <2>1, <2>2 DEF NoTrace
<1>5. CASE Consume
  <2>1. /\ pc = "consume" /\ request' = compiled
        /\ traced = [compiled |-> compiled, consumed |-> <<>>]
        /\ traced' = [traced EXCEPT
                         !.consumed = Keys(OfScope(session.remaining, "next_request"))]
      BY <1>5 DEF Consume, Return, IInv, TraceInv
  <2> QED
      BY <1>1, <1>2, <2>1
<1> QED
    BY <1>3, <1>4, <1>5

(* A NEXT_REQUEST reminder is in exactly one request generation is asked for,  *)
(* whatever failed before it, and the trace sink is told of that consumption.  *)
THEOREM EachIsSentOnce == Spec => NextRequestOnce
<1>1. IInv => owed = Texts(OfScope(Pending, "next_request"))
    BY DEF IInv, OwedInv
<1>2. IInv /\ [Next]_vars =>
        [Returns =>
            /\ Texts(OfScope(request'.stored, "next_request")) = owed
            /\ traced' = [compiled |-> request',
                          consumed |-> Keys(OfScope(session.remaining, "next_request"))]]_vars
  <2> SUFFICES ASSUME IInv, [Next]_vars, Returns
               PROVE  /\ Texts(OfScope(request'.stored, "next_request")) = owed
                      /\ traced' = [compiled |-> request',
                                    consumed |-> Keys(OfScope(session.remaining, "next_request"))]
      OBVIOUS
  <2>1. pc \in {"trace", "consume"} /\ request' = compiled /\ compiled.stored = Active(session)
      BY ReturnFacts
  <2>2. Pending = session.remaining
      BY <2>1 DEF Pending
  <2>3. Texts(OfScope(request'.stored, "next_request")) = owed
      BY <2>1, <2>2, SessionFacts DEF IInv, OwedInv
  <2>4. ASSUME pc = "trace"
        PROVE  Keys(OfScope(session.remaining, "next_request")) = <<>>
    <3>1. ~ HasScope(session.remaining, "next_request") /\ session.remaining \in Seq(Reminder)
        BY <2>1, <2>4, ReturnFacts, SessionFacts DEF IInv, TypeInv
    <3>2. OfScope(session.remaining, "next_request") = <<>>
        BY <3>1, ScopeNone
    <3> QED
        BY <3>2 DEF Keys
  <2> QED
      BY <2>1, <2>3, <2>4, ReturnFacts
<1> QED
    BY <1>1, <1>2, Invariance, PTL DEF Spec, NextRequestOnce

(* TURN reminders are in every request of their turn and CONVERSATION ones in  *)
(* every request, in the order of their slots.                                 *)
THEOREM ScopesAreKept == Spec => ScopedReminders
<1>1. IInv /\ [Next]_vars =>
        [Returns => Without(request'.stored, "next_request")
                        = Without(session.base, "next_request")]_vars
    BY ReturnFacts, SessionFacts DEF IInv
<1> QED
    BY <1>1, Invariance, PTL DEF Spec, ScopedReminders

(* Each source has projected its reminder from the history the request sends.  *)
THEOREM ProjectionsAreFresh == Spec => FreshProjections
<1>1. IInv /\ [Next]_vars =>
        [Returns => /\ Len(request'.dynamic) = NumSources
                    /\ \A i \in DOMAIN request'.dynamic :
                          /\ request'.dynamic[i].source = i
                          /\ request'.dynamic[i].seen = request'.messages]_vars
  <2> SUFFICES ASSUME IInv, [Next]_vars, Returns
               PROVE  /\ Len(request'.dynamic) = NumSources
                      /\ \A i \in DOMAIN request'.dynamic :
                            /\ request'.dynamic[i].source = i
                            /\ request'.dynamic[i].seen = request'.messages
      OBVIOUS
  <2>1. pc \in Compiled /\ request' = compiled
      BY ReturnFacts DEF Compiled
  <2>2. Projects(compiled.dynamic, compiled.messages) /\ Len(compiled.dynamic) = NumSources
      BY <2>1 DEF IInv, ProjectionInv
  <2>3. \A i \in DOMAIN compiled.dynamic :
           compiled.dynamic[i].source = i /\ compiled.dynamic[i].seen = compiled.messages
    <3> DEFINE Item == [source : 1 .. NumSources, key : DynamicKeys, seen : {compiled.messages}]
    <3>1. compiled.dynamic \in Seq(Item) /\ \A p \in Item : p.seen = compiled.messages
        BY <2>2 DEF Projects
    <3> HIDE DEF Item
    <3>2. \A i \in DOMAIN compiled.dynamic : compiled.dynamic[i] \in Item
        BY <3>1
    <3> QED
        BY <2>2, <3>1, <3>2 DEF Projects
  <2> QED
      BY <2>1, <2>2, <2>3
<1> QED
    BY <1>1, Invariance, PTL DEF Spec, FreshProjections

(* The history a request sends is the longest one, in whole turns, that the    *)
(* policy keeps and the budget did not count over; it is the one counted last. *)
THEOREM HistoryIsLongest == Spec => LongestHistory
<1>1. IInv /\ [Next]_vars =>
        [Returns => \E start \in TurnStarts :
            /\ request'.messages = From(start) /\ request' = fitting
            /\ PolicyKeeps(start)
            /\ \A longer \in TurnStarts :
                  longer < start => ~ PolicyKeeps(longer) \/ From(longer) \in over]_vars
  <2> SUFFICES ASSUME IInv, [Next]_vars, Returns
               PROVE  \E start \in TurnStarts :
                         /\ request'.messages = From(start) /\ request' = fitting
                         /\ PolicyKeeps(start)
                         /\ \A longer \in TurnStarts :
                               longer < start => ~ PolicyKeeps(longer) \/ From(longer) \in over
      OBVIOUS
  <2> USE DEF IInv
  <2>1. /\ pc \in Compiled /\ request' = compiled /\ fitting = compiled
        /\ compiled.messages = candidate.messages
      BY ReturnFacts DEF Compiled
  <2>2. PICK k \in 0 .. Len(bounds) : candidate = Rest(k) /\ Longest(k)
      BY <2>1 DEF CandidateInv
  <2>3. StartOf(k) \in TurnStarts /\ request'.messages = From(StartOf(k))
      BY <2>1, <2>2, Starts, RestFacts
  <2>4. ASSUME NEW longer \in TurnStarts, longer < StartOf(k)
        PROVE  ~ PolicyKeeps(longer) \/ From(longer) \in over
    <3>1. PICK j \in 0 .. Len(bounds) : longer = StartOf(j)
        BY Starts
    <3>2. ~ (k < j) /\ j # k
      <4>1. StartOf(j) \in Nat /\ StartOf(k) \in Nat
          BY Starts
      <4>2. k < j => StartOf(k) < StartOf(j)
          BY Starts
      <4> QED
          BY <2>4, <3>1, <4>1, <4>2
    <3>3. j \in 0 .. k - 1
        BY <3>2
    <3> QED
        BY <2>2, <3>1, <3>3 DEF Longest
  <2> QED
      BY <2>1, <2>2, <2>3, <2>4 DEF Longest
<1> QED
    BY <1>1, Invariance, PTL DEF Spec, LongestHistory

-----------------------------------------------------------------------------
(* compile() as one step of the turn.                                          *)

(* The reminder operators are the same on both sides. *)
LEMMA SameReminders ==
  ASSUME NEW state
  PROVE  /\ Turn!OpenSession(state) = OpenSession(state)
         /\ Turn!Active(state) = Active(state)
         /\ Turn!Accept(state) = Accept(state)
<1>1. \A s, scope : Turn!Without(s, scope) = Without(s, scope)
    BY DEF Turn!Without, Without, Turn!Selected, Selected, Turn!Members, Members
<1>2. \A s, scope : Turn!HasScope(s, scope) = HasScope(s, scope)
    BY DEF Turn!HasScope, HasScope
<1>3. \A s : Turn!Active(s) = Active(s)
    BY <1>1, <1>2 DEF Turn!Active, Active
<1> QED
    BY <1>1, <1>2, <1>3 DEF Turn!OpenSession, OpenSession, Turn!Accept, Accept

(* The conversation's view of the session. *)
Phase(place) == IF place \in Compiling THEN "compile" ELSE place
Seen(made)   == [messages |-> made.messages, reminders |-> made.stored]
View == <<committed, bounds, stored, Phase(pc), current, session, Seen(request)>>

LEMMA Phases ==
  /\ \A place \in Compiling : Phase(place) = "compile"
  /\ Phase("idle") = "idle" /\ Phase("generate") = "generate"
  /\ Seen(NoRequest) = Turn!Nothing
    BY DEF Phase, Compiling, Seen, NoRequest, Turn!Nothing

LEMMA InitMaps ==
  ASSUME Init
  PROVE  Turn!Init
<1>1. committed \in Nat
    BY PromptAssumption DEF Init
<1> QED
    BY <1>1, SameReminders, Phases DEF Init, Turn!Init, Phase, Seen

(* What compile() does before it returns, the turn does not see. *)
LEMMA WorkIsInvisible ==
  ASSUME Prepare \/ Resolve \/ CompileCandidate \/ CountFits \/ Trim
         \/ (Trace /\ pc' = "consume") \/ UNCHANGED vars
  PROVE  UNCHANGED View
<1>1. /\ UNCHANGED <<committed, bounds, stored, current, session, request>>
      /\ pc' = pc \/ (pc \in Compiling /\ pc' \in Compiling)
  <2>1. CASE Prepare
      BY <2>1 DEF Prepare, Try, transcriptVars, Compiling
  <2>2. CASE Resolve
      BY <2>2 DEF Resolve, transcriptVars, turnVars
  <2>3. CASE CompileCandidate
      BY <2>3 DEF CompileCandidate, Resolved, transcriptVars, Compiling
  <2>4. CASE CountFits
      BY <2>4 DEF CountFits, transcriptVars, Compiling
  <2>5. CASE Trim
      BY <2>5 DEF Trim, OverBudget, Try, transcriptVars, Compiling
  <2>6. CASE Trace /\ pc' = "consume"
      BY <2>6 DEF Trace, AfterTrace, Return, transcriptVars, Compiling
  <2>7. CASE UNCHANGED vars
      BY <2>7 DEF vars, transcriptVars, turnVars
  <2> QED
      BY <2>1, <2>2, <2>3, <2>4, <2>5, <2>6, <2>7
<1> QED
    BY <1>1 DEF View, Phase, Seen

(* An accepted request leaves compile() with the consumption it implies. *)
LEMMA ReturnIsCompile ==
  ASSUME IInv, (Trace /\ pc' # "consume") \/ Consume
  PROVE  Turn!Compile
<1> USE DEF IInv
<1>1. pc \in {"trace", "consume"} /\ Return /\ UNCHANGED <<committed, bounds, stored, current>>
    BY DEF Trace, AfterTrace, Consume, transcriptVars
<1>2. pc' = "generate" /\ request' = compiled
    BY <1>1 DEF Return
<1>3. compiled.stored = Active(session) /\ compiled.messages = candidate.messages
    BY <1>1 DEF ProjectionInv, Compiled
<1>4. session' = Accept(session)
  <2>1. CASE Consume
      BY <2>1 DEF Consume
  <2>2. CASE Trace /\ pc' # "consume"
    <3>1. ~ HasScope(Active(session), "next_request") /\ session' = session
        BY <1>3, <2>2 DEF Trace, AfterTrace
    <3> QED
        BY <3>1 DEF Accept
  <2> QED
      BY <2>1, <2>2
<1>5. PICK k \in 0 .. Len(bounds) : candidate = Rest(k)
    BY <1>1 DEF CandidateInv, Compiled
<1>6. StartOf(k) \in TurnStarts /\ StartOf(k) \in 0 .. committed
      /\ compiled.messages = From(StartOf(k))
    BY <1>3, <1>5, Starts, RestFacts
<1>7. From(StartOf(k)) = SubSeq(Turn!Working, StartOf(k) + 1, Len(Turn!Working))
  <2> DEFINE m == committed + current
             s == StartOf(k)
  <2>1. m \in Nat /\ s \in Nat /\ s <= m /\ From(s) = [i \in 1 .. m - s |-> s + i]
      BY <1>6, FromFacts
  <2>2. Turn!Working = [i \in 1 .. m |-> i]
      BY DEF Turn!Working
  <2> HIDE DEF m, s
  <2>3. Len(Turn!Working) = m
      BY <2>1, <2>2
  <2>4. SubSeq(Turn!Working, s + 1, m) = [i \in 1 .. m - s |-> Turn!Working[s + i]]
      BY <2>1, Slice
  <2>5. \A i \in 1 .. m - s : Turn!Working[s + i] = s + i
      BY <2>1, <2>2, Shift
  <2> QED
      BY <2>1, <2>3, <2>4, <2>5 DEF s
<1>8. Seen(request)' = [messages  |-> SubSeq(Turn!Working, StartOf(k) + 1, Len(Turn!Working)),
                        reminders |-> Turn!Active(session)]
    BY <1>2, <1>3, <1>6, <1>7, SameReminders DEF Seen
<1>9. StartOf(k) \in Turn!Cuts
    BY <1>6 DEF Turn!Cuts, TurnStarts
<1>10. Phase(pc) = "compile" /\ Phase(pc)' = "generate"
    BY <1>1, <1>2 DEF Phase, Compiling
<1> QED
    BY <1>1, <1>4, <1>8, <1>9, <1>10, SameReminders DEF Turn!Compile, Phase, Seen

(* The turn ends, committed or not. *)
LEMMA EndIsEnd ==
  ASSUME pc # "idle", pc \in Places, EndTurn,
         \/ UNCHANGED <<committed, bounds>>
         \/ /\ pc = "generate" /\ committed' = committed + current + 1
            /\ bounds' = Append(bounds, committed')
  PROVE  Turn!End
<1>1. /\ pc' = "idle" /\ current' = 0 /\ stored' = session.remaining
      /\ session' = OpenSession(<<>>) /\ request' = NoRequest
    BY DEF EndTurn
<1>2. Phase(pc) # "idle" /\ Phase(pc') = "idle" /\ Seen(request') = Turn!Nothing
    BY <1>1, Phases DEF Phase
<1>3. pc = "generate" => Phase(pc) = "generate"
    BY Phases
<1> QED
    BY <1>1, <1>2, <1>3, SameReminders DEF Turn!End, Phase, Seen

LEMMA StepMaps ==
  ASSUME IInv, [Next]_vars
  PROVE  Turn!Next \/ UNCHANGED View
<1>1. CASE \E shape \in Shapes : Remind(shape)
  <2>1. Turn!Edit
      BY <1>1, Phases DEF Remind, Turn!Edit, transcriptVars, turnVars, Phase, Seen
  <2> QED
      BY <2>1 DEF Turn!Next
<1>2. CASE Begin
  <2>1. Turn!Begin
      BY <1>2, Phases, SameReminders
         DEF Begin, Turn!Begin, transcriptVars, Phase, Seen, Compiling
  <2> QED
      BY <2>1 DEF Turn!Next
<1>3. CASE NextRound
  <2>1. current \in Nat
      BY DEF IInv, TypeInv
  <2>2. Turn!NextRound
      BY <1>3, <2>1, Phases
         DEF NextRound, Turn!NextRound, transcriptVars, Phase, Seen, Compiling
  <2> QED
      BY <2>2 DEF Turn!Next
<1>4. CASE PolicyRejects \/ CompileRejects \/ BudgetRejects \/ Abort \/ Commit
  <2>1. pc # "idle" /\ pc \in Places /\ EndTurn
      BY <1>4 DEF PolicyRejects, CompileRejects, Resolved, BudgetRejects, Abort, Commit, Fail,
                  IInv, TypeInv
  <2>2. \/ UNCHANGED <<committed, bounds>>
        \/ /\ pc = "generate" /\ committed' = committed + current + 1
           /\ bounds' = Append(bounds, committed')
      BY <1>4 DEF PolicyRejects, CompileRejects, BudgetRejects, Abort, Commit, Fail,
                  transcriptVars
  <2>3. Turn!End
      BY <2>1, <2>2, EndIsEnd
  <2> QED
      BY <2>3 DEF Turn!Next
<1>5. CASE (Trace /\ pc' # "consume") \/ Consume
    BY <1>5, ReturnIsCompile DEF Turn!Next
<1> QED
    BY <1>1, <1>2, <1>3, <1>4, <1>5, WorkIsInvisible DEF Next, CompileStep

(* To the turn, compile() is one step: a request of whole turns with the       *)
(* reminders in force, and their consumption, at once; or the end of the turn. *)
(* No source, no trimmed candidate and no failure leaves anything else behind. *)
THEOREM CompileIsAtomic == Spec => Turn!Spec
<1>1. Init => Turn!Init
    BY InitMaps
<1>2. IInv /\ [Next]_vars =>
        [Turn!Next]_<<committed, bounds, stored,
                      IF pc \in Compiling THEN "compile" ELSE pc, current, session,
                      [messages |-> request.messages, reminders |-> request.stored]>>
    BY StepMaps DEF View, Phase, Seen
<1> QED
    BY <1>1, <1>2, Invariance, PTL DEF Spec, Turn!Spec

-----------------------------------------------------------------------------
(* Recursive functions over 0 .. n, and the ends of finite sets of numbers.   *)

LEMMA InductionUpTo ==
  ASSUME NEW n \in Nat, NEW S, 0 \in S, \A i \in 1 .. n : i - 1 \in S => i \in S
  PROVE  \A i \in 0 .. n : i \in S
<1> DEFINE Good == {i \in Nat : i <= n => i \in S}
<1>1. 0 \in Good
    OBVIOUS
<1>2. \A i \in Nat : i \in Good => i + 1 \in Good
  <2> SUFFICES ASSUME NEW i \in Nat, i \in Good, i + 1 <= n PROVE i + 1 \in S
      OBVIOUS
  <2>1. i + 1 \in 1 .. n /\ (i + 1) - 1 = i /\ i <= n
      OBVIOUS
  <2> QED
      BY <2>1
<1> HIDE DEF Good
<1>3. \A i \in Nat : i \in Good
    BY <1>1, <1>2, SetInduction
<1> QED
    BY <1>3 DEF Good

(* f is the function that step builds from base, within A.                    *)
Iterates(f, n, A, base, step) ==
    /\ f \in [0 .. n -> A] /\ f[0] = base
    /\ \A i \in 1 .. n : f[i] = step[<<i, f[i - 1]>>]

(* A recursive function exists when every step of it stays within a set.      *)
LEMMA IterationExists ==
  ASSUME NEW n \in Nat, NEW A, NEW base \in A, NEW step,
         \A i \in 1 .. n, a \in A : step[<<i, a>>] \in A
  PROVE  \E f : Iterates(f, n, A, base, step)
<1> DEFINE S == {i \in 0 .. n : \E f : Iterates(f, i, A, base, step)}
<1>1. 0 \in S
  <2>1. Iterates([i \in 0 .. 0 |-> base], 0, A, base, step)
      BY DEF Iterates
  <2> QED
      BY <2>1
<1>2. ASSUME NEW i \in 1 .. n, i - 1 \in S
      PROVE  i \in S
  <2>1. PICK f : Iterates(f, i - 1, A, base, step)
      BY <1>2
  <2> DEFINE g == [k \in 0 .. i |-> IF k = i THEN step[<<i, f[i - 1]>>] ELSE f[k]]
  <2>2. /\ f \in [0 .. (i - 1) -> A] /\ f[0] = base
        /\ \A k \in 1 .. (i - 1) : f[k] = step[<<k, f[k - 1]>>]
      BY <2>1 DEF Iterates
  <2>3. step[<<i, f[i - 1]>>] \in A
    <3>1. f[i - 1] \in A
        BY <2>2
    <3> QED
        BY <3>1
  <2>4. g \in [0 .. i -> A] /\ g[0] = base
      BY <2>2, <2>3
  <2>5. ASSUME NEW k \in 1 .. i
        PROVE  g[k] = step[<<k, g[k - 1]>>]
    <3>1. g[k - 1] = f[k - 1]
        OBVIOUS
    <3>2. CASE k = i
      <4>1. g[k] = step[<<i, f[i - 1]>>]
          BY <3>2
      <4> QED
          BY <3>1, <3>2, <4>1
    <3>3. CASE k # i
      <4>1. k \in 1 .. (i - 1) /\ g[k] = f[k]
          BY <3>3
      <4> QED
          BY <2>2, <3>1, <4>1
    <3> QED
        BY <3>2, <3>3
  <2> HIDE DEF g
  <2>6. Iterates(g, i, A, base, step)
      BY <2>4, <2>5 DEF Iterates
  <2> QED
      BY <2>6
<1> HIDE DEF S
<1>3. n \in S
  <2>1. \A i \in 0 .. n : i \in S
      BY <1>1, <1>2, InductionUpTo
  <2> QED
      BY <2>1
<1> QED
    BY <1>3 DEF S

LEMMA LastExists ==
  ASSUME NEW n \in Nat
  PROVE  \A S \in SUBSET (1 .. n) : S # {} => \E m \in S : \A k \in S : k <= m
<1> DEFINE Good == {i \in Nat : \A S \in SUBSET (1 .. i) :
                                   S # {} => \E m \in S : \A k \in S : k <= m}
<1>1. 0 \in Good
  <2>1. \A S \in SUBSET (1 .. 0) : S = {}
      OBVIOUS
  <2> QED
      BY <2>1
<1>2. ASSUME NEW i \in Nat, i \in Good
      PROVE  i + 1 \in Good
  <2> SUFFICES ASSUME NEW S \in SUBSET (1 .. i + 1), S # {}
               PROVE  \E m \in S : \A k \in S : k <= m
      OBVIOUS
  <2>1. CASE i + 1 \in S
      BY <2>1
  <2>2. CASE i + 1 \notin S
    <3>1. S \in SUBSET (1 .. i)
        BY <2>2
    <3> QED
        BY <1>2, <3>1
  <2> QED
      BY <2>1, <2>2
<1> HIDE DEF Good
<1>3. \A i \in Nat : i \in Good
    BY <1>1, <1>2, SetInduction
<1> QED
    BY <1>3 DEF Good

LEMMA FirstExists ==
  ASSUME NEW n \in Nat, NEW S \in SUBSET (1 .. n), S # {}
  PROVE  \E m \in S : \A k \in S : m <= k
<1> DEFINE Mirror == {n + 1 - k : k \in S}
<1>1. Mirror \in SUBSET (1 .. n) /\ Mirror # {}
  <2>1. \A k \in S : n + 1 - k \in 1 .. n
      OBVIOUS
  <2> QED
      BY <2>1
<1>2. PICK m \in Mirror : \A k \in Mirror : k <= m
    BY <1>1, LastExists
<1>3. PICK i \in S : m = n + 1 - i
    OBVIOUS
<1>4. ASSUME NEW k \in S PROVE i <= k
  <2>1. n + 1 - k <= n + 1 - i
      BY <1>2, <1>3
  <2>2. k \in Nat /\ i \in Nat
      OBVIOUS
  <2> QED
      BY <2>1, <2>2
<1> QED
    BY <1>4

-----------------------------------------------------------------------------
(* The templates and bindings of PromptTemplates, by the operations they were *)
(* made with.                                                                 *)

(* What one operation makes of the bindings before it. *)
Binds(values, op) ==
    [f \in (DOMAIN values \ op.removes) \cup DOMAIN op.sets |->
        IF f \in DOMAIN op.sets THEN op.sets[f] ELSE values[f]]

Givens == Mappings \cup Overrides
Sets(given) == [sets |-> given, removes |-> {}]
Removes(keys) == [sets |-> <<>>, removes |-> keys]
Operations ==
    {Sets(given) : given \in Givens} \cup {Removes(keys) : keys \in SUBSET Fields(source)}

Renders == {"strict", "lenient", "partial"}

(* The values are what the operations on them say. *)
Held(values, ops) == ops \in Seq(Operations) /\ values = BindingsOf(ops)

Typed(values) == \A f \in DOMAIN values : IsValue(values[f])

Templates == [name : TemplateNames, values : {BindingsOf(ops) : ops \in Seq(Operations)},
              ops : Seq(Operations)]

InputInv ==
    /\ source \in Sources /\ policies \in PolicyMaps
    /\ mapping \in Mappings /\ object \in ObjectTexts

(* The templates made, and the values of the last render, are what their       *)
(* histories say; a library holds templates; nothing has changed since the     *)
(* last render that its text depends on.                                       *)
HistoryInv ==
    /\ templates \in Seq(Templates)
    /\ \A t \in DOMAIN templates :
          /\ Held(templates[t].values, templates[t].ops)
          /\ DOMAIN templates[t].values \subseteq Fields(source)
          /\ Typed(templates[t].values)
    /\ \A name \in DOMAIN library : library[name] \in DOMAIN templates

ResultInv ==
    result.call \in Renders =>
        /\ Held(result.values, result.ops) /\ Typed(result.values)
        /\ result.outcome = Outcome(result.values, result.call)

TemplateInv == InputInv /\ HistoryInv /\ ResultInv

Touching(ops, f) == {n \in DOMAIN ops : f \in DOMAIN ops[n].sets \cup ops[n].removes}

IsLast(n, S) == n \in S /\ \A m \in S : m <= n

LEMMA LastTouchIs ==
  ASSUME NEW T, NEW ops \in Seq(T), NEW f
  PROVE  /\ Touching(ops, f) = {} => LastTouch(ops, f) = [sets |-> <<>>, removes |-> {f}]
         /\ \A n : IsLast(n, Touching(ops, f)) => LastTouch(ops, f) = ops[n]
         /\ Touching(ops, f) # {} => \E n : IsLast(n, Touching(ops, f))
<1>1. Touching(ops, f) = {} => LastTouch(ops, f) = [sets |-> <<>>, removes |-> {f}]
    BY DEF LastTouch, Touching
<1>2. ASSUME NEW n, IsLast(n, Touching(ops, f))
      PROVE  LastTouch(ops, f) = ops[n]
  <2>1. Touching(ops, f) \subseteq Nat
      BY DEF Touching
  <2> DEFINE last == CHOOSE m \in Touching(ops, f) : \A k \in Touching(ops, f) : k <= m
  <2>2. last \in Touching(ops, f) /\ \A k \in Touching(ops, f) : k <= last
      BY <1>2 DEF IsLast
  <2>3. LastTouch(ops, f) = ops[last]
      BY <1>2 DEF LastTouch, Touching, IsLast
  <2> HIDE DEF last
  <2>4. last = n
      BY <1>2, <2>1, <2>2 DEF IsLast
  <2> QED
      BY <2>3, <2>4
<1>3. Touching(ops, f) # {} => \E n : IsLast(n, Touching(ops, f))
  <2>1. Touching(ops, f) \in SUBSET (1 .. Len(ops)) /\ Len(ops) \in Nat
      BY DEF Touching
  <2> QED
      BY <2>1, LastExists DEF IsLast
<1> QED
    BY <1>1, <1>2, <1>3

LEMMA LastTouchAppend ==
  ASSUME NEW T, NEW ops \in Seq(T), NEW op \in T, NEW f
  PROVE  LastTouch(Append(ops, op), f) =
             IF f \in DOMAIN op.sets \cup op.removes THEN op ELSE LastTouch(ops, f)
<1> DEFINE more == Append(ops, op)
           n == Len(ops) + 1
<1>1. /\ more \in Seq(T) /\ more[n] = op /\ n \in DOMAIN more /\ DOMAIN more = 1 .. n
      /\ \A i \in DOMAIN ops : more[i] = ops[i] /\ i \in DOMAIN more /\ i < n
      /\ \A i \in DOMAIN more : i = n \/ i \in DOMAIN ops
    OBVIOUS
<1> HIDE DEF more, n
<1>2. CASE f \in DOMAIN op.sets \cup op.removes
  <2>1. IsLast(n, Touching(more, f))
      BY <1>1, <1>2 DEF IsLast, Touching
  <2> QED
      BY <1>1, <1>2, <2>1, LastTouchIs DEF more
<1>3. CASE f \notin DOMAIN op.sets \cup op.removes
  <2>1. Touching(more, f) = Touching(ops, f)
      BY <1>1, <1>3 DEF Touching
  <2>2. CASE Touching(ops, f) = {}
    <3>1. LastTouch(ops, f) = [sets |-> <<>>, removes |-> {f}]
        BY <2>2, LastTouchIs
    <3>2. LastTouch(more, f) = [sets |-> <<>>, removes |-> {f}]
        BY <1>1, <2>1, <2>2, LastTouchIs
    <3> QED
        BY <1>3, <3>1, <3>2 DEF more
  <2>3. CASE Touching(ops, f) # {}
    <3>1. PICK i : IsLast(i, Touching(ops, f))
        BY <2>3, LastTouchIs
    <3>2. LastTouch(ops, f) = ops[i] /\ LastTouch(more, f) = more[i]
        BY <1>1, <2>1, <3>1, LastTouchIs
    <3>3. i \in DOMAIN ops
        BY <3>1 DEF IsLast, Touching
    <3> QED
        BY <1>1, <1>3, <3>2, <3>3 DEF more
  <2> QED
      BY <2>2, <2>3
<1> QED
    BY <1>2, <1>3

(* The bindings after an operation are what it makes of those before it. *)
LEMMA BindingsAppend ==
  ASSUME NEW T, NEW ops \in Seq(T), NEW op \in T
  PROVE  BindingsOf(Append(ops, op)) = Binds(BindingsOf(ops), op)
<1> DEFINE more == Append(ops, op)
           Names(o) == UNION {DOMAIN o[n].sets : n \in DOMAIN o}
           Bound(o) == {g \in Names(o) : g \in DOMAIN LastTouch(o, g).sets}
<1>1. \A o : BindingsOf(o) = [f \in Bound(o) |-> LastTouch(o, f).sets[f]]
    BY DEF BindingsOf
<1>2. \A f : LastTouch(more, f) =
                IF f \in DOMAIN op.sets \cup op.removes THEN op ELSE LastTouch(ops, f)
    BY LastTouchAppend
<1>3. Names(more) = Names(ops) \cup DOMAIN op.sets
  <2>1. \A o, f : f \in Names(o) <=> \E n \in DOMAIN o : f \in DOMAIN o[n].sets
      OBVIOUS
  <2>2. /\ more[Len(ops) + 1] = op /\ Len(ops) + 1 \in DOMAIN more
        /\ \A i \in DOMAIN ops : more[i] = ops[i] /\ i \in DOMAIN more
        /\ \A i \in DOMAIN more : i = Len(ops) + 1 \/ i \in DOMAIN ops
      OBVIOUS
  <2> HIDE DEF Names, more
  <2>3. \A f : f \in Names(more) <=> f \in Names(ops) \/ f \in DOMAIN op.sets
      BY <2>1, <2>2
  <2> QED
      BY <2>3
<1> HIDE DEF more, Names
<1>4. Bound(more) = (Bound(ops) \ op.removes) \cup DOMAIN op.sets
    BY <1>2, <1>3
<1>5. \A f \in Bound(more) : LastTouch(more, f).sets[f] =
          IF f \in DOMAIN op.sets THEN op.sets[f] ELSE LastTouch(ops, f).sets[f]
    BY <1>2, <1>4
<1> HIDE DEF Bound
<1> DEFINE old == BindingsOf(ops)
<1>6. DOMAIN old = Bound(ops) /\ \A f \in Bound(ops) : old[f] = LastTouch(ops, f).sets[f]
    BY <1>1
<1> HIDE DEF old
<1>7. BindingsOf(more) = [f \in (DOMAIN old \ op.removes) \cup DOMAIN op.sets |->
                             IF f \in DOMAIN op.sets THEN op.sets[f] ELSE old[f]]
    BY <1>1, <1>4, <1>5, <1>6
<1> QED
    BY <1>7 DEF more, old, Binds

LEMMA NoBindings == BindingsOf(<<>>) = <<>>
    BY DEF BindingsOf

(* Merge, Unbind and the empty bindings of clear_values are operations. *)
LEMMA SetsBinds ==
  ASSUME NEW values, NEW given
  PROVE  Binds(values, Sets(given)) = Update(values, given)
    BY DEF Binds, Sets, Update

LEMMA RemovesBinds ==
  ASSUME NEW values, NEW keys
  PROVE  Binds(values, Removes(keys)) = Unbind(values, keys)
<1>1. DOMAIN <<>> = {}
    OBVIOUS
<1> QED
    BY <1>1 DEF Binds, Removes, Unbind

LEMMA HeldSets ==
  ASSUME NEW values, NEW ops, Held(values, ops), NEW given \in Givens
  PROVE  Held(Update(values, given), Append(ops, Sets(given)))
<1>1. Sets(given) \in Operations
    BY DEF Operations
<1>2. BindingsOf(Append(ops, Sets(given))) = Binds(BindingsOf(ops), Sets(given))
    BY <1>1, BindingsAppend DEF Held
<1>3. Append(ops, Sets(given)) \in Seq(Operations)
    BY <1>1 DEF Held
<1> QED
    BY <1>2, <1>3, SetsBinds DEF Held

LEMMA HeldMerge ==
  ASSUME NEW values, NEW ops, Held(values, ops), NEW given \in Givens, NEW overrides \in Givens
  PROVE  Held(Merge(values, given, overrides), ops \o << Sets(given), Sets(overrides) >>)
<1>1. Held(Update(values, given), Append(ops, Sets(given)))
    BY HeldSets
<1>2. Held(Merge(values, given, overrides), Append(Append(ops, Sets(given)), Sets(overrides)))
    BY <1>1, HeldSets DEF Merge
<1>3. ops \o << Sets(given), Sets(overrides) >> = Append(Append(ops, Sets(given)), Sets(overrides))
    BY DEF Held
<1> QED
    BY <1>2, <1>3

LEMMA HeldUnbind ==
  ASSUME NEW values, NEW ops, Held(values, ops), NEW keys \in SUBSET Fields(source)
  PROVE  Held(Unbind(values, keys), Append(ops, Removes(keys)))
<1>1. Removes(keys) \in Operations
    BY DEF Operations
<1>2. BindingsOf(Append(ops, Removes(keys))) = Binds(BindingsOf(ops), Removes(keys))
    BY <1>1, BindingsAppend DEF Held
<1>3. Append(ops, Removes(keys)) \in Seq(Operations)
    BY <1>1 DEF Held
<1> QED
    BY <1>2, <1>3, RemovesBinds DEF Held

LEMMA HeldNothing ==
  ASSUME NEW values, NEW ops, Held(values, ops), DOMAIN values \subseteq Fields(source)
  PROVE  Held(<<>>, Append(ops, Removes(Fields(source))))
<1>1. Unbind(values, Fields(source)) = <<>>
    BY DEF Unbind
<1> QED
    BY <1>1, HeldUnbind

LEMMA HeldMapping ==
  ASSUME NEW given \in Givens
  PROVE  Held(given, << Sets(given) >>)
<1>1. Held(<<>>, <<>>)
    BY NoBindings DEF Held
<1>2. Held(Update(<<>>, given), Append(<<>>, Sets(given)))
    BY <1>1, HeldSets
<1>3. Update(<<>>, given) = [f \in DOMAIN given |-> given[f]]
    BY DEF Update
<1>4. given = [f \in DOMAIN given |-> given[f]]
    BY TemplatesAssumption DEF Givens
<1>5. Append(<<>>, Sets(given)) = << Sets(given) >>
    OBVIOUS
<1> QED
    BY <1>2, <1>3, <1>4, <1>5

LEMMA GivenTyped ==
  ASSUME NEW given \in Givens
  PROVE  Typed(given)
    BY TemplatesAssumption DEF Givens, Typed

LEMMA MergeTyped ==
  ASSUME NEW values, Typed(values), NEW given \in Givens, NEW overrides \in Givens
  PROVE  Typed(Merge(values, given, overrides))
    BY GivenTyped DEF Typed, Merge, Update

LEMMA UnbindTyped ==
  ASSUME NEW values, Typed(values), NEW keys
  PROVE  Typed(Unbind(values, keys))
    BY DEF Typed, Unbind

-----------------------------------------------------------------------------
LEMMA TemplateInitInv == TemplateInit => TemplateInv
<1>1. DOMAIN <<>> = {}
    OBVIOUS
<1> QED
    BY <1>1 DEF TemplateInit, TemplateInv, InputInv, HistoryInv, ResultInv, Idle, Renders

(* What stays the same while no template is made. *)
LEMMA HistoryKept ==
  ASSUME HistoryInv, UNCHANGED <<source, templates, library>>
  PROVE  HistoryInv'
<1>1. UNCHANGED <<Operations, Fields(source)>>
    BY DEF Operations, Fields
<1>2. Templates' = Templates
    BY <1>1 DEF Templates
<1> QED
    BY <1>1, <1>2 DEF HistoryInv, Held

LEMMA Makes ==
  ASSUME TemplateInv, NEW name \in TemplateNames, NEW values, NEW ops,
         Held(values, ops), Typed(values), Make(name, values, ops)
  PROVE  TemplateInv'
<1>1. /\ UNCHANGED <<source, policies, mapping, object, library>>
      /\ result'.call \notin Renders
    BY DEF Make, Idle, Renders
<1>2. InputInv' /\ ResultInv'
    BY <1>1 DEF TemplateInv, InputInv, ResultInv
<1>3. CASE UNCHANGED templates
    BY <1>1, <1>2, <1>3, HistoryKept DEF TemplateInv
<1>4. CASE /\ Known(values)
           /\ templates' = Append(templates, [name |-> name, values |-> values, ops |-> ops])
  <2> DEFINE template == [name |-> name, values |-> values, ops |-> ops]
  <2>1. template \in Templates /\ template.values = values /\ template.ops = ops
      BY DEF Held, Templates
  <2>2. templates \in Seq(Templates) /\ templates' = Append(templates, template)
      BY <1>4 DEF TemplateInv, HistoryInv
  <2> HIDE DEF template
  <2>3. /\ templates' \in Seq(Templates)
        /\ \A t \in DOMAIN templates' :
              \/ t \in DOMAIN templates /\ templates'[t] = templates[t]
              \/ templates'[t] = template
        /\ \A t \in DOMAIN templates : t \in DOMAIN templates'
      BY <2>1, <2>2
  <2>4. Fields(source)' = Fields(source) /\ Operations' = Operations /\ Templates' = Templates
      BY <1>1 DEF Fields, Operations, Templates
  <2>5. \A t \in DOMAIN templates' :
           /\ Held(templates'[t].values, templates'[t].ops)
           /\ DOMAIN templates'[t].values \subseteq Fields(source)
           /\ Typed(templates'[t].values)
      BY <1>4, <2>1, <2>3 DEF TemplateInv, HistoryInv, Known
  <2>6. HistoryInv'
      BY <1>1, <2>3, <2>4, <2>5 DEF TemplateInv, HistoryInv, Held
  <2> QED
      BY <1>2, <2>6 DEF TemplateInv
<1> QED
    BY <1>3, <1>4 DEF Make

(* A rendering looks at the template's source and policies and at the object. *)
LEMMA OutcomeKept ==
  ASSUME UNCHANGED <<source, policies, object>>, NEW values, NEW mode
  PROVE  Outcome(values, mode)' = Outcome(values, mode)
<1>1. \A f : PolicyOf(f)' = PolicyOf(f)
    BY DEF PolicyOf
<1> DEFINE partial == mode = "partial"
<1>2. \A part : PartOf(part, values, partial)' = PartOf(part, values, partial)
    BY <1>1 DEF PartOf
<1>3. Parts(values, partial)' = Parts(values, partial)
    BY <1>2, Zenon DEF Parts
<1>4. RenderParts(values, mode = "partial")' = RenderParts(values, mode = "partial")
    BY <1>3 DEF RenderParts
<1> QED
    BY <1>4 DEF Outcome, Known, Fields

LEMMA TemplateStep == TemplateInv /\ [TemplateNext]_templateVars => TemplateInv'
<1> SUFFICES ASSUME TemplateInv, [TemplateNext]_templateVars PROVE TemplateInv'
    OBVIOUS
<1>1. /\ mapping \in Givens /\ Overrides \subseteq Givens
      /\ \A t \in DOMAIN templates :
            /\ templates[t] \in Templates
            /\ Held(templates[t].values, templates[t].ops) /\ Typed(templates[t].values)
            /\ DOMAIN templates[t].values \subseteq Fields(source)
    BY DEF TemplateInv, InputInv, HistoryInv, Givens
<1>2. \A t \in DOMAIN templates : templates[t].name \in TemplateNames
    BY <1>1 DEF Templates
<1>3. CASE Define
  <2>1. PICK name \in TemplateNames : Make(name, mapping, << Sets(mapping) >>)
      BY <1>3 DEF Define, Sets
  <2> QED
      BY <1>1, <2>1, HeldMapping, GivenTyped, Makes
<1>4. CASE WithValues
  <2>1. PICK t \in DOMAIN templates, overrides \in Overrides :
           Make(templates[t].name, Merge(templates[t].values, mapping, overrides),
                templates[t].ops \o << Sets(mapping), Sets(overrides) >>)
      BY <1>4 DEF WithValues, Sets
  <2>2. overrides \in Givens
      BY <1>1
  <2> QED
      BY <1>1, <1>2, <2>1, <2>2, HeldMerge, MergeTyped, Makes
<1>5. CASE WithoutValues
  <2>1. PICK t \in DOMAIN templates : \E keys \in SUBSET Fields(source) :
           Make(templates[t].name, Unbind(templates[t].values, keys),
                Append(templates[t].ops, Removes(keys)))
      BY <1>5 DEF WithoutValues, Removes
  <2>2. PICK keys \in SUBSET Fields(source) :
           Make(templates[t].name, Unbind(templates[t].values, keys),
                Append(templates[t].ops, Removes(keys)))
      BY <2>1
  <2> QED
      BY <1>1, <1>2, <2>2, HeldUnbind, UnbindTyped, Makes
<1>6. CASE ClearValues
  <2>1. PICK t \in DOMAIN templates :
           Make(templates[t].name, <<>>, Append(templates[t].ops, Removes(Fields(source))))
      BY <1>6 DEF ClearValues, Removes
  <2>2. Typed(<<>>)
      BY DEF Typed
  <2> QED
      BY <1>1, <1>2, <2>1, <2>2, HeldNothing, Makes
<1>7. CASE BuildLibrary
  <2>1. PICK chosen \in SUBSET DOMAIN templates :
           \/ library' = [name \in {templates[t].name : t \in chosen} |->
                             CHOOSE t \in chosen : templates[t].name = name]
           \/ UNCHANGED library
      BY <1>7 DEF BuildLibrary
  <2>2. /\ UNCHANGED <<source, policies, mapping, object, templates>>
        /\ result'.call \notin Renders
      BY <1>7 DEF BuildLibrary, Idle, Renders
  <2>3. \A name \in DOMAIN library' : library'[name] \in DOMAIN templates
      BY <2>1 DEF TemplateInv, HistoryInv
  <2> QED
      BY <2>2, <2>3
         DEF TemplateInv, InputInv, HistoryInv, ResultInv, Held, Fields, Operations, Templates
<1>8. CASE MutateMapping
    BY <1>8, HistoryKept DEF MutateMapping, TemplateInv, InputInv, ResultInv, Idle, Renders
<1>9. CASE MutateObject
    BY <1>9, HistoryKept DEF MutateObject, TemplateInv, InputInv, ResultInv, Idle, Renders
<1>10. CASE Render
  <2>1. PICK t \in DOMAIN templates \cup {library[name] : name \in DOMAIN library},
             overrides \in Overrides, mode \in Renders :
           LET values == Merge(templates[t].values, mapping, overrides)
           IN result' = [call |-> mode, values |-> values, outcome |-> Outcome(values, mode),
                         ops |-> templates[t].ops \o << Sets(mapping), Sets(overrides) >>]
      BY <1>10 DEF Render, Sets, Renders
  <2>2. UNCHANGED <<source, policies, mapping, object, templates, library>>
      BY <1>10 DEF Render
  <2>3. t \in DOMAIN templates /\ overrides \in Givens
      BY <1>1 DEF TemplateInv, HistoryInv
  <2>4. /\ Held(Merge(templates[t].values, mapping, overrides),
                templates[t].ops \o << Sets(mapping), Sets(overrides) >>)
        /\ Typed(Merge(templates[t].values, mapping, overrides))
      BY <1>1, <2>3, HeldMerge, MergeTyped
  <2>5. PICK values, ops :
           /\ Held(values, ops) /\ Typed(values)
           /\ result'.call = mode /\ result'.values = values
           /\ result'.outcome = Outcome(values, mode) /\ result'.ops = ops
      BY <2>1, <2>4
  <2>6. Outcome(values, mode)' = Outcome(values, mode)
      BY <2>2, OutcomeKept
  <2>7. Held(values, ops)'
      BY <2>2, <2>5 DEF Held, Operations, Fields
  <2>8. ResultInv'
      BY <2>5, <2>6, <2>7 DEF ResultInv
  <2> QED
      BY <2>2, <2>8, HistoryKept DEF TemplateInv, InputInv
<1>11. CASE UNCHANGED templateVars
  <2>1. /\ UNCHANGED <<source, policies, mapping, object, templates, library>>
        /\ UNCHANGED result
      BY <1>11 DEF templateVars
  <2>2. ASSUME result.call \in Renders PROVE ResultInv'
    <3>1. Outcome(result.values, result.call)' = Outcome(result.values, result.call)
      <4>1. PICK values, mode : values = result.values /\ mode = result.call
          OBVIOUS
      <4>2. Outcome(values, mode)' = Outcome(values, mode)
          BY <2>1, OutcomeKept
      <4> QED
          BY <2>1, <4>1, <4>2
    <3>2. Held(result.values, result.ops)'
        BY <2>1, <2>2 DEF Held, Operations, Fields, TemplateInv, ResultInv
    <3> QED
        BY <2>1, <2>2, <3>1, <3>2 DEF TemplateInv, ResultInv
  <2> QED
      BY <2>1, <2>2, HistoryKept DEF TemplateInv, InputInv, ResultInv
<1> QED
    BY <1>3, <1>4, <1>5, <1>6, <1>7, <1>8, <1>9, <1>10, <1>11 DEF TemplateNext
-----------------------------------------------------------------------------
(* The texts of policies.                                                     *)

Marks == Decoration \cup {"sp", "error", "None", "[...]"}
Words == STRING \cup Marks

Plain(text) == \A n \in DOMAIN text : text[n] \notin Decoration

(* No title or wrapper without a word.                                        *)
Clean(text) ==
    ~ Plain(text) => \E n \in DOMAIN text : text[n] \notin Decoration \cup {"sp"}

IsText(text) == text \in Seq(Words) /\ Clean(text)

(* The value a transform is applied to.                                       *)
Sound(value) ==
    /\ value.kind \in {"none", "text", "list", "object"}
    /\ value.kind = "text" => IsText(value.text)
    /\ value.kind = "list" =>
          /\ value.items \in Seq(Seq(Words))
          /\ \A n \in DOMAIN value.items : Plain(value.items[n])

LEMMA UserTextIs ==
  ASSUME NEW text, UserText(text)
  PROVE  text \in Seq(Words) /\ Plain(text) /\ IsText(text)
<1>1. text \in Seq(Words)
    BY SeqMonotonic DEF UserText, Words
<1>2. Plain(text)
    BY DEF UserText, Plain, Seqs!ToSet
<1> QED
    BY <1>1, <1>2 DEF IsText, Clean

LEMMA ValueIsSound ==
  ASSUME NEW value, IsValue(value)
  PROVE  Sound(value)
<1>1. value.kind = "text" => IsText(value.text)
    BY UserTextIs DEF IsValue
<1>2. ASSUME value.kind = "list"
      PROVE  /\ value.items \in Seq(Seq(Words))
             /\ \A n \in DOMAIN value.items : Plain(value.items[n])
  <2>1. /\ value.items \in Seq(Seq(STRING))
        /\ \A n \in DOMAIN value.items : UserText(value.items[n])
      BY <1>2 DEF IsValue
  <2>2. Seq(STRING) \subseteq Seq(Words)
      BY SeqMonotonic DEF Words
  <2>3. value.items \in Seq(Seq(Words))
      BY <2>1, <2>2, SeqMonotonic
  <2> QED
      BY <2>1, <2>3, UserTextIs
<1> QED
    BY <1>1, <1>2 DEF IsValue, Sound

LEMMA StripIs ==
  ASSUME NEW text \in Seq(Words)
  PROVE  /\ Strip(text) \in Seq(Words)
         /\ \A n \in DOMAIN Strip(text) : \E m \in DOMAIN text : Strip(text)[n] = text[m]
         /\ \A m \in DOMAIN text : text[m] # "sp" =>
               \E n \in DOMAIN Strip(text) : Strip(text)[n] = text[m]
<1> DEFINE words == {n \in DOMAIN text : text[n] # "sp"}
           first == CHOOSE n \in words : \A m \in words : n <= m
           last == CHOOSE n \in words : \A m \in words : m <= n
<1>1. Len(text) \in Nat /\ DOMAIN text = 1 .. Len(text) /\ \A n \in DOMAIN text : text[n] \in Words
    OBVIOUS
<1>2. CASE words = {}
  <2>1. Strip(text) = <<>>
      BY <1>2 DEF Strip
  <2> QED
      BY <1>2, <2>1
<1>3. CASE words # {}
  <2>1. words \in SUBSET (1 .. Len(text))
      BY <1>1
  <2>2. first \in words /\ \A m \in words : first <= m
      BY <1>1, <1>3, <2>1, FirstExists
  <2>3. last \in words /\ \A m \in words : m <= last
      BY <1>1, <1>3, <2>1, LastExists
  <2>4. Strip(text) = SubSeq(text, first, last)
      BY <1>3 DEF Strip
  <2> HIDE DEF first, last
  <2>5. first \in 1 .. Len(text) /\ last \in 1 .. Len(text) /\ first <= last
      BY <2>1, <2>2, <2>3
  <2>6. Strip(text) = [i \in 1 .. last - first + 1 |-> text[i + first - 1]]
    <3>1. SubSeq(text, first, last) = [i \in 1 .. last - first + 1 |-> text[i + first - 1]]
        BY <2>5
    <3> QED
        BY <2>4, <3>1
  <2>7. ASSUME NEW i \in 1 .. last - first + 1
        PROVE  i + first - 1 \in 1 .. Len(text)
      BY <1>1, <2>5
  <2>8. Strip(text) \in Seq(Words)
      BY <1>1, <2>5, <2>6, <2>7
  <2>9. ASSUME NEW n \in DOMAIN Strip(text)
        PROVE  \E m \in DOMAIN text : Strip(text)[n] = text[m]
      BY <1>1, <2>6, <2>7
  <2>10. ASSUME NEW m \in DOMAIN text, text[m] # "sp"
         PROVE  \E n \in DOMAIN Strip(text) : Strip(text)[n] = text[m]
    <3>1. m \in words /\ first <= m /\ m <= last
        BY <2>2, <2>3, <2>10
    <3> DEFINE n == m - first + 1
    <3>2. n \in 1 .. last - first + 1 /\ n + first - 1 = m
        BY <1>1, <2>5, <3>1
    <3> QED
        BY <2>6, <3>2
  <2> QED
      BY <2>8, <2>9, <2>10
<1> QED
    BY <1>2, <1>3

(* join_blocks adds whitespace only. *)
LEMMA JoinBlocksIs ==
  ASSUME NEW items \in Seq(Seq(Words)), \A n \in DOMAIN items : Plain(items[n])
  PROVE  JoinBlocks(items) \in Seq(Words) /\ Plain(JoinBlocks(items))
<1> DEFINE Accepted == {text \in Seq(Words) : Plain(text)}
           Join(n, text) == IF Blank(items[n]) THEN text
                            ELSE IF text = <<>> THEN Strip(items[n])
                            ELSE text \o <<"sp">> \o Strip(items[n])
           step == [p \in (1 .. Len(items)) \X Accepted |-> Join(p[1], p[2])]
           Eq(f) == f = [n \in 0 .. Len(items) |-> IF n = 0 THEN <<>> ELSE Join(n, f[n - 1])]
<1>1. /\ Len(items) \in Nat /\ DOMAIN items = 1 .. Len(items)
      /\ \A n \in 1 .. Len(items) : items[n] \in Seq(Words)
    BY LenProperties, ElementOfSeq
<1>2. <<>> \in Accepted
    BY DEF Plain
<1>3. ASSUME NEW n \in 1 .. Len(items), NEW text \in Accepted
      PROVE  Join(n, text) \in Accepted
  <2>1. items[n] \in Seq(Words) /\ Plain(items[n])
      BY ONLY <1>1, n \in 1 .. Len(items), \A k \in DOMAIN items : Plain(items[k])
  <2>2. Strip(items[n]) \in Accepted
      BY <2>1, StripIs DEF Plain
  <2> DEFINE joined == text \o <<"sp">> \o Strip(items[n])
  <2>3. joined \in Accepted
    <3>1. "sp" \in Words /\ "sp" \notin Decoration
        BY DEF Words, Marks, Decoration
    <3>2. ASSUME NEW s \in Accepted, NEW t \in Accepted PROVE s \o t \in Accepted
      <4>1. s \o t \in Seq(Words)
          OBVIOUS
      <4>2. ASSUME NEW k \in DOMAIN (s \o t) PROVE (s \o t)[k] \notin Decoration
          BY DEF Plain
      <4> QED
          BY <4>1, <4>2 DEF Plain
    <3>3. <<"sp">> \in Accepted
        BY <3>1 DEF Plain
    <3> HIDE DEF Accepted
    <3>4. text \o <<"sp">> \in Accepted
        BY <3>2, <3>3
    <3> QED
        BY <2>2, <3>2, <3>4
  <2> QED
      BY <2>2, <2>3
<1> HIDE DEF Accepted, Join
<1>4. \A n \in 1 .. Len(items), text \in Accepted : step[<<n, text>>] = Join(n, text)
    OBVIOUS
<1> HIDE DEF step
<1>5. \E f : Eq(f)
  <2>1. \A n \in 1 .. Len(items), text \in Accepted : step[<<n, text>>] \in Accepted
      BY <1>3, <1>4
  <2>2. PICK f : Iterates(f, Len(items), Accepted, <<>>, step)
      BY <1>1, <1>2, <2>1, IterationExists
  <2>3. ASSUME NEW n \in 0 .. Len(items)
        PROVE  f[n] = IF n = 0 THEN <<>> ELSE Join(n, f[n - 1])
    <3>1. CASE n = 0
        BY <2>2, <3>1 DEF Iterates
    <3>2. CASE n # 0
      <4>1. n \in 1 .. Len(items) /\ n - 1 \in 0 .. Len(items)
          BY <1>1, <3>2
      <4>2. f[n - 1] \in Accepted /\ f[n] = step[<<n, f[n - 1]>>]
          BY <2>2, <4>1 DEF Iterates
      <4> QED
          BY <1>4, <3>2, <4>1, <4>2
    <3> QED
        BY <3>1, <3>2
  <2> QED
      BY <2>2, <2>3 DEF Iterates
<1> DEFINE joined == CHOOSE f : Eq(f)
<1>6. Eq(joined)
    BY <1>5
<1>7. JoinBlocks(items) = joined[Len(items)]
    BY DEF JoinBlocks, Join
<1> HIDE DEF joined
<1>8. \A n \in 0 .. Len(items) : joined[n] \in Accepted
  <2> DEFINE S == {n \in 0 .. Len(items) : joined[n] \in Accepted}
  <2>1. 0 \in S
      BY <1>1, <1>2, <1>6
  <2>2. ASSUME NEW n \in 1 .. Len(items), n - 1 \in S PROVE n \in S
    <3>1. joined[n] = Join(n, joined[n - 1])
      <4>1. n \in 0 .. Len(items) /\ n # 0
          BY <1>1
      <4> QED
          BY <1>6, <4>1, Zenon
    <3>2. joined[n - 1] \in Accepted /\ n \in 0 .. Len(items)
        BY <2>2
    <3> QED
        BY <1>3, <3>1, <3>2
  <2> HIDE DEF S
  <2>3. \A n \in 0 .. Len(items) : n \in S
      BY <1>1, <2>1, <2>2, InductionUpTo
  <2> QED
      BY <2>3 DEF S
<1> QED
    BY <1>1, <1>7, <1>8 DEF Accepted

LEMMA TransformIs ==
  ASSUME NEW value, Sound(value), NEW objectText, UserText(objectText), NEW op,
         op.op \in {"optional", "trim", "header", "wrap", "join", "min_len", "raises"},
         op.op = "optional" => UserText(op.empty)
  PROVE  IsText(Transform(op, value, objectText))
<1> DEFINE text == Str(value, objectText)
<1>1. IsText(<<>>) /\ IsText(<<"None">>) /\ IsText(<<"[...]">>) /\ IsText(<<"error">>)
    BY DEF IsText, Clean, Plain, Words, Marks, Decoration
<1>2. IsText(text)
    BY <1>1, UserTextIs DEF Str, Sound
<1>3. IsText(Strip(text))
    BY <1>2, StripIs DEF IsText, Clean, Plain, Decoration
<1>4. ASSUME NEW before \in Seq(Marks), NEW after \in Seq(Marks)
      PROVE  IsText(Decorate(value, text, before \o text \o after))
  <2> DEFINE decorated == before \o text \o after
  <2> SUFFICES ASSUME ~ Blank(text) PROVE IsText(decorated)
      BY <1>1 DEF Decorate
  <2>1. before \in Seq(Words) /\ after \in Seq(Words) /\ text \in Seq(Words)
      BY <1>2, SeqMonotonic DEF Words, IsText
  <2>2. before \o text \in Seq(Words)
      BY <2>1
  <2>3. decorated \in Seq(Words)
      BY <2>1, <2>2
  <2>4. \A n \in DOMAIN text : \E m \in DOMAIN decorated : decorated[m] = text[n]
    <3> TAKE n \in DOMAIN text
    <3> DEFINE m == Len(before) + n
    <3>1. m \in DOMAIN (before \o text) /\ (before \o text)[m] = text[n]
        BY <2>1
    <3> HIDE DEF m
    <3>2. m \in DOMAIN decorated /\ decorated[m] = (before \o text)[m]
        BY <2>1, <2>2, <3>1
    <3> QED
        BY <3>1, <3>2
  <2>5. \E n \in DOMAIN text : text[n] \notin Decoration \cup {"sp"}
      BY <1>2 DEF Blank, IsText, Clean, Plain
  <2> HIDE DEF decorated
  <2>6. Clean(decorated)
      BY <2>4, <2>5 DEF Clean
  <2> QED
      BY <2>3, <2>6 DEF IsText
<1>5. /\ IsText(Decorate(value, text, <<"TITLE", "sp">> \o text))
      /\ IsText(Decorate(value, text, <<"PREFIX">> \o text \o <<"SUFFIX">>))
  <2>1. /\ <<"TITLE", "sp">> \in Seq(Marks) /\ <<>> \in Seq(Marks)
        /\ <<"PREFIX">> \in Seq(Marks) /\ <<"SUFFIX">> \in Seq(Marks)
      BY DEF Marks, Decoration
  <2>2. <<"TITLE", "sp">> \o text \o <<>> = <<"TITLE", "sp">> \o text
    <3>1. text \in Seq(Words) /\ <<"TITLE", "sp">> \in Seq(Words)
        BY <1>2, <2>1, SeqMonotonic DEF Words, IsText
    <3> QED
        BY <3>1
  <2> QED
      BY <1>4, <2>1, <2>2
<1>6. value.kind = "list" => IsText(JoinBlocks(value.items))
    BY JoinBlocksIs DEF IsText, Clean, Sound
<1>7. op.op = "optional" => IsText(op.empty)
    BY UserTextIs
<1> HIDE DEF text
<1> QED
    BY <1>1, <1>2, <1>3, <1>4, <1>5, <1>6, <1>7 DEF Transform, text
(* policy.then(other)...: one transform after the other. *)
LEMMA ApplyIs ==
  ASSUME NEW value, Sound(value), NEW objectText, UserText(objectText),
         NEW chain, IsPolicy(chain)
  PROVE  IsText(Apply(chain, value, objectText))
<1> DEFINE Accepted == {text \in Seq(Words) : Clean(text)}
           Values == {value} \cup {[kind |-> "text", text |-> text] : text \in Accepted}
           Then(n, v) == IF v.kind = "text" /\ v.text = <<"error">> THEN v
                         ELSE [kind |-> "text", text |-> Transform(chain[n], v, objectText)]
           step == [p \in (1 .. Len(chain)) \X Values |-> Then(p[1], p[2])]
           Eq(f) == f = [n \in 0 .. Len(chain) |-> IF n = 0 THEN value ELSE Then(n, f[n - 1])]
<1>1. Len(chain) \in Nat \ {0} /\ DOMAIN chain = 1 .. Len(chain)
    BY DEF IsPolicy
<1>2. value \in Values
    OBVIOUS
<1>3. ASSUME NEW n \in 1 .. Len(chain), NEW v \in Values
      PROVE  Then(n, v) \in Values /\ IsText(Then(n, v).text)
  <2>1. Sound(v)
    <3>1. CASE v = value
        BY <3>1
    <3>2. ASSUME NEW text \in Accepted, v = [kind |-> "text", text |-> text]
          PROVE  Sound(v)
      <4>1. v.kind = "text" /\ v.text = text
          BY <3>2
      <4> QED
          BY <4>1 DEF Sound, IsText
    <3> QED
        BY <3>1, <3>2
  <2>2. IsText(Transform(chain[n], v, objectText))
      BY <1>1, <2>1, TransformIs DEF IsPolicy
  <2>3. CASE v.kind = "text" /\ v.text = <<"error">>
      BY <2>1, <2>3 DEF Sound
  <2>4. CASE ~ (v.kind = "text" /\ v.text = <<"error">>)
    <3>1. Then(n, v) = [kind |-> "text", text |-> Transform(chain[n], v, objectText)]
        BY <2>4
    <3>2. Transform(chain[n], v, objectText) \in Accepted
        BY <2>2 DEF IsText
    <3> HIDE DEF Then, Accepted
    <3> QED
        BY <2>2, <3>1, <3>2
  <2> QED
      BY <2>3, <2>4
<1> HIDE DEF Values, Then
<1>4. \A n \in 1 .. Len(chain), v \in Values : step[<<n, v>>] = Then(n, v)
    OBVIOUS
<1> HIDE DEF step
<1>5. \E f : Eq(f)
  <2>1. \A n \in 1 .. Len(chain), v \in Values : step[<<n, v>>] \in Values
      BY <1>3, <1>4
  <2>2. PICK f : Iterates(f, Len(chain), Values, value, step)
      BY <1>1, <1>2, <2>1, IterationExists
  <2>3. ASSUME NEW n \in 0 .. Len(chain)
        PROVE  f[n] = IF n = 0 THEN value ELSE Then(n, f[n - 1])
    <3>1. CASE n = 0
        BY <2>2, <3>1 DEF Iterates
    <3>2. CASE n # 0
      <4>1. n \in 1 .. Len(chain) /\ n - 1 \in 0 .. Len(chain)
          BY <1>1, <3>2
      <4>2. f[n - 1] \in Values /\ f[n] = step[<<n, f[n - 1]>>]
          BY <2>2, <4>1 DEF Iterates
      <4> QED
          BY <1>4, <3>2, <4>1, <4>2
    <3> QED
        BY <3>1, <3>2
  <2> QED
      BY <2>2, <2>3 DEF Iterates
<1> DEFINE after == CHOOSE f : Eq(f)
<1>6. Eq(after)
    BY <1>5
<1>7. Apply(chain, value, objectText) = after[Len(chain)].text
    BY DEF Apply, Then
<1> HIDE DEF after
<1>8. ASSUME NEW n \in 1 .. Len(chain) PROVE after[n] = Then(n, after[n - 1])
  <2>1. n \in 0 .. Len(chain) /\ n # 0
      BY <1>1
  <2> QED
      BY <1>6, <2>1, Zenon
<1>9. \A n \in 0 .. Len(chain) : after[n] \in Values
  <2> DEFINE S == {n \in 0 .. Len(chain) : after[n] \in Values}
  <2>1. 0 \in S
      BY <1>1, <1>2, <1>6
  <2>2. ASSUME NEW n \in 1 .. Len(chain), n - 1 \in S PROVE n \in S
    <3>1. after[n - 1] \in Values /\ n \in 0 .. Len(chain)
        BY <2>2
    <3> QED
        BY <1>3, <1>8, <3>1
  <2> HIDE DEF S
  <2>3. \A n \in 0 .. Len(chain) : n \in S
      BY <1>1, <2>1, <2>2, InductionUpTo
  <2> QED
      BY <2>3 DEF S
<1>10. Len(chain) \in 1 .. Len(chain) /\ Len(chain) - 1 \in 0 .. Len(chain)
    BY <1>1
<1> QED
    BY <1>3, <1>7, <1>8, <1>9, <1>10

(* The text a field is replaced by. *)
LEMMA FieldText ==
  ASSUME policies \in PolicyMaps, object \in ObjectTexts,
         NEW values, Typed(values), NEW f
  PROVE  IsText(Apply(PolicyOf(f), ValueOf(values, f), object))
<1>1. UserText(object)
    BY TemplatesAssumption
<1>2. Sound(ValueOf(values, f))
    BY ValueIsSound DEF Typed, ValueOf, None, IsValue
<1>3. IsPolicy(PolicyOf(f))
  <2>1. IsPolicy(DefaultPolicy)
    <3>1. UserText(<<>>)
        BY DEF UserText, Seqs!ToSet
    <3> QED
        BY <3>1 DEF IsPolicy, DefaultPolicy
  <2> QED
      BY <2>1, TemplatesAssumption DEF PolicyOf
<1> QED
    BY <1>1, <1>2, <1>3, ApplyIs
-----------------------------------------------------------------------------
(* How often a token is in a text put together from parts. *)

LEMMA OccurrencesFinite ==
  ASSUME NEW T, NEW text \in Seq(T), NEW token
  PROVE  /\ IsFiniteSet(Occurrences(text, token)) /\ Cardinality(Occurrences(text, token)) \in Nat
         /\ Occurrences(text, token) \subseteq 1 .. Len(text)
<1>1. Occurrences(text, token) \in SUBSET (1 .. Len(text)) /\ 1 \in Int /\ Len(text) \in Int
    BY DEF Occurrences
<1> QED
    BY <1>1, FS_Interval, FS_Subset, FS_CardinalityType

(* Sets that are images of each other under an injection. *)
LEMMA SameSize ==
  ASSUME NEW S, NEW R, IsFiniteSet(S), NEW f \in [S -> R],
         \A x, y \in S : f[x] = f[y] => x = y, \A z \in R : \E x \in S : f[x] = z
  PROVE  IsFiniteSet(R) /\ Cardinality(R) = Cardinality(S)
<1>1. f \in Bijection(S, R)
    BY DEF Bijection, Injection, Surjection, IsInjective
<1>2. ExistsBijection(S, R)
    BY <1>1 DEF ExistsBijection
<1> QED
    BY <1>2, FS_Bijection

LEMMA DisjointUnion ==
  ASSUME NEW S, NEW R, IsFiniteSet(S), IsFiniteSet(R), S \cap R = {}
  PROVE  /\ IsFiniteSet(S \cup R)
         /\ Cardinality(S \cup R) = Cardinality(S) + Cardinality(R)
<1>1. Cardinality(S \cap R) = 0
    BY FS_EmptySet
<1>2. /\ IsFiniteSet(S \cup R)
      /\ Cardinality(S \cup R) = Cardinality(S) + Cardinality(R) - Cardinality(S \cap R)
    BY FS_Union
<1>3. Cardinality(S) \in Nat /\ Cardinality(R) \in Nat
    BY FS_CardinalityType
<1> QED
    BY <1>1, <1>2, <1>3

LEMMA OccurrencesJoined ==
  ASSUME NEW T, NEW a \in Seq(T), NEW b \in Seq(T), NEW token
  PROVE  Cardinality(Occurrences(a \o b, token)) =
             Cardinality(Occurrences(a, token)) + Cardinality(Occurrences(b, token))
<1> DEFINE shift == [k \in Occurrences(b, token) |-> Len(a) + k]
           Later == {Len(a) + k : k \in Occurrences(b, token)}
<1>1. /\ Len(a) \in Nat /\ Len(b) \in Nat
      /\ DOMAIN a = 1 .. Len(a) /\ DOMAIN b = 1 .. Len(b)
      /\ DOMAIN (a \o b) = 1 .. Len(a) + Len(b)
      /\ \A i \in 1 .. Len(a) : (a \o b)[i] = a[i]
      /\ \A i \in 1 .. Len(b) : (a \o b)[Len(a) + i] = b[i]
  <2>1. Len(a \o b) = Len(a) + Len(b) /\ a \o b \in Seq(T) /\ Len(a) \in Nat /\ Len(b) \in Nat
      OBVIOUS
  <2> QED
      BY <2>1
<1>2. \A k \in Occurrences(b, token) : k \in 1 .. Len(b) /\ b[k] = token
    BY <1>1 DEF Occurrences
<1>3. \A k \in Occurrences(a, token) : k \in 1 .. Len(a) /\ a[k] = token
    BY <1>1 DEF Occurrences
<1>4. Cardinality(Later) = Cardinality(Occurrences(b, token)) /\ IsFiniteSet(Later)
  <2>1. /\ shift \in [Occurrences(b, token) -> Later]
        /\ \A z \in Later : \E x \in Occurrences(b, token) : shift[x] = z
      OBVIOUS
  <2>2. \A x, y \in Occurrences(b, token) : shift[x] = shift[y] => x = y
      BY <1>1, <1>2
  <2> HIDE DEF shift, Later
  <2> QED
      BY <2>1, <2>2, SameSize, OccurrencesFinite
<1>5. Occurrences(a, token) \cap Later = {}
    BY <1>1, <1>2, <1>3
<1>6. Occurrences(a \o b, token) = Occurrences(a, token) \cup Later
  <2>1. ASSUME NEW k \in Occurrences(a \o b, token)
        PROVE  k \in Occurrences(a, token) \cup Later
    <3>1. k \in 1 .. Len(a) + Len(b) /\ (a \o b)[k] = token
        BY <1>1 DEF Occurrences
    <3>2. CASE k <= Len(a)
        BY <1>1, <3>1, <3>2 DEF Occurrences
    <3>3. CASE k > Len(a)
      <4> DEFINE i == k - Len(a)
      <4>1. i \in 1 .. Len(b) /\ Len(a) + i = k
          BY <1>1, <3>1, <3>3
      <4> HIDE DEF i
      <4>2. b[i] = token
          BY <1>1, <3>1, <4>1
      <4>3. i \in Occurrences(b, token)
          BY <1>1, <4>1, <4>2 DEF Occurrences
      <4> QED
          BY <4>1, <4>3
    <3> QED
        BY <1>1, <3>1, <3>2, <3>3
  <2>2. ASSUME NEW k \in Occurrences(a, token)
        PROVE  k \in Occurrences(a \o b, token)
    <3>1. k \in 1 .. Len(a) /\ k \in 1 .. Len(a) + Len(b)
        BY <1>1, <1>3
    <3> QED
        BY <1>1, <1>3, <3>1 DEF Occurrences
  <2>3. ASSUME NEW k \in Occurrences(b, token)
        PROVE  Len(a) + k \in Occurrences(a \o b, token)
    <3>1. k \in 1 .. Len(b) /\ Len(a) + k \in 1 .. Len(a) + Len(b)
        BY <1>1, <1>2
    <3> QED
        BY <1>1, <1>2, <3>1 DEF Occurrences
  <2> QED
      BY <2>1, <2>2, <2>3
<1> HIDE DEF Later
<1> QED
    BY <1>4, <1>5, <1>6, DisjointUnion, OccurrencesFinite

(* A text put together from parts has a token as often as its parts do. *)
LEMMA FlattenedOccurrences ==
  ASSUME NEW T, NEW parts \in Seq(Seq(T)), NEW token
  PROVE  Cardinality(Occurrences(Seqs!FlattenSeq(parts), token)) =
             Cardinality(UNION {{n} \X Occurrences(parts[n], token) : n \in DOMAIN parts})
<1> DEFINE m == Len(parts)
           Upto(i) == UNION {{n} \X Occurrences(parts[n], token) : n \in 1 .. i}
<1>1. m \in Nat /\ DOMAIN parts = 1 .. m /\ \A n \in 1 .. m : parts[n] \in Seq(T)
    OBVIOUS
<1>2. ASSUME NEW n \in 1 .. m
      PROVE  /\ IsFiniteSet({n} \X Occurrences(parts[n], token))
             /\ Cardinality({n} \X Occurrences(parts[n], token)) =
                    Cardinality(Occurrences(parts[n], token))
  <2> DEFINE pair == [k \in Occurrences(parts[n], token) |-> <<n, k>>]
             S == Occurrences(parts[n], token)
             R == {n} \X S
  <2>1. IsFiniteSet(S)
      BY <1>1, OccurrencesFinite
  <2>2. pair \in [S -> R] /\ \A x, y \in S : pair[x] = pair[y] => x = y
      OBVIOUS
  <2>3. \A z \in R : \E x \in S : pair[x] = z
      OBVIOUS
  <2> HIDE DEF pair, S, R
  <2>4. IsFiniteSet(R) /\ Cardinality(R) = Cardinality(S)
      BY <2>1, <2>2, <2>3, SameSize
  <2> QED
      BY <2>4 DEF R, S
<1> HIDE DEF m
<1>3. CASE m = 0
  <2>1. Seqs!FlattenSeq(parts) = parts /\ DOMAIN parts = {}
      BY <1>1, <1>3 DEF Seqs!FlattenSeq, m
  <2>2. Occurrences(parts, token) = {}
      BY <2>1 DEF Occurrences
  <2>3. UNION {{n} \X Occurrences(parts[n], token) : n \in DOMAIN parts} = {}
      BY <2>1
  <2> QED
      BY <2>1, <2>2, <2>3
<1>4. CASE m # 0
  <2> DEFINE Eq(f) == f = [i \in 1 .. m |-> IF i = 1 THEN parts[i] ELSE f[i - 1] \o parts[i]]
             flatten == CHOOSE f : Eq(f)
  <2>1. Seqs!FlattenSeq(parts) = flatten[m]
      BY <1>4 DEF Seqs!FlattenSeq, m
  <2>2. \E f : Eq(f)
    <3> DEFINE step == [p \in (1 .. m) \X Seq(T) |-> p[2] \o parts[p[1]]]
    <3>1. ASSUME NEW i \in 1 .. m, NEW text \in Seq(T)
          PROVE  step[<<i, text>>] = text \o parts[i] /\ step[<<i, text>>] \in Seq(T)
      <4>1. step[<<i, text>>] = text \o parts[i]
          OBVIOUS
      <4>2. text \o parts[i] \in Seq(T)
          BY <1>1
      <4> QED
          BY <4>1, <4>2
    <3> HIDE DEF step
    <3>2. PICK g : Iterates(g, m, Seq(T), <<>>, step)
        BY <1>1, <3>1, IterationExists, <<>> \in Seq(T)
    <3> DEFINE f == [i \in 1 .. m |-> g[i]]
    <3>3. ASSUME NEW i \in 1 .. m
          PROVE  f[i] = IF i = 1 THEN parts[i] ELSE f[i - 1] \o parts[i]
      <4>1. /\ i - 1 \in 0 .. m /\ g[i - 1] \in Seq(T) /\ g[i] = step[<<i, g[i - 1]>>]
            /\ g[0] = <<>>
          BY <1>1, <3>2 DEF Iterates
      <4>2. g[i] = g[i - 1] \o parts[i]
          BY <3>1, <4>1
      <4>3. CASE i = 1
        <5>1. <<>> \o parts[1] = parts[1]
            BY <1>1, <4>3, ConcatEmptySeq
        <5>2. g[1] = parts[1]
          <6>1. g[i - 1] = <<>>
              BY <4>1, <4>3
          <6> QED
              BY <4>2, <4>3, <5>1, <6>1
        <5>3. f[i] = g[i]
            OBVIOUS
        <5> QED
            BY <4>3, <5>2, <5>3
      <4>4. CASE i # 1
        <5>1. i - 1 \in 1 .. m
            BY <1>1, <4>4
        <5> QED
            BY <4>2, <4>4, <5>1
      <4> QED
          BY <4>3, <4>4
    <3>4. f = [i \in 1 .. m |-> IF i = 1 THEN parts[i] ELSE f[i - 1] \o parts[i]]
        BY <3>3, Zenon
    <3> QED
        BY <3>4
  <2>3. Eq(flatten)
      BY <2>2
  <2> HIDE DEF flatten
  <2>4. flatten[1] = parts[1]
    <3>1. 1 \in 1 .. m
        BY <1>1, <1>4
    <3> QED
        BY <2>3, <3>1
  <2>5. ASSUME NEW i \in 1 .. m, i # 1 PROVE flatten[i] = flatten[i - 1] \o parts[i]
      BY <2>3, <2>5, Zenon
  <2> HIDE DEF Eq
  <2> DEFINE S == {i \in 0 .. m : i # 0 =>
                      /\ flatten[i] \in Seq(T) /\ IsFiniteSet(Upto(i))
                      /\ Cardinality(Occurrences(flatten[i], token)) = Cardinality(Upto(i))}
  <2>6. 0 \in S
      BY <1>1
  <2>7. ASSUME NEW i \in 1 .. m, i - 1 \in S PROVE i \in S
    <3>1. Upto(i) = Upto(i - 1) \cup ({i} \X Occurrences(parts[i], token))
      <4>1. 1 .. i = (1 .. (i - 1)) \cup {i}
          BY <1>1
      <4> QED
          BY <4>1
    <3>2. Upto(i - 1) \cap ({i} \X Occurrences(parts[i], token)) = {}
      <4>1. i \notin 1 .. (i - 1)
          BY <1>1
      <4> QED
          BY <4>1
    <3>3. CASE i = 1
      <4>1. Upto(1) = {1} \X Occurrences(parts[1], token)
        <5>1. 1 .. 1 = {1}
            OBVIOUS
        <5> QED
            BY <5>1
      <4> HIDE DEF Upto
      <4>2. 1 \in 1 .. m
          BY <1>1, <1>4
      <4> QED
          BY <1>1, <1>2, <2>4, <3>3, <4>1, <4>2
    <3>4. CASE i # 1
      <4>1. /\ flatten[i - 1] \in Seq(T) /\ IsFiniteSet(Upto(i - 1))
            /\ Cardinality(Occurrences(flatten[i - 1], token)) = Cardinality(Upto(i - 1))
          BY <1>1, <2>7, <3>4
      <4>2. flatten[i] = flatten[i - 1] \o parts[i] /\ parts[i] \in Seq(T)
          BY <1>1, <2>5, <3>4
      <4> HIDE DEF Upto
      <4>3. flatten[i] \in Seq(T)
          BY <4>1, <4>2
      <4>4. Cardinality(Occurrences(flatten[i], token)) =
                Cardinality(Occurrences(flatten[i - 1], token)) +
                    Cardinality(Occurrences(parts[i], token))
          BY <4>1, <4>2, OccurrencesJoined
      <4>5. /\ IsFiniteSet(Upto(i))
            /\ Cardinality(Upto(i)) =
                   Cardinality(Upto(i - 1)) + Cardinality({i} \X Occurrences(parts[i], token))
        <5>1. IsFiniteSet({i} \X Occurrences(parts[i], token))
            BY <1>2
        <5> DEFINE before == Upto(i - 1)
                   part == {i} \X Occurrences(parts[i], token)
        <5>2. Upto(i) = before \cup part /\ before \cap part = {}
            BY <3>1, <3>2
        <5>3. IsFiniteSet(before) /\ IsFiniteSet(part)
            BY <4>1, <5>1
        <5> HIDE DEF before, part
        <5>4. /\ IsFiniteSet(Upto(i))
              /\ Cardinality(Upto(i)) = Cardinality(before) + Cardinality(part)
            BY <5>2, <5>3, DisjointUnion
        <5> QED
            BY <5>4 DEF before, part
      <4>6. Cardinality(Occurrences(flatten[i], token)) = Cardinality(Upto(i))
          BY <1>2, <4>1, <4>4, <4>5
      <4> QED
          BY <4>3, <4>5, <4>6
    <3> QED
        BY <3>3, <3>4
  <2>8. m \in S
    <3> HIDE DEF S
    <3>1. \A i \in 0 .. m : i \in S
        BY <1>1, <2>6, <2>7, InductionUpTo
    <3> QED
        BY <1>1, <3>1
  <2>9. Upto(m) = UNION {{n} \X Occurrences(parts[n], token) : n \in DOMAIN parts}
      BY <1>1
  <2> HIDE DEF Upto
  <2> QED
      BY <1>4, <2>1, <2>8, <2>9
<1> QED
    BY <1>3, <1>4

-----------------------------------------------------------------------------
(* The state of PromptTemplates is as its histories say: TemplateInv is an     *)
(* invariant of every derivation, library and rendering.                       *)
THEOREM TemplateInvariance == TemplateSpec => []TemplateInv
<1> QED
    BY TemplateInitInv, TemplateStep, PTL DEF TemplateSpec

(* Templates and renders use for each field what the last operation on it      *)
(* said (PromptTemplate._bind, with_values, without_values, clear_values,      *)
(* render), whatever the caller's mapping has become since.                    *)
THEOREM LastBindings == TemplateSpec => []LastBindingWins
<1>1. TemplateInv => LastBindingWins
    BY DEF TemplateInv, HistoryInv, ResultInv, LastBindingWins, Held, Renders
<1> QED
    BY <1>1, TemplateInvariance, PTL

(* A rendered text holds every token as often as the parts of the template     *)
(* give it, each rendered by itself: _render_parts never reads a value, or an  *)
(* escaped brace, as a placeholder.                                            *)
THEOREM ValuesStayText == TemplateSpec => []ValuesAreNeverTemplates
<1>1. ASSUME TemplateInv PROVE ValuesAreNeverTemplates
  <2> SUFFICES ASSUME result.call \in Renders, result.outcome.error = "none", NEW token
               PROVE  Cardinality(Occurrences(result.outcome.text, token)) =
                          Supplied(token, result.values, result.call)
      BY DEF ValuesAreNeverTemplates, Renders
  <2> DEFINE values == result.values
             partial == result.call = "partial"
             parts == Parts(values, partial)
             T == Words \cup {source[n].text : n \in DOMAIN source}
                        \cup {Braced(source[n].text) : n \in DOMAIN source}
  <2>1. Typed(values) /\ result.outcome = Outcome(values, result.call)
      BY <1>1 DEF TemplateInv, ResultInv
  <2>2. result.outcome.text = RenderParts(values, partial)
      BY <2>1 DEF Outcome
  <2>3. parts \in Seq(Seq(T))
    <3>1. Len(source) \in Nat /\ DOMAIN source = 1 .. Len(source)
        BY <1>1, TemplatesAssumption DEF TemplateInv, InputInv
    <3>2. ASSUME NEW n \in DOMAIN source PROVE PartOf(source[n], values, partial) \in Seq(T)
      <4>1. source[n].text \in T /\ Braced(source[n].text) \in T
          OBVIOUS
      <4>2. Apply(PolicyOf(source[n].text), ValueOf(values, source[n].text), object) \in Seq(Words)
          BY <1>1, <2>1, FieldText DEF TemplateInv, InputInv, IsText
      <4>3. Words \subseteq T
          OBVIOUS
      <4> HIDE DEF T, values, partial
      <4>4. Apply(PolicyOf(source[n].text), ValueOf(values, source[n].text), object) \in Seq(T)
          BY <4>2, <4>3, SeqMonotonic
      <4> QED
          BY <4>1, <4>4 DEF PartOf
    <3> HIDE DEF T, values, partial
    <3>3. parts = [n \in 1 .. Len(source) |-> PartOf(source[n], values, partial)]
        BY <3>1 DEF Parts
    <3> QED
        BY <3>1, <3>2, <3>3
  <2> HIDE DEF T, values, partial
  <2>4. Cardinality(Occurrences(Seqs!FlattenSeq(parts), token)) =
            Cardinality(UNION {{n} \X Occurrences(parts[n], token) : n \in DOMAIN parts})
      BY <2>3, FlattenedOccurrences
  <2> QED
      BY <2>2, <2>4 DEF RenderParts, Supplied, values, partial
<1> QED
    BY <1>1, TemplateInvariance, PTL

(* Whatever the chain of policies and the values, a field's text has a title   *)
(* or wrapper only with a word (header, wrap and the other policies).          *)
THEOREM NoDecorationAlone == TemplateSpec => []NoOrphanDecoration
<1>1. ASSUME TemplateInv PROVE NoOrphanDecoration
  <2> SUFFICES ASSUME result.call \in Renders, NEW f
               PROVE  LET text == Apply(PolicyOf(f), ValueOf(result.values, f), object)
                      IN Seqs!ToSet(text) \cap Decoration # {} =>
                            Seqs!ToSet(text) \ (Decoration \cup {"sp"}) # {}
      BY DEF NoOrphanDecoration, Renders
  <2> DEFINE text == Apply(PolicyOf(f), ValueOf(result.values, f), object)
  <2>1. IsText(text)
      BY <1>1, FieldText DEF TemplateInv, InputInv, ResultInv
  <2> HIDE DEF text
  <2>2. /\ \A n \in DOMAIN text : text[n] \in Seqs!ToSet(text)
        /\ \A word \in Seqs!ToSet(text) : \E n \in DOMAIN text : text[n] = word
      BY DEF Seqs!ToSet
  <2>3. Seqs!ToSet(text) \cap Decoration # {} =>
            Seqs!ToSet(text) \ (Decoration \cup {"sp"}) # {}
      BY <2>1, <2>2 DEF IsText, Clean, Plain
  <2> QED
      BY <2>3 DEF text
<1> QED
    BY <1>1, TemplateInvariance, PTL

-----------------------------------------------------------------------------
(* Prompts: what is proved of one part holds where both are at hand.          *)

(* Whoever uses a session uses it by its own steps, and compile() ends in it.  *)
THEOREM PromptsContainSessions == PromptSpec => Spec
<1>1. [UseSession \/ UseTemplates]_promptVars => [Next]_vars
    BY DEF UseSession, UseTemplates, promptVars
<1>2. PromptInit => Init
    BY DEF PromptInit
<1> QED
    BY <1>1, <1>2, PTL DEF PromptSpec, Spec

(* And templates by theirs. *)
THEOREM PromptsContainTemplates == PromptSpec => TemplateSpec
<1>1. [UseSession \/ UseTemplates]_promptVars => [TemplateNext]_templateVars
    BY DEF UseSession, UseTemplates, promptVars
<1>2. PromptInit => TemplateInit
    BY DEF PromptInit
<1> QED
    BY <1>1, <1>2, PTL DEF PromptSpec, TemplateSpec
=============================================================================
