---------------------------- MODULE Reminders_proof ----------------------------
(***************************************************************************)
(* Lemmas about Reminders, for the proofs about the modules that use it:   *)
(* what Selected returns and preserves, and with it how a prompt session   *)
(* keeps and consumes reminders.                                           *)
(***************************************************************************)
EXTENDS Reminders, SequenceTheorems, WellFoundedInduction, TLAPS

(* Induction over the natural numbers, for a set of them.                      *)
LEMMA SetInduction ==
  ASSUME NEW S, 0 \in S, \A n \in Nat : n \in S => n + 1 \in S
  PROVE  \A n \in Nat : n \in S
<1> DEFINE Rest == Nat \ S
<1> SUFFICES ASSUME Rest # {} PROVE FALSE
    OBVIOUS
<1>1. PICK n \in Rest : \A m \in Rest : ~ (<<m, n>> \in OpToRel(<, Nat))
  <2>1. Rest \subseteq Nat
      OBVIOUS
  <2> HIDE DEF Rest
  <2> QED
      BY <2>1, NatLessThanWellFounded, WFMin, Zenon
<1>2. \A m \in Rest : ~ (m < n)
    BY <1>1 DEF OpToRel
<1>3. n # 0 /\ n - 1 \in Nat /\ n - 1 \notin Rest
    BY <1>2
<1> QED
    BY <1>3

(* Induction over the sequences of elements of T, from the left, for a set.    *)
LEMMA SequenceInduction ==
  ASSUME NEW T, NEW P, <<>> \in P,
         \A s \in Seq(T), e \in T : s \in P => Append(s, e) \in P
  PROVE  \A s \in Seq(T) : s \in P
<1> DEFINE Good == {n \in Nat : \A s \in Seq(T) : Len(s) = n => s \in P}
<1>1. 0 \in Good
    BY EmptySeq
<1>2. ASSUME NEW n \in Nat, n \in Good
      PROVE  n + 1 \in Good
  <2> SUFFICES ASSUME NEW s \in Seq(T), Len(s) = n + 1
               PROVE  s \in P
      OBVIOUS
  <2> DEFINE front == SubSeq(s, 1, n)
  <2>1. front \in Seq(T) /\ Len(front) = n /\ s[n + 1] \in T
      BY SubSeqProperties
  <2>2. s = Append(front, s[n + 1])
      BY <2>1
  <2> HIDE DEF front
  <2> QED
      BY <1>2, <2>1, <2>2
<1> HIDE DEF Good
<1>3. \A n \in Nat : n \in Good
    BY <1>1, <1>2, SetInduction
<1> QED
    BY <1>3 DEF Good

-----------------------------------------------------------------------------
(* Selected. *)

(* The recursive function in its definition, up to n.                          *)
Selects(upto, s, S, n) ==
    upto = [i \in 0 .. n |->
               IF i = 0 THEN <<>>
               ELSE IF s[i] \in S THEN Append(upto[i - 1], s[i]) ELSE upto[i - 1]]

LEMMA SelectionExists ==
  ASSUME NEW s, NEW S
  PROVE  \A n \in Nat : \E upto : Selects(upto, s, S, n)
<1> DEFINE Good == {n \in Nat : \E upto : Selects(upto, s, S, n)}
<1>1. 0 \in Good
  <2>1. Selects([i \in 0 .. 0 |-> <<>>], s, S, 0)
      BY DEF Selects
  <2> QED
      BY <2>1
<1>2. ASSUME NEW n \in Nat, n \in Good
      PROVE  n + 1 \in Good
  <2>1. PICK upto : Selects(upto, s, S, n)
      BY <1>2
  <2> DEFINE last == IF s[n + 1] \in S THEN Append(upto[n], s[n + 1]) ELSE upto[n]
             longer == [i \in 0 .. n + 1 |-> IF i = n + 1 THEN last ELSE upto[i]]
  <2>2. \A i \in 0 .. n : longer[i] = upto[i]
      OBVIOUS
  <2>3. longer[n + 1] = last
      OBVIOUS
  <2>4. \A i \in 1 .. n : upto[i] = IF s[i] \in S THEN Append(upto[i - 1], s[i]) ELSE upto[i - 1]
    <3> SUFFICES ASSUME NEW i \in 1 .. n
                 PROVE  upto[i] = IF s[i] \in S THEN Append(upto[i - 1], s[i]) ELSE upto[i - 1]
        OBVIOUS
    <3>1. i \in 0 .. n /\ i # 0
        OBVIOUS
    <3> QED
        BY <2>1, <3>1 DEF Selects
  <2>5. upto[0] = <<>>
      BY <2>1 DEF Selects
  <2>6. longer = [i \in 0 .. n + 1 |-> longer[i]]
      OBVIOUS
  <2> HIDE DEF last, longer
  <2>7. \A i \in 0 .. n + 1 :
           longer[i] = IF i = 0 THEN <<>>
                       ELSE IF s[i] \in S THEN Append(longer[i - 1], s[i]) ELSE longer[i - 1]
    <3> SUFFICES ASSUME NEW i \in 0 .. n + 1
                 PROVE  longer[i] = IF i = 0 THEN <<>>
                                    ELSE IF s[i] \in S THEN Append(longer[i - 1], s[i])
                                    ELSE longer[i - 1]
        OBVIOUS
    <3>1. CASE i = 0
        BY <3>1, <2>2, <2>5
    <3>2. CASE i = n + 1
        BY <3>2, <2>2, <2>3 DEF last
    <3>3. CASE i \in 1 .. n
      <4>1. i - 1 \in 0 .. n /\ i \in 0 .. n
          BY <3>3
      <4> QED
          BY <3>3, <4>1, <2>2, <2>4
    <3> QED
        BY <3>1, <3>2, <3>3
  <2>8. Selects(longer, s, S, n + 1)
      BY <2>6, <2>7 DEF Selects
  <2> QED
      BY <2>8
<1> HIDE DEF Good
<1>3. \A n \in Nat : n \in Good
    BY <1>1, <1>2, SetInduction
<1> QED
    BY <1>3 DEF Good

LEMMA SelectedSelects ==
  ASSUME NEW s, NEW S, Len(s) \in Nat
  PROVE  \E upto : Selects(upto, s, S, Len(s)) /\ Selected(s, S) = upto[Len(s)]
<1> DEFINE upto == CHOOSE g : Selects(g, s, S, Len(s))
<1>1. Selects(upto, s, S, Len(s))
    BY SelectionExists
<1>2. Selected(s, S) = upto[Len(s)]
    BY DEF Selected, Selects
<1> QED
    BY <1>1, <1>2

LEMMA SelectedEmpty == ASSUME NEW S PROVE Selected(<<>>, S) = <<>>
<1>1. PICK upto : Selects(upto, <<>>, S, 0) /\ Selected(<<>>, S) = upto[0]
    BY SelectedSelects
<1> QED
    BY <1>1 DEF Selects

(* An item appended is selected or not, and changes nothing before it.         *)
LEMMA SelectedAppend ==
  ASSUME NEW T, NEW S, NEW s \in Seq(T), NEW e \in T
  PROVE  Selected(Append(s, e), S) =
            IF e \in S THEN Append(Selected(s, S), e) ELSE Selected(s, S)
<1> DEFINE more == Append(s, e)
           size == Len(s)
<1>1. /\ size \in Nat /\ Len(more) = size + 1 /\ more[size + 1] = e
      /\ \A i \in 1 .. size : more[i] = s[i]
    OBVIOUS
<1> HIDE DEF more, size
<1>2. PICK short : Selects(short, s, S, size) /\ Selected(s, S) = short[size]
    BY <1>1, SelectedSelects DEF size
<1>3. PICK long : Selects(long, more, S, size + 1) /\ Selected(more, S) = long[size + 1]
    BY <1>1, SelectedSelects
<1> DEFINE Good == {n \in Nat : n <= size => long[n] = short[n]}
<1>4. 0 \in Good
    BY <1>1, <1>2, <1>3 DEF Selects
<1>5. ASSUME NEW n \in Nat, n \in Good
      PROVE  n + 1 \in Good
  <2> SUFFICES ASSUME n + 1 <= size
               PROVE  long[n + 1] = short[n + 1]
      OBVIOUS
  <2> DEFINE i == n + 1
  <2>1. i \in 0 .. size /\ i \in 0 .. size + 1 /\ i # 0 /\ i - 1 = n /\ more[i] = s[i]
      BY <1>1
  <2>2. long[n] = short[n]
      BY <1>5, <1>1
  <2> HIDE DEF i
  <2>3. long[i] = IF more[i] \in S THEN Append(long[i - 1], more[i]) ELSE long[i - 1]
      BY <1>3, <2>1 DEF Selects
  <2>4. short[i] = IF s[i] \in S THEN Append(short[i - 1], s[i]) ELSE short[i - 1]
      BY <1>2, <2>1 DEF Selects
  <2> QED
      BY <2>1, <2>2, <2>3, <2>4 DEF i
<1> HIDE DEF Good
<1>6. size \in Good
    BY <1>1, <1>4, <1>5, SetInduction
<1>7. long[size] = short[size]
    BY <1>1, <1>6 DEF Good
<1>8. long[size + 1] = IF e \in S THEN Append(long[size], e) ELSE long[size]
  <2> DEFINE i == size + 1
  <2>1. i \in 0 .. size + 1 /\ i # 0 /\ i - 1 = size
      BY <1>1
  <2> HIDE DEF i
  <2>2. long[i] = IF more[i] \in S THEN Append(long[i - 1], more[i]) ELSE long[i - 1]
      BY <1>3, <2>1 DEF Selects, i
  <2> QED
      BY <1>1, <2>1, <2>2 DEF i
<1> QED
    BY <1>2, <1>3, <1>7, <1>8 DEF more

LEMMA MembersAppend ==
  ASSUME NEW T, NEW s \in Seq(T), NEW e \in T
  PROVE  Members(Append(s, e)) = Members(s) \cup {e}
<1>1. /\ DOMAIN Append(s, e) = 1 .. Len(s) + 1 /\ DOMAIN s = 1 .. Len(s)
      /\ Len(s) \in Nat
      /\ \A i \in 1 .. Len(s) : Append(s, e)[i] = s[i]
      /\ Append(s, e)[Len(s) + 1] = e
    OBVIOUS
<1> QED
    BY <1>1 DEF Members

LEMMA MembersEmpty == Members(<<>>) = {}
  BY DEF Members

(* What is selected are the items of s in S, all of them.                      *)
LEMMA SelectedMembers ==
  ASSUME NEW T, NEW S, NEW s \in Seq(T)
  PROVE  /\ Selected(s, S) \in Seq(T)
         /\ Members(Selected(s, S)) = Members(s) \cap S
<1> DEFINE Good == {r \in Seq(T) : /\ Selected(r, S) \in Seq(T)
                                   /\ Members(Selected(r, S)) = Members(r) \cap S}
<1>1. <<>> \in Good
    BY SelectedEmpty, MembersEmpty, EmptySeq
<1>2. ASSUME NEW r \in Seq(T), NEW e \in T, r \in Good
      PROVE  Append(r, e) \in Good
  <2> DEFINE more == Append(r, e)
             picked == Selected(r, S)
  <2>1. picked \in Seq(T) /\ Members(picked) = Members(r) \cap S
      BY <1>2
  <2>2. Selected(more, S) = IF e \in S THEN Append(picked, e) ELSE picked
      BY SelectedAppend
  <2>3. more \in Seq(T) /\ Members(more) = Members(r) \cup {e}
      BY MembersAppend
  <2> HIDE DEF more, picked
  <2>4. Selected(more, S) \in Seq(T)
      BY <2>1, <2>2
  <2>5. Members(Selected(more, S)) = Members(more) \cap S
    <3>1. CASE e \in S
        BY <3>1, <2>1, <2>2, <2>3, MembersAppend
    <3>2. CASE e \notin S
        BY <3>2, <2>1, <2>2, <2>3
    <3> QED
        BY <3>1, <3>2
  <2> QED
      BY <2>3, <2>4, <2>5 DEF more
<1> HIDE DEF Good
<1>3. s \in Good
    BY <1>1, <1>2, SequenceInduction
<1> QED
    BY <1>3 DEF Good

(* Only which items of s are in S matters.                                     *)
LEMMA SelectedAgree ==
  ASSUME NEW T, NEW S, NEW U, NEW s \in Seq(T),
         \A e \in Members(s) : e \in S <=> e \in U
  PROVE  Selected(s, S) = Selected(s, U)
<1> DEFINE Agree(r) == \A e \in Members(r) : e \in S <=> e \in U
           Good == {r \in Seq(T) : Agree(r) => Selected(r, S) = Selected(r, U)}
<1>1. <<>> \in Good
    BY SelectedEmpty, EmptySeq
<1>2. ASSUME NEW r \in Seq(T), NEW e \in T, r \in Good
      PROVE  Append(r, e) \in Good
  <2> SUFFICES ASSUME Agree(Append(r, e))
               PROVE  Selected(Append(r, e), S) = Selected(Append(r, e), U)
      OBVIOUS
  <2>1. Agree(r) /\ (e \in S <=> e \in U)
      BY MembersAppend
  <2>2. Selected(r, S) = Selected(r, U)
      BY <1>2, <2>1
  <2>3. Selected(Append(r, e), S) = IF e \in S THEN Append(Selected(r, S), e) ELSE Selected(r, S)
      BY SelectedAppend
  <2>4. Selected(Append(r, e), U) = IF e \in U THEN Append(Selected(r, U), e) ELSE Selected(r, U)
      BY SelectedAppend
  <2> QED
      BY <2>1, <2>2, <2>3, <2>4
<1> HIDE DEF Good
<1>3. s \in Good
    BY <1>1, <1>2, SequenceInduction
<1> QED
    BY <1>3 DEF Good

(* If all are in S, all are selected.                                          *)
LEMMA SelectedAll ==
  ASSUME NEW T, NEW S, NEW s \in Seq(T), Members(s) \subseteq S
  PROVE  Selected(s, S) = s
<1> DEFINE Good == {r \in Seq(T) : Members(r) \subseteq S => Selected(r, S) = r}
<1>1. <<>> \in Good
    BY SelectedEmpty, EmptySeq
<1>2. ASSUME NEW r \in Seq(T), NEW e \in T, r \in Good
      PROVE  Append(r, e) \in Good
  <2> SUFFICES ASSUME Members(Append(r, e)) \subseteq S
               PROVE  Selected(Append(r, e), S) = Append(r, e)
      OBVIOUS
  <2>1. Members(r) \subseteq S /\ e \in S
      BY MembersAppend
  <2> QED
      BY <1>2, <2>1, SelectedAppend
<1> HIDE DEF Good
<1>3. s \in Good
    BY <1>1, <1>2, SequenceInduction
<1> QED
    BY <1>3 DEF Good

(* What is appended after s does not change what is selected from s.           *)
LEMMA SelectedConcat ==
  ASSUME NEW T, NEW S, NEW s \in Seq(T), NEW t \in Seq(T)
  PROVE  Selected(s \o t, S) = Selected(s, S) \o Selected(t, S)
<1> DEFINE Good == {r \in Seq(T) : Selected(s \o r, S) = Selected(s, S) \o Selected(r, S)}
<1>1. <<>> \in Good
  <2>1. Selected(s, S) \in Seq(T)
      BY SelectedMembers
  <2> QED
      BY <2>1, SelectedEmpty, EmptySeq, ConcatEmptySeq
<1>2. ASSUME NEW r \in Seq(T), NEW e \in T, r \in Good
      PROVE  Append(r, e) \in Good
  <2>1. s \o Append(r, e) = Append(s \o r, e) /\ s \o r \in Seq(T) /\ Append(r, e) \in Seq(T)
      OBVIOUS
  <2>2. Selected(s, S) \in Seq(T) /\ Selected(r, S) \in Seq(T)
      BY SelectedMembers
  <2>3. Selected(s \o r, S) = Selected(s, S) \o Selected(r, S)
      BY <1>2
  <2> DEFINE longer == s \o r
             head == Selected(s, S)
             tail == Selected(r, S)
  <2>4. Selected(Append(r, e), S) = IF e \in S THEN Append(tail, e) ELSE tail
      BY SelectedAppend
  <2>5. longer \in Seq(T)
      BY <2>1
  <2> HIDE DEF longer
  <2>6. Selected(Append(longer, e), S) =
           IF e \in S THEN Append(Selected(longer, S), e) ELSE Selected(longer, S)
      BY <2>5, SelectedAppend
  <2> HIDE DEF head, tail
  <2>7. head \o Append(tail, e) = Append(head \o tail, e)
      BY <2>2 DEF head, tail
  <2>8. Selected(s \o Append(r, e), S) = head \o Selected(Append(r, e), S)
      BY <2>1, <2>3, <2>4, <2>6, <2>7 DEF longer, head, tail
  <2> QED
      BY <2>1, <2>8 DEF head
<1> HIDE DEF Good
<1>3. t \in Good
    BY <1>1, <1>2, SequenceInduction
<1> QED
    BY <1>3 DEF Good

-----------------------------------------------------------------------------
(* Reminders and the session of a turn. *)

LEMMA HasScopeMember ==
  ASSUME NEW T, NEW state \in Seq(T), NEW scope
  PROVE  HasScope(state, scope) <=> \E r \in Members(state) : r.scope = scope
  BY DEF HasScope, Members

(* clear(scope) keeps the reminders of the other scopes, and no other.         *)
LEMMA WithoutKeeps ==
  ASSUME NEW T, NEW state \in Seq(T), NEW scope
  PROVE  /\ Without(state, scope) \in Seq(T)
         /\ Members(Without(state, scope)) = {r \in Members(state) : r.scope # scope}
  BY SelectedMembers DEF Without

LEMMA WithoutHasScope ==
  ASSUME NEW T, NEW state \in Seq(T), NEW scope, NEW other
  PROVE  HasScope(Without(state, scope), other) <=> scope # other /\ HasScope(state, other)
<1>1. /\ Without(state, scope) \in Seq(T)
      /\ Members(Without(state, scope)) = {r \in Members(state) : r.scope # scope}
    BY WithoutKeeps
<1>2. HasScope(state, other) <=> \E r \in Members(state) : r.scope = other
    BY HasScopeMember
<1>3. HasScope(Without(state, scope), other)
         <=> \E r \in Members(Without(state, scope)) : r.scope = other
    BY <1>1, HasScopeMember
<1> QED
    BY <1>1, <1>2, <1>3

(* clear(scope) of a state that has no reminder of that scope is that state.   *)
LEMMA WithoutNothing ==
  ASSUME NEW T, NEW state \in Seq(T), NEW scope, ~ HasScope(state, scope)
  PROVE  Without(state, scope) = state
<1>1. Members(state) \subseteq {r \in Members(state) : r.scope # scope}
    BY HasScopeMember
<1> QED
    BY <1>1, SelectedAll DEF Without

(* Accept looks for NEXT_REQUEST reminders among the active ones, and removes   *)
(* them from those that remain: it removes what is there, whenever it is there. *)
LEMMA AcceptConsumes ==
  ASSUME NEW T, NEW session \in [base : Seq(T), remaining : Seq(T)],
         Members(session.remaining) \subseteq Members(session.base)
  PROVE  /\ Accept(session) =
               [session EXCEPT !.remaining = Without(session.remaining, "next_request")]
         /\ HasScope(Active(session), "next_request") <=>
               HasScope(session.remaining, "next_request")
<1> DEFINE left == session.remaining
<1>1. CASE HasScope(left, "next_request")
  <2>1. Active(session) = session.base
      BY <1>1 DEF Active
  <2>2. HasScope(session.base, "next_request")
      BY <1>1, HasScopeMember
  <2> QED
      BY <1>1, <2>1, <2>2 DEF Accept
<1>2. CASE ~ HasScope(left, "next_request")
  <2>1. Active(session) = Without(session.base, "next_request")
      BY <1>2 DEF Active
  <2>2. ~ HasScope(Active(session), "next_request")
      BY <2>1, WithoutHasScope
  <2>3. Without(left, "next_request") = left
      BY <1>2, WithoutNothing
  <2>4. session = [session EXCEPT !.remaining = left]
      OBVIOUS
  <2> QED
      BY <1>2, <2>2, <2>3, <2>4 DEF Accept
<1> QED
    BY <1>1, <1>2
===============================================================================
