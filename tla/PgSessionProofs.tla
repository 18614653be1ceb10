---------------------------- MODULE PgSessionProofs ----------------------------
(***************************************************************************)
(* What the operators of PgSession return and preserve.                     *)
(***************************************************************************)
EXTENDS PgSession, TLAPS

\* At the session level s binds tenant b (or none), in every transaction and
\* savepoint as much as outside: ending any of them leaves it bound to b.
SetsBind(s, b) ==
    /\ BindingOf(s.base) = b
    /\ \A i \in DOMAIN s.levels : BindingOf(s.levels[i].set) = b

-----------------------------------------------------------------------------
\* A session that has just started is one, outside any transaction and unbound.
LEMMA NewSessionFacts ==
    /\ NewSession \in Session
    /\ ~InTx(NewSession)
    /\ SetsBind(NewSession, NoTenant)
BY SentinelAssumption DEF NewSession, Session, Values, InTx, SetsBind, BindingOf

\* Creating the placeholder changes no binding.
LEMMA KnownFacts ==
    ASSUME NEW v \in Values
    PROVE  Known(v) \in Values /\ BindingOf(Known(v)) = BindingOf(v)
BY SentinelAssumption DEF Known, Values, BindingOf

LEMMA KnownLevelsFacts ==
    ASSUME NEW s \in Session
    PROVE  /\ KnownLevels(s) \in Seq(Level)
           /\ Len(KnownLevels(s)) = Len(s.levels)
           /\ \A i \in 1 .. Len(s.levels) :
                 KnownLevels(s)[i] = [set |-> Known(s.levels[i].set),
                                      loc |-> s.levels[i].loc]
<1>1. s.levels \in Seq(Level)
  BY DEF Session
<1>2. ASSUME NEW i \in 1 .. Len(s.levels)
      PROVE  [set |-> Known(s.levels[i].set), loc |-> s.levels[i].loc] \in Level
  <2>0. s.levels[i] \in Level
    BY <1>1
  <2>1. s.levels[i].set \in Values /\ s.levels[i].loc \in Bindings
    BY <2>0 DEF Level
  <2>2. Known(s.levels[i].set) \in Values
    BY <2>1, KnownFacts
  <2> QED
    BY <2>1, <2>2 DEF Level
<1> QED
  BY <1>1, <1>2 DEF KnownLevels

\* Outside a transaction, the value a hook writes is the session's value.
LEMMA WithSessionValueFacts ==
    ASSUME NEW s \in Session, NEW v \in Values, ~InTx(s)
    PROVE  /\ WithSessionValue(s, v) \in Session
           /\ ~InTx(WithSessionValue(s, v))
           /\ SetsBind(WithSessionValue(s, v), BindingOf(v))
BY DEF WithSessionValue, Session, InTx, SetsBind

\* set_config(.., true) binds the innermost level and only locally.
LEMMA SetLocalFacts ==
    ASSUME NEW s \in Session, NEW tenant \in Bindings, InTx(s)
    PROVE  /\ SetLocal(s, tenant) \in Session
           /\ InTx(SetLocal(s, tenant))
           /\ tenant # NoTenant => Visible(SetLocal(s, tenant)) = tenant
           /\ \A b : SetsBind(s, b) => SetsBind(SetLocal(s, tenant), b)
<1> DEFINE n == Len(s.levels)
           top == [set |-> Known(Top(s).set), loc |-> tenant]
           lv == [KnownLevels(s) EXCEPT ![n] = top]
<1>1. s.levels \in Seq(Level) /\ n \in Nat /\ n > 0
  BY DEF Session, InTx
<1>2. Top(s) \in Level
  BY <1>1 DEF Top
<1>3. top \in Level
  BY <1>2, KnownFacts DEF Level, Bindings
<1>4. lv \in Seq(Level) /\ Len(lv) = n /\ lv[n] = top
  BY <1>1, <1>3, KnownLevelsFacts
<1>5. \A i \in 1 .. n : lv[i].set = Known(s.levels[i].set)
  <2> SUFFICES ASSUME NEW i \in 1 .. n
               PROVE  lv[i].set = Known(s.levels[i].set)
    OBVIOUS
  <2>1. KnownLevels(s)[i].set = Known(s.levels[i].set)
    <3>1. KnownLevels(s)[i] = [set |-> Known(s.levels[i].set),
                               loc |-> s.levels[i].loc]
      BY <1>1, KnownLevelsFacts
    <3> QED
      BY <3>1
  <2>2. DOMAIN KnownLevels(s) = 1 .. n
    BY <1>1, KnownLevelsFacts
  <2>3. CASE i = n
    BY <2>2, <2>3, <1>4 DEF Top
  <2>4. CASE i # n
    BY <2>1, <2>2, <2>4
  <2> QED
    BY <2>3, <2>4
<1>6. SetLocal(s, tenant) =
        [base |-> Known(s.base), levels |-> lv, aborted |-> s.aborted]
  BY DEF SetLocal, Depth
<1>7. s.base \in Values /\ \A i \in 1 .. n : s.levels[i].set \in Values
  <2>1. s.base \in Values
    BY DEF Session
  <2>2. ASSUME NEW i \in 1 .. n PROVE s.levels[i].set \in Values
    <3>1. s.levels[i] \in Level
      BY <1>1
    <3> QED
      BY <3>1 DEF Level
  <2> QED
    BY <2>1, <2>2
<1>8. SetLocal(s, tenant) \in Session /\ InTx(SetLocal(s, tenant))
  BY <1>1, <1>4, <1>6, <1>7, KnownFacts DEF Session, InTx
<1>9. tenant # NoTenant => Visible(SetLocal(s, tenant)) = tenant
  BY <1>1, <1>4, <1>6, <1>8, SentinelAssumption
  DEF Visible, Top, LevelBinding
<1>10. ASSUME NEW b, SetsBind(s, b)
       PROVE  SetsBind(SetLocal(s, tenant), b)
  <2>1. BindingOf(Known(s.base)) = b
    BY <1>7, <1>10, KnownFacts DEF SetsBind
  <2>2. \A i \in 1 .. n : BindingOf(lv[i].set) = b
    BY <1>1, <1>5, <1>7, <1>10, KnownFacts DEF SetsBind
  <2> QED
    BY <2>1, <2>2, <1>1, <1>4, <1>6 DEF SetsBind
<1> QED
  BY <1>8, <1>9, <1>10

\* A transaction or savepoint opens bound as what encloses it.
LEMMA OpenFacts ==
    ASSUME NEW s \in Session
    PROVE  /\ Open(s) \in Session
           /\ InTx(Open(s))
           /\ Visible(Open(s)) = Visible(s)
           /\ \A b : SetsBind(s, b) => SetsBind(Open(s), b)
<1> DEFINE n == Len(s.levels)
           new == IF InTx(s) THEN Top(s) ELSE [set |-> s.base, loc |-> NoTenant]
<1>1. s.levels \in Seq(Level) /\ n \in Nat /\ s.base \in Values
  BY DEF Session
<1>2. new \in Level
  <2>1. CASE InTx(s)
    BY <1>1, <2>1 DEF InTx, Top
  <2>2. CASE ~InTx(s)
    BY <1>1, <2>2 DEF Level, Bindings
  <2> QED
    BY <2>1, <2>2
<1>3. Open(s) = [base |-> s.base, levels |-> Append(s.levels, new),
                 aborted |-> s.aborted]
  BY DEF Open, Session
<1>4. /\ Append(s.levels, new) \in Seq(Level)
      /\ Len(Append(s.levels, new)) = n + 1
      /\ Append(s.levels, new)[n + 1] = new
      /\ \A i \in 1 .. n : Append(s.levels, new)[i] = s.levels[i]
  BY <1>1, <1>2
<1>5. Open(s) \in Session /\ InTx(Open(s))
  BY <1>1, <1>3, <1>4 DEF Session, InTx
<1>6. Visible(Open(s)) = Visible(s)
  BY <1>1, <1>3, <1>4, <1>5 DEF Visible, Top, LevelBinding, InTx
<1>7. ASSUME NEW b, SetsBind(s, b)
      PROVE  SetsBind(Open(s), b)
  <2>1. BindingOf(new.set) = b
    BY <1>1, <1>7 DEF SetsBind, InTx, Top
  <2> QED
    BY <2>1, <1>1, <1>3, <1>4, <1>7 DEF SetsBind
<1> QED
  BY <1>5, <1>6, <1>7

\* Failing a transaction changes no setting.
LEMMA AbortFacts ==
    ASSUME NEW s \in Session
    PROVE  /\ Abort(s) \in Session
           /\ InTx(Abort(s)) <=> InTx(s)
           /\ \A b : SetsBind(s, b) => SetsBind(Abort(s), b)
BY DEF Abort, Session, InTx, SetsBind

\* Undoing a level leaves the session-level bindings as they are.
LEMMA RollbackFacts ==
    ASSUME NEW s \in Session, InTx(s)
    PROVE  /\ Rollback(s) \in Session
           /\ \A b : SetsBind(s, b) => SetsBind(Rollback(s), b)
<1>1. s.levels \in Seq(Level) /\ Len(s.levels) \in Nat /\ Len(s.levels) > 0
  BY DEF Session, InTx
<1> DEFINE front == SubSeq(s.levels, 1, Len(s.levels) - 1)
<1>2. /\ front \in Seq(Level) /\ Len(front) = Len(s.levels) - 1
      /\ \A i \in 1 .. Len(front) : front[i] = s.levels[i]
  BY <1>1
<1>3. Rollback(s) = [base |-> s.base, levels |-> front, aborted |-> FALSE]
  BY DEF Rollback, Depth
<1> QED
  BY <1>1, <1>2, <1>3 DEF Session, SetsBind

\* Committing a level does too, whether it was aborted, a savepoint or the
\* transaction itself: what was set locally is not in what is kept.
LEMMA CommitFacts ==
    ASSUME NEW s \in Session, InTx(s)
    PROVE  /\ Commit(s) \in Session
           /\ \A b : SetsBind(s, b) => SetsBind(Commit(s), b)
<1>1. s.levels \in Seq(Level) /\ Len(s.levels) \in Nat /\ Len(s.levels) > 0
  BY DEF Session, InTx
<1>2. Top(s) \in Level
  BY <1>1 DEF Top
<1>3. CASE s.aborted
  BY <1>3, RollbackFacts DEF Commit
<1>4. CASE ~s.aborted
  <2>1. CASE Len(s.levels) = 1
    <3>1. Commit(s) = [base |-> Top(s).set, levels |-> <<>>, aborted |-> FALSE]
      BY <1>4, <2>1, Zenon DEF Commit, Depth
    <3>2. Top(s).set \in Values /\ Top(s) = s.levels[1]
      BY <1>2, <2>1 DEF Top, Level
    <3> QED
      BY <1>1, <2>1, <3>1, <3>2 DEF Session, SetsBind
  <2>2. CASE Len(s.levels) # 1
    <3> DEFINE m == Len(s.levels) - 1
               front == SubSeq(s.levels, 1, m)
               lv == [front EXCEPT ![m] = Top(s)]
    <3>1. m \in Nat /\ m > 0
      <4>1. Len(s.levels) \in Nat /\ Len(s.levels) > 0
        BY <1>1
      <4>2. \A k \in Nat : k > 0 /\ k # 1 => k - 1 \in Nat /\ k - 1 > 0
        OBVIOUS
      <4> QED
        BY <4>1, <4>2, <2>2, Zenon
    <3>2. Commit(s) = [base |-> s.base, levels |-> lv, aborted |-> FALSE]
      BY <1>4, <2>2, Zenon DEF Commit, Depth
    <3>3. /\ front \in Seq(Level) /\ Len(front) = m
          /\ \A i \in 1 .. m : front[i] = s.levels[i]
      BY <1>1, <3>1
    <3>4. /\ lv \in Seq(Level) /\ Len(lv) = m
          /\ lv[m] = s.levels[m + 1]
          /\ \A i \in 1 .. m : i # m => lv[i] = s.levels[i]
      <4> HIDE DEF front
      <4> QED
        BY <1>1, <1>2, <3>1, <3>3 DEF Top
    <3>5. s.base \in Values
      BY DEF Session
    <3>6. Commit(s) \in Session
      BY <3>2, <3>4, <3>5 DEF Session
    <3>7. ASSUME NEW b, SetsBind(s, b) PROVE SetsBind(Commit(s), b)
      BY <1>1, <3>1, <3>2, <3>4, <3>7 DEF SetsBind
    <3> QED
      BY <3>6, <3>7
  <2> QED
    BY <2>1, <2>2
<1> QED
  BY <1>3, <1>4

\* The rollbacks queued on a dropped connection end every level at once.
LEMMA RollbackAllFacts ==
    ASSUME NEW s \in Session
    PROVE  /\ RollbackAll(s) \in Session
           /\ ~InTx(RollbackAll(s))
           /\ \A b : SetsBind(s, b) => SetsBind(RollbackAll(s), b)
BY DEF RollbackAll, Session, InTx, SetsBind

-----------------------------------------------------------------------------
(* A session as the stack of the tenants that it answers as.                *)

Stack(s) ==
    [i \in 1 .. Depth(s) + 1 |->
        IF i = 1 THEN BindingOf(s.base) ELSE LevelBinding(s.levels[i - 1])]

\* The stack of s is s's binding outside transactions and one per level, and
\* its top is what a policy sees.
LEMMA StackFacts ==
    ASSUME NEW s \in Session
    PROVE  /\ Len(s.levels) \in Nat /\ s.levels \in Seq(Level)
           /\ Stack(s) \in Seq(Bindings)
           /\ Len(Stack(s)) = Len(s.levels) + 1
           /\ DOMAIN Stack(s) = 1 .. Len(s.levels) + 1
           /\ Stack(s)[1] = BindingOf(s.base)
           /\ \A i \in 1 .. Len(s.levels) :
                 Stack(s)[i + 1] = LevelBinding(s.levels[i])
           /\ Stack(s)[Len(s.levels) + 1] = Visible(s)
           /\ Stack(s) # <<>>
           /\ InTx(s) <=> Len(s.levels) > 0
<1> DEFINE n == Len(s.levels)
<1>1. n \in Nat /\ s.levels \in Seq(Level)
  BY DEF Session
<1>2. \A v : BindingOf(v) \in Bindings
  BY DEF BindingOf, Bindings
<1>3. ASSUME NEW i \in 1 .. n PROVE LevelBinding(s.levels[i]) \in Bindings
  <2>1. s.levels[i] \in Level
    BY <1>1
  <2> QED
    BY <1>2, <2>1 DEF LevelBinding, Level
<1>4. Stack(s) = [i \in 1 .. n + 1 |->
        IF i = 1 THEN BindingOf(s.base) ELSE LevelBinding(s.levels[i - 1])]
  BY DEF Stack, Depth
<1>5. \A i \in 1 .. n + 1 :
        (IF i = 1 THEN BindingOf(s.base) ELSE LevelBinding(s.levels[i - 1]))
          \in Bindings
  <2> SUFFICES ASSUME NEW i \in 1 .. n + 1, i # 1
               PROVE  LevelBinding(s.levels[i - 1]) \in Bindings
    BY <1>2
  <2>1. i - 1 \in 1 .. n
    BY <1>1
  <2> QED
    BY <1>3, <2>1
<1>6. /\ Stack(s) \in Seq(Bindings)
      /\ Len(Stack(s)) = n + 1
      /\ DOMAIN Stack(s) = 1 .. n + 1
      /\ Stack(s)[1] = BindingOf(s.base)
      /\ Stack(s) # <<>>
  BY <1>1, <1>4, <1>5
<1>7. \A i \in 1 .. n : Stack(s)[i + 1] = LevelBinding(s.levels[i])
  BY <1>1, <1>4
<1>8. InTx(s) <=> n > 0
  BY <1>1 DEF InTx
<1>9. Stack(s)[n + 1] = Visible(s)
  BY <1>1, <1>4, <1>6, <1>7, <1>8 DEF Visible, Top
<1> QED
  BY <1>1, <1>6, <1>7, <1>8, <1>9

\* A sequence with the entries of the stack is the stack.
LEMMA StackIs ==
    ASSUME NEW s \in Session, NEW q \in Seq(Bindings),
           Len(q) = Len(s.levels) + 1,
           q[1] = BindingOf(s.base),
           \A i \in 1 .. Len(s.levels) : q[i + 1] = LevelBinding(s.levels[i])
    PROVE  Stack(s) = q
<1> DEFINE n == Len(s.levels)
<1>1. n \in Nat
  BY StackFacts
<1>2. q = [i \in 1 .. n + 1 |-> q[i]]
  BY <1>1
<1>3. Stack(s) = [i \in 1 .. n + 1 |->
        IF i = 1 THEN BindingOf(s.base) ELSE LevelBinding(s.levels[i - 1])]
  BY DEF Stack, Depth
<1>4. ASSUME NEW i \in 1 .. n + 1
      PROVE  q[i] = IF i = 1 THEN BindingOf(s.base) ELSE LevelBinding(s.levels[i - 1])
  <2>1. CASE i = 1
    BY <2>1
  <2>2. CASE i # 1
    <3>1. i - 1 \in 1 .. n /\ (i - 1) + 1 = i
      BY <1>1, <2>2
    <3> QED
      BY <2>2, <3>1
  <2> QED
    BY <2>1, <2>2
<1> QED
  BY <1>2, <1>3, <1>4, Zenon

LEMMA OneEntry ==
    ASSUME NEW S, NEW q \in Seq(S), Len(q) = 1
    PROVE  q = <<q[1]>>
OBVIOUS

\* Outside a transaction the stack is the binding of the session alone.
LEMMA StackOutsideTx ==
    ASSUME NEW s \in Session, NEW b, ~InTx(s), SetsBind(s, b)
    PROVE  Stack(s) = <<b>>
<1>1. /\ Stack(s) \in Seq(Bindings) /\ Len(Stack(s)) = 1
  <2>1. Len(s.levels) \in Nat /\ ~(Len(s.levels) > 0)
    BY StackFacts
  <2>2. Stack(s) \in Seq(Bindings) /\ Len(Stack(s)) = Len(s.levels) + 1
    BY StackFacts
  <2> QED
    BY <2>1, <2>2
<1>2. Stack(s)[1] = b
  BY StackFacts DEF SetsBind
<1> QED
  BY <1>1, <1>2, OneEntry

\* Opening a transaction or a savepoint repeats the top of the stack.
LEMMA StackOpen ==
    ASSUME NEW s \in Session
    PROVE  Stack(Open(s)) = Append(Stack(s), Stack(s)[Len(Stack(s))])
<1> DEFINE n == Len(s.levels)
           new == IF InTx(s) THEN Top(s) ELSE [set |-> s.base, loc |-> NoTenant]
           last == Stack(s)[Len(Stack(s))]
           q == Append(Stack(s), last)
<1>1. /\ n \in Nat /\ s.levels \in Seq(Level)
      /\ Stack(s) \in Seq(Bindings) /\ Len(Stack(s)) = n + 1
      /\ last = Visible(s) /\ last \in Bindings
      /\ InTx(s) <=> n > 0
  <2>1. /\ n \in Nat /\ s.levels \in Seq(Level)
        /\ Stack(s) \in Seq(Bindings) /\ Len(Stack(s)) = n + 1
        /\ last = Visible(s)
        /\ InTx(s) <=> n > 0
    BY StackFacts
  <2> QED
    BY <2>1
<1>2. Open(s) = [base |-> s.base, levels |-> Append(s.levels, new),
                 aborted |-> s.aborted]
  BY DEF Open, Session
<1>3. Open(s) \in Session
  BY OpenFacts
<1>4. LevelBinding(new) = Visible(s)
  BY DEF Visible, LevelBinding
<1>5. /\ Len(Append(s.levels, new)) = n + 1
      /\ \A i \in 1 .. n : Append(s.levels, new)[i] = s.levels[i]
      /\ Append(s.levels, new)[n + 1] = new
  <2> HIDE DEF new
  <2> QED
    BY <1>1
<1>6. /\ q \in Seq(Bindings) /\ Len(q) = n + 2
      /\ \A i \in 1 .. n + 1 : q[i] = Stack(s)[i]
      /\ q[n + 2] = Visible(s)
  <2> HIDE DEF last
  <2> QED
    BY <1>1
<1>7. q[1] = BindingOf(s.base)
  BY <1>1, <1>6, StackFacts
<1>8. ASSUME NEW i \in 1 .. n + 1
      PROVE  q[i + 1] = LevelBinding(Append(s.levels, new)[i])
  <2> HIDE DEF q, new
  <2>1. CASE i = n + 1
    BY <1>1, <1>4, <1>5, <1>6, <2>1
  <2>2. CASE i # n + 1
    <3>1. i \in 1 .. n /\ i + 1 \in 1 .. n + 1
      BY <1>1, <2>2
    <3>2. q[i + 1] = Stack(s)[i + 1]
      BY <1>6, <3>1
    <3> QED
      BY <1>5, <3>1, <3>2, StackFacts
  <2> QED
    BY <2>1, <2>2
<1>9. Stack(Open(s)) = q
  <2> HIDE DEF q, new
  <2> QED
    BY <1>1, <1>2, <1>3, <1>5, <1>6, <1>7, <1>8, StackIs
<1> QED
  BY <1>9

\* Creating the placeholder does not change what a level answers as.
LEMMA KnownLevelBinding ==
    ASSUME NEW lv \in Level
    PROVE  LevelBinding([set |-> Known(lv.set), loc |-> lv.loc]) = LevelBinding(lv)
<1>1. lv.set \in Values
  BY DEF Level
<1> QED
  BY <1>1, KnownFacts DEF LevelBinding

\* set_config(.., true) replaces the top of the stack and nothing below it.
LEMMA StackSetLocal ==
    ASSUME NEW s \in Session, NEW tenant \in Tenants, InTx(s)
    PROVE  Stack(SetLocal(s, tenant)) = [Stack(s) EXCEPT ![Len(Stack(s))] = tenant]
<1> DEFINE n == Len(s.levels)
           top == [set |-> Known(Top(s).set), loc |-> tenant]
           lv == [KnownLevels(s) EXCEPT ![n] = top]
           q == [Stack(s) EXCEPT ![n + 1] = tenant]
<1>1. /\ n \in Nat /\ n > 0 /\ s.levels \in Seq(Level)
      /\ Stack(s) \in Seq(Bindings) /\ Len(Stack(s)) = n + 1
      /\ Stack(s)[1] = BindingOf(s.base)
      /\ \A i \in 1 .. n : Stack(s)[i + 1] = LevelBinding(s.levels[i])
  BY StackFacts
<1>2. /\ SetLocal(s, tenant) =
           [base |-> Known(s.base), levels |-> lv, aborted |-> s.aborted]
      /\ SetLocal(s, tenant) \in Session
  BY SetLocalFacts DEF SetLocal, Depth, Bindings
<1>3. BindingOf(Known(s.base)) = BindingOf(s.base)
  BY KnownFacts DEF Session
<1>4. /\ KnownLevels(s) \in Seq(Level) /\ Len(KnownLevels(s)) = n
      /\ \A i \in 1 .. n : KnownLevels(s)[i] = [set |-> Known(s.levels[i].set),
                                                loc |-> s.levels[i].loc]
  BY KnownLevelsFacts
<1>5. /\ Len(lv) = n /\ lv[n] = top
      /\ \A i \in 1 .. n : i # n => lv[i] = KnownLevels(s)[i]
  <2> HIDE DEF top
  <2> QED
    BY <1>1, <1>4
<1>6. /\ q \in Seq(Bindings) /\ Len(q) = n + 1 /\ q[n + 1] = tenant
      /\ \A i \in 1 .. n : q[i] = Stack(s)[i]
  <2>1. tenant \in Bindings
    BY DEF Bindings
  <2> QED
    BY <1>1, <2>1
<1>7. ASSUME NEW i \in 1 .. n PROVE q[i + 1] = LevelBinding(lv[i])
  <2> HIDE DEF q, lv
  <2>1. CASE i = n
    <3>1. LevelBinding(top) = tenant
      BY SentinelAssumption DEF LevelBinding
    <3> QED
      BY <1>5, <1>6, <2>1, <3>1
  <2>2. CASE i # n
    <3>1. i + 1 \in 1 .. n
      BY <1>1, <2>2
    <3>2. q[i + 1] = LevelBinding(s.levels[i])
      BY <1>1, <1>6, <3>1
    <3>3. s.levels[i] \in Level
      BY <1>1
    <3>4. lv[i] = [set |-> Known(s.levels[i].set), loc |-> s.levels[i].loc]
      BY <1>4, <1>5, <2>2
    <3> QED
      BY <3>2, <3>3, <3>4, KnownLevelBinding
  <2> QED
    BY <2>1, <2>2
<1>8. q[1] = BindingOf(s.base)
  BY <1>1, <1>6
<1>9. Stack(SetLocal(s, tenant)) = q
  <2> DEFINE o == SetLocal(s, tenant)
  <2>1. /\ o \in Session /\ o.levels = lv /\ Len(lv) = n
        /\ BindingOf(o.base) = BindingOf(s.base)
    BY <1>2, <1>3, <1>5
  <2> HIDE DEF q, lv, o
  <2>2. Stack(o) = q
    BY <2>1, <1>6, <1>7, <1>8, StackIs
  <2> QED
    BY <2>2 DEF o
<1> QED
  BY <1>1, <1>9

\* Failing a transaction leaves the stack as it is.
LEMMA StackAbort ==
    ASSUME NEW s \in Session
    PROVE  Stack(Abort(s)) = Stack(s)
<1>1. Abort(s).base = s.base /\ Abort(s).levels = s.levels
  BY DEF Abort, Session
<1> QED
  BY <1>1 DEF Stack, Depth

\* Undoing a transaction or a savepoint pops the stack.
LEMMA StackRollback ==
    ASSUME NEW s \in Session, InTx(s)
    PROVE  /\ Stack(Rollback(s)) = SubSeq(Stack(s), 1, Len(Stack(s)) - 1)
           /\ InTx(Rollback(s)) <=> Len(s.levels) > 1
<1> DEFINE n == Len(s.levels)
           front == SubSeq(s.levels, 1, n - 1)
           q == SubSeq(Stack(s), 1, n)
<1>1. /\ n \in Nat /\ n > 0 /\ s.levels \in Seq(Level)
      /\ Stack(s) \in Seq(Bindings) /\ Len(Stack(s)) = n + 1
      /\ Stack(s)[1] = BindingOf(s.base)
      /\ \A i \in 1 .. n : Stack(s)[i + 1] = LevelBinding(s.levels[i])
  BY StackFacts
<1>2. /\ Rollback(s) = [base |-> s.base, levels |-> front, aborted |-> FALSE]
      /\ Rollback(s) \in Session
  BY RollbackFacts DEF Rollback, Depth
<1>3. Len(front) = n - 1 /\ \A i \in 1 .. n - 1 : front[i] = s.levels[i]
  BY <1>1
<1>4. q \in Seq(Bindings) /\ Len(q) = n /\ \A i \in 1 .. n : q[i] = Stack(s)[i]
  BY <1>1
<1>5. \A i \in 1 .. n - 1 : q[i + 1] = LevelBinding(front[i])
  <2> HIDE DEF q, front
  <2> TAKE i \in 1 .. n - 1
  <2>1. i \in 1 .. n /\ i + 1 \in 1 .. n
    BY <1>1
  <2> QED
    BY <1>1, <1>3, <1>4, <2>1
<1>6. Stack(Rollback(s)) = q
  <2> HIDE DEF q, front
  <2> QED
    BY <1>1, <1>2, <1>3, <1>4, <1>5, StackIs
<1>7. InTx(Rollback(s)) <=> n > 1
  <2>1. InTx(Rollback(s)) <=> Len(Rollback(s).levels) > 0
    BY <1>2, StackFacts
  <2> QED
    BY <1>1, <1>2, <1>3, <2>1
<1> QED
  BY <1>1, <1>6, <1>7

\* RELEASE SAVEPOINT pops the stack and hands its top on.
LEMMA StackRelease ==
    ASSUME NEW s \in Session, ~s.aborted, Len(s.levels) > 1
    PROVE  /\ Stack(Commit(s)) =
                [SubSeq(Stack(s), 1, Len(Stack(s)) - 1)
                   EXCEPT ![Len(Stack(s)) - 1] = Stack(s)[Len(Stack(s))]]
           /\ InTx(Commit(s))
<1> DEFINE n == Len(s.levels)
           front == SubSeq(s.levels, 1, n - 1)
           lv == [front EXCEPT ![n - 1] = Top(s)]
           below == SubSeq(Stack(s), 1, n)
           last == Stack(s)[n + 1]
           q == [below EXCEPT ![n] = last]
<1>1. /\ n \in Nat /\ n > 1 /\ s.levels \in Seq(Level)
      /\ Stack(s) \in Seq(Bindings) /\ Len(Stack(s)) = n + 1
      /\ Stack(s)[1] = BindingOf(s.base)
      /\ \A i \in 1 .. n : Stack(s)[i + 1] = LevelBinding(s.levels[i])
      /\ InTx(s)
  BY StackFacts
<1>2. /\ Commit(s) = [base |-> s.base, levels |-> lv, aborted |-> FALSE]
      /\ Commit(s) \in Session
  BY <1>1, CommitFacts DEF Commit, Depth
<1>3. Len(front) = n - 1 /\ \A i \in 1 .. n - 1 : front[i] = s.levels[i]
  BY <1>1
<1>4. /\ Len(lv) = n - 1 /\ lv[n - 1] = s.levels[n]
      /\ \A i \in 1 .. n - 1 : i # n - 1 => lv[i] = s.levels[i]
  <2> HIDE DEF front
  <2>1. DOMAIN front = 1 .. n - 1
    BY <1>1, <1>3
  <2> QED
    BY <1>1, <1>3, <2>1 DEF Top
<1>5. /\ below \in Seq(Bindings) /\ Len(below) = n
      /\ \A i \in 1 .. n : below[i] = Stack(s)[i]
      /\ Stack(s)[n + 1] \in Bindings
  BY <1>1
<1>6. /\ q \in Seq(Bindings) /\ Len(q) = n /\ q[n] = Stack(s)[n + 1]
      /\ \A i \in 1 .. n : i # n => q[i] = Stack(s)[i]
  <2> HIDE DEF below, last
  <2>1. DOMAIN below = 1 .. n /\ n \in 1 .. n
    BY <1>1, <1>5
  <2>2. /\ q \in Seq(Bindings) /\ Len(q) = n /\ q[n] = last
        /\ \A i \in 1 .. n : i # n => q[i] = below[i]
    BY <1>5, <2>1 DEF last
  <2> QED
    BY <1>5, <2>2 DEF last
<1>7. ASSUME NEW i \in 1 .. n - 1 PROVE q[i + 1] = LevelBinding(lv[i])
  <2> HIDE DEF q, lv
  <2>1. CASE i = n - 1
    <3>1. i + 1 = n /\ n \in 1 .. n
      BY <1>1, <2>1
    <3>2. Stack(s)[n + 1] = LevelBinding(s.levels[n])
      BY <1>1, <3>1
    <3> QED
      BY <1>4, <1>6, <2>1, <3>1, <3>2
  <2>2. CASE i # n - 1
    <3>1. i \in 1 .. n /\ i + 1 \in 1 .. n /\ i + 1 # n
      BY <1>1, <2>2
    <3> QED
      BY <1>1, <1>4, <1>6, <2>2, <3>1
  <2> QED
    BY <2>1, <2>2
<1>8. q[1] = BindingOf(s.base)
  BY <1>1, <1>6
<1>9. Stack(Commit(s)) = q
  <2> HIDE DEF q, lv
  <2>1. n = (n - 1) + 1
    BY <1>1
  <2> QED
    BY <1>2, <1>4, <1>6, <1>7, <1>8, <2>1, StackIs
<1>10. InTx(Commit(s))
  <2>1. InTx(Commit(s)) <=> Len(Commit(s).levels) > 0
    BY <1>2, StackFacts
  <2> HIDE DEF lv
  <2> QED
    BY <1>1, <1>2, <1>4, <2>1
<1> QED
  BY <1>1, <1>9, <1>10

\* COMMIT pops the stack: what is left is what the session level binds.
LEMMA StackCommit ==
    ASSUME NEW s \in Session, NEW b, SetsBind(s, b), Len(s.levels) = 1
    PROVE  /\ Stack(Commit(s)) = SubSeq(Stack(s), 1, Len(Stack(s)) - 1)
           /\ ~InTx(Commit(s))
<1>1. InTx(s)
  BY StackFacts
<1>2. CASE s.aborted
  <2>1. Commit(s) = Rollback(s)
    BY <1>2 DEF Commit
  <2>2. ~(Len(s.levels) > 1)
    OBVIOUS
  <2> QED
    BY <1>1, <2>1, <2>2, StackRollback
<1>3. CASE ~s.aborted
  <2>1. /\ Commit(s) = [base |-> Top(s).set, levels |-> <<>>, aborted |-> FALSE]
        /\ Commit(s) \in Session /\ SetsBind(Commit(s), b)
    BY <1>1, <1>3, CommitFacts DEF Commit, Depth
  <2>2. ~InTx(Commit(s))
    BY <2>1 DEF InTx
  <2>3. Stack(Commit(s)) = <<b>>
    BY <2>1, <2>2, StackOutsideTx
  <2>4. Stack(s) \in Seq(Bindings) /\ Len(Stack(s)) = 2
    <3>1. Stack(s) \in Seq(Bindings) /\ Len(Stack(s)) = Len(s.levels) + 1
      BY StackFacts
    <3> QED
      BY <3>1
  <2>5. Stack(s)[1] = b
    BY StackFacts DEF SetsBind
  <2>6. SubSeq(Stack(s), 1, Len(Stack(s)) - 1) = <<b>>
    <3> DEFINE q == SubSeq(Stack(s), 1, 1)
    <3>1. q \in Seq(Bindings) /\ Len(q) = 1 /\ q[1] = b
      BY <2>4, <2>5
    <3>2. q = <<b>>
      <4> HIDE DEF q
      <4> QED
        BY <3>1, OneEntry
    <3> QED
      BY <2>4, <3>2
  <2> QED
    BY <2>2, <2>3, <2>6
<1> QED
  BY <1>2, <1>3
==============================================================================
