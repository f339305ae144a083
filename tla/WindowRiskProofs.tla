-------------------------- MODULE WindowRiskProofs --------------------------
(***************************************************************************)
(* Proofs about WindowRisk: what counts and cooldown promise although the  *)
(* threads that keep them overtake each other.                             *)
(***************************************************************************)
EXTENDS WindowRisk, TLAPS

\* A call of observe is not older than MaxDelay.
CallsShort == \A t \in Threads : Inside(t) => thread[t].now <= clock /\ clock <= thread[t].now + MaxDelay

\* The count of a source is the length of its present row of loud windows.
CountsRow ==
    \A k \in Keys :
        /\ counts[k] <= Len(windows[k])
        /\ \A j \in (Len(windows[k]) - counts[k] + 1)..Len(windows[k]) : windows[k][j].loud
        /\ counts[k] < Len(windows[k]) => ~windows[k][Len(windows[k]) - counts[k]].loud

\* Windows were told apart as they were counted.
FatesTrue ==
    \A k \in Keys : \A i \in DOMAIN windows[k] : (windows[k][i].fate = "few") <=> ~Sustained(k, i)

\* A thread that has counted knows the place of its window, and no other thread
\* will decide about it.
Placed(t) ==
    /\ thread[t].nth \in DOMAIN windows[Key(t)]
    /\ windows[Key(t)][thread[t].nth].fate = "inside"
    /\ windows[Key(t)][thread[t].nth].now = thread[t].now
Deciding(t) == thread[t].pc \in {"look", "decide"}
Telling(t) == At(t, "save") /\ thread[t].persistent
PlacesHeld ==
    /\ \A t \in Threads : Inside(t) => ~thread[t].persistent
    /\ \A t \in Threads : Deciding(t) => Placed(t)
    /\ \A t \in Threads : Telling(t) =>
           /\ thread[t].nth \in DOMAIN windows[Key(t)]
           /\ windows[Key(t)][thread[t].nth].fate = "announced"
    /\ \A t, u \in Threads :
           /\ t # u /\ (Deciding(t) \/ Telling(t)) /\ (Deciding(u) \/ Telling(u))
           /\ Key(t) = Key(u)
           => thread[t].nth # thread[u].nth

\* The last alert of a source was decided, not later than now.
IsDecided(k, moment) == \E d \in DOMAIN decided[k] : decided[k][d].now = moment
LastDecided ==
    /\ \A k \in Keys : lastAlert[k] # Never => IsDecided(k, lastAlert[k])
    /\ \A t \in Threads : At(t, "decide") /\ thread[t].last # Never => IsDecided(Key(t), thread[t].last)
    /\ \A k \in Keys : \A d \in DOMAIN decided[k] : decided[k][d].now <= clock
    /\ \A t \in Threads : At(t, "decide") => thread[t].last <= thread[t].now + MaxDelay

\* What a suppressed window owes its silence to.
Covered(k, moment) ==
    \E d \in DOMAIN decided[k] :
        moment - decided[k][d].now < Cooldown /\ decided[k][d].now - moment <= MaxDelay
SuppressedCovered ==
    \A k \in Keys : \A i \in DOMAIN windows[k] :
        windows[k][i].fate = "suppressed" => Covered(k, windows[k][i].now)

\* A call that has met no other of its source is the only one.
AloneTrue ==
    \A t, u \in Threads :
        t # u /\ Inside(t) /\ Inside(u) /\ Key(t) = Key(u) => ~thread[t].alone

\* How far the time of the last alert may lie behind an earlier decision, for the
\* source and for a call that has looked: Behind(k, i, m).
Behind(k, i, moment) ==
    /\ moment >= decided[k][i].now - MaxDelay
    /\ decided[k][i].alone => moment >= decided[k][i].now
LastBehind ==
    /\ \A k \in Keys : \A i \in DOMAIN decided[k] : Behind(k, i, lastAlert[k])
    /\ \A t \in Threads : Inside(t) =>
           /\ thread[t].before <= Len(decided[Key(t)])
           /\ \A i \in DOMAIN decided[Key(t)] :
                  /\ decided[Key(t)][i].alone => decided[Key(t)][i].now <= thread[t].now
                  /\ At(t, "decide") /\ i <= thread[t].before => Behind(Key(t), i, thread[t].last)
    /\ \A k \in Keys : \A j \in DOMAIN decided[k] : decided[k][j].before < j

IInv ==
    /\ TypeOK /\ CallsShort /\ CountsRow /\ FatesTrue /\ PlacesHeld
    /\ LastDecided /\ SuppressedCovered
    /\ AloneTrue /\ LastBehind /\ CooldownKept

-----------------------------------------------------------------------------
LEMMA NeverPast == Never \in Int /\ Never <= 0 /\ Never + Cooldown = 0
  BY RiskAssumption DEF Never

\* A thread at work holds a whole record.
LEMMA InCall ==
  ASSUME TypeOK, NEW t \in Threads, thread[t].pc # "idle"
  PROVE  thread[t] \in Call /\ Key(t) \in Keys
  BY DEF TypeOK, Idle, Call, Key

LEMMA AppendFacts ==
  ASSUME NEW S, NEW s \in Seq(S), NEW e \in S
  PROVE  /\ Len(s) \in Nat /\ DOMAIN s = 1..Len(s)
         /\ Append(s, e) \in Seq(S)
         /\ Len(Append(s, e)) = Len(s) + 1
         /\ DOMAIN Append(s, e) = 1..(Len(s) + 1)
         /\ \A i \in DOMAIN s : Append(s, e)[i] = s[i]
         /\ Append(s, e)[Len(s) + 1] = e
  OBVIOUS

LEMMA ElementFacts ==
  ASSUME NEW S, NEW s \in Seq(S)
  PROVE  /\ Len(s) \in Nat /\ DOMAIN s = 1..Len(s)
         /\ \A i \in DOMAIN s : s[i] \in S
  OBVIOUS

\* Replacing one element of a sequence.
LEMMA FunctionIsSeq ==
  ASSUME NEW S, NEW n \in Nat, NEW f \in [1..n -> S]
  PROVE  f \in Seq(S) /\ Len(f) = n
  OBVIOUS

LEMMA ExceptFacts ==
  ASSUME NEW S, NEW s \in Seq(S), NEW n, NEW e \in S
  PROVE  /\ [s EXCEPT ![n] = e] \in Seq(S)
         /\ Len([s EXCEPT ![n] = e]) = Len(s)
         /\ DOMAIN [s EXCEPT ![n] = e] = DOMAIN s
  <1>1. Len(s) \in Nat /\ s \in [1..Len(s) -> S]
    OBVIOUS
  <1>2. [s EXCEPT ![n] = e] \in [1..Len(s) -> S]
    BY <1>1
  <1> QED
    BY <1>1, <1>2, FunctionIsSeq

\* Another fate for one window.
Refated(k, n, fate) == [windows EXCEPT ![k][n].fate = fate]
Differs(new, k, n, fate) ==
    \A q \in Keys :
        /\ Len(new[q]) = Len(windows[q]) /\ DOMAIN new[q] = DOMAIN windows[q]
        /\ \A i \in DOMAIN windows[q] :
               new[q][i] = IF q = k /\ i = n THEN [windows[q][i] EXCEPT !.fate = fate] ELSE windows[q][i]

LEMMA RefatedFacts ==
  ASSUME TypeOK, NEW k \in Keys, NEW n, NEW fate \in Fates
  PROVE  /\ Refated(k, n, fate) \in [Keys -> Seq(Window)]
         /\ Differs(Refated(k, n, fate), k, n, fate)
  <1> DEFINE new == [windows[k] EXCEPT ![n].fate = fate]
  <1>1. windows[k] \in Seq(Window) /\ \A q \in Keys : windows[q] \in Seq(Window)
    BY DEF TypeOK
  <1>2. \A i \in DOMAIN windows[k] : windows[k][i] \in Window
    BY <1>1, ElementFacts
  <1>3. new \in Seq(Window) /\ Len(new) = Len(windows[k]) /\ DOMAIN new = DOMAIN windows[k]
    <2>1. CASE n \in DOMAIN windows[k]
      <3> DEFINE w == [windows[k][n] EXCEPT !.fate = fate]
      <3>1. w \in Window
        BY <1>2, <2>1 DEF Window
      <3>2. new = [windows[k] EXCEPT ![n] = w]
        OBVIOUS
      <3> HIDE DEF new, w
      <3> QED
        BY <1>1, <3>1, <3>2, ExceptFacts
    <2>2. CASE n \notin DOMAIN windows[k]
      <3>1. new = windows[k]
        BY <1>1, <2>2
      <3> QED
        BY <1>1, <3>1
    <2> QED
      BY <2>1, <2>2
  <1>4. Refated(k, n, fate) = [windows EXCEPT ![k] = new]
    BY DEF Refated, TypeOK
  <1>5. \A i \in DOMAIN windows[k] : new[i] =
          IF i = n THEN [windows[k][i] EXCEPT !.fate = fate] ELSE windows[k][i]
    OBVIOUS
  <1> HIDE DEF new
  <1> QED
    BY <1>1, <1>3, <1>4, <1>5 DEF TypeOK, Differs

-----------------------------------------------------------------------------
LEMMA TypeInit == Init => TypeOK
  BY RiskAssumption DEF Init, TypeOK, Moment

\* What a settled, suppressed or announced window changes in windows.
LEMMA SettleWindows ==
  ASSUME TypeOK, NEW t \in Threads, At(t, "save"), NEW fate \in {"none", "stored", "lost"},
         fate = "none" => ~thread[t].persistent, Settle(t, fate)
  PROVE  /\ thread[t].persistent => windows' = Refated(Key(t), thread[t].nth, fate) /\ fate \in Fates
         /\ ~thread[t].persistent => windows' = windows
         /\ windows' \in [Keys -> Seq(Window)]
  <1>1. Key(t) \in Keys
    BY InCall DEF At
  <1>2. fate # "none" => fate \in Fates
    BY DEF Fates
  <1> QED
    BY <1>1, <1>2, RefatedFacts DEF Settle, Refated, TypeOK

LEMMA TypeStep == TypeOK /\ [Next]_vars => TypeOK'
  <1> SUFFICES ASSUME TypeOK, [Next]_vars PROVE TypeOK'
    OBVIOUS
  <1> USE RiskAssumption
  <1>1. CASE Tick
    BY <1>1 DEF TypeOK, Tick
  <1>2. ASSUME NEW t \in Threads, NEW k \in Keys, NEW loud \in BOOLEAN, NEW high \in BOOLEAN, Begin(t, k, loud, high)
        PROVE TypeOK'
    <2>1. Len(decided[k]) \in Nat
      BY DEF TypeOK
    <2>2. thread' \in [Threads -> {Idle} \cup Call]
      <3>1. thread' = [u \in Threads |-> thread'[u]]
        BY <1>2 DEF Begin
      <3>2. ASSUME NEW u \in Threads PROVE thread'[u] \in {Idle} \cup Call
        <4>1. CASE u = t
          BY <1>2, <2>1, <4>1 DEF Begin, Call, TypeOK, Moment
        <4>2. CASE u # t /\ Inside(u) /\ Key(u) = k
          <5>1. thread[u] \in Call
            BY <4>2, InCall DEF Inside
          <5>2. thread'[u] = [thread[u] EXCEPT !.alone = FALSE]
            BY <1>2, <4>2 DEF Begin
          <5> QED
            BY <5>1, <5>2 DEF Call
        <4>3. CASE u # t /\ ~(Inside(u) /\ Key(u) = k)
          BY <1>2, <4>3 DEF Begin, TypeOK
        <4> QED
          BY <4>1, <4>2, <4>3
      <3> QED
        BY <3>1, <3>2
    <2> QED
      BY <1>2, <2>2 DEF TypeOK, Begin
  <1>3. ASSUME NEW t \in Threads, Count(t) PROVE TypeOK'
    <2>1. thread[t] \in Call /\ Key(t) \in Keys /\ thread[t].now \in Nat /\ thread[t].loud \in BOOLEAN
      BY <1>3, InCall DEF Count, At, Call
    <2>2. NewCount(t) \in Nat
      BY <2>1 DEF NewCount, TypeOK
    <2> DEFINE w == [loud |-> thread[t].loud, now |-> thread[t].now, fate |-> Fate(t)]
    <2>3. w \in Window
      BY <2>1 DEF Window, Fate, Fates
    <2>4. windows[Key(t)] \in Seq(Window)
      BY <2>1 DEF TypeOK
    <2>5. Append(windows[Key(t)], w) \in Seq(Window) /\ Len(windows[Key(t)]) + 1 \in Nat
      BY <2>3, <2>4, AppendFacts
    <2>6. windows' = [windows EXCEPT ![Key(t)] = Append(windows[Key(t)], w)]
      BY <1>3 DEF Count
    <2> HIDE DEF w
    <2>7. windows' \in [Keys -> Seq(Window)]
      BY <2>5, <2>6 DEF TypeOK
    <2>8. counts' \in [Keys -> Nat]
      BY <1>3, <2>2 DEF Count, TypeOK
    <2>9. thread' = [thread EXCEPT ![t] = thread'[t]] /\ thread'[t] \in Call
      BY <1>3, <2>1, <2>5 DEF Count, TypeOK, Call
    <2> QED
      BY <1>3, <2>7, <2>8, <2>9 DEF Count, TypeOK
  <1>4. ASSUME NEW t \in Threads, Look(t) PROVE TypeOK'
    <2>1. thread[t] \in Call /\ Key(t) \in Keys
      BY <1>4, InCall DEF Look, At
    <2>2. thread' = [thread EXCEPT ![t] = thread'[t]] /\ thread'[t] \in Call
      BY <1>4, <2>1 DEF Look, TypeOK, Call
    <2> QED
      BY <1>4, <2>2 DEF Look, TypeOK
  <1>5. ASSUME NEW t \in Threads, Suppress(t) PROVE TypeOK'
    <2>1. thread[t] \in Call /\ Key(t) \in Keys
      BY <1>5, InCall DEF Suppress, At
    <2>2. thread' = [thread EXCEPT ![t] = thread'[t]] /\ thread'[t] \in Call
      BY <1>5, <2>1 DEF Suppress, TypeOK, Call
    <2>3. windows' \in [Keys -> Seq(Window)]
      BY <1>5, <2>1, RefatedFacts DEF Suppress, Refated, Fates
    <2> QED
      BY <1>5, <2>2, <2>3 DEF Suppress, TypeOK
  <1>6. ASSUME NEW t \in Threads, Announce(t) PROVE TypeOK'
    <2>1. thread[t] \in Call /\ Key(t) \in Keys
      BY <1>6, InCall DEF Announce, At
    <2>2. thread' = [thread EXCEPT ![t] = thread'[t]] /\ thread'[t] \in Call
      BY <1>6, <2>1 DEF Announce, TypeOK, Call
    <2>3. windows' \in [Keys -> Seq(Window)]
      BY <1>6, <2>1, RefatedFacts DEF Announce, Refated, Fates
    <2>4. [now |-> thread[t].now, before |-> thread[t].before, alone |-> thread[t].alone] \in Decision
      BY <2>1 DEF Call, Decision
    <2>5. decided' \in [Keys -> Seq(Decision)]
      BY <1>6, <2>1, <2>4 DEF Announce, TypeOK
    <2>6. lastAlert' \in [Keys -> Moment]
      BY <1>6, <2>1 DEF Announce, TypeOK, Moment, Call
    <2> QED
      BY <1>6, <2>2, <2>3, <2>5, <2>6 DEF Announce, TypeOK
  <1>7. ASSUME NEW t \in Threads, Dismiss(t) \/ Save(t) \/ SaveFails(t) PROVE TypeOK'
    <2>1. PICK fate \in {"none", "stored", "lost"} :
            At(t, "save") /\ Settle(t, fate) /\ (fate = "none" => ~thread[t].persistent)
      BY <1>7 DEF Dismiss, Save, SaveFails, Raises
    <2>2. windows' \in [Keys -> Seq(Window)]
      BY <2>1, SettleWindows
    <2> QED
      BY <2>1, <2>2 DEF Settle, TypeOK
  <1>8. CASE UNCHANGED vars
    BY <1>8 DEF vars, TypeOK
  <1> QED
    BY <1>1, <1>2, <1>3, <1>4, <1>5, <1>6, <1>7, <1>8 DEF Next, Step

\* Every variable keeps its type, for any sources, threads and times.
THEOREM RiskTypeCorrect == Spec => []TypeOK
  BY TypeInit, TypeStep, PTL DEF Spec

-----------------------------------------------------------------------------
(* Counts and rows.                                                        *)

\* Every step but Count leaves the windows as they are, or tells the fate of one.
LEMMA WindowsKept ==
  ASSUME TypeOK, PlacesHeld, [Next]_vars, ~\E t \in Threads : Count(t)
  PROVE  \A k \in Keys :
           /\ Len(windows'[k]) = Len(windows[k]) /\ DOMAIN windows'[k] = DOMAIN windows[k]
           /\ \A i \in DOMAIN windows[k] :
                  /\ windows'[k][i].loud = windows[k][i].loud
                  /\ windows'[k][i].now = windows[k][i].now
                  /\ windows'[k][i].fate = "few" <=> windows[k][i].fate = "few"
                  /\ windows'[k][i].fate = "suppressed" /\ windows[k][i].fate # "suppressed" =>
                        \E t \in Threads : Suppress(t) /\ Key(t) = k /\ thread[t].now = windows[k][i].now
  <1> DEFINE Goal == \A k \in Keys :
           /\ Len(windows'[k]) = Len(windows[k]) /\ DOMAIN windows'[k] = DOMAIN windows[k]
           /\ \A i \in DOMAIN windows[k] :
                  /\ windows'[k][i].loud = windows[k][i].loud
                  /\ windows'[k][i].now = windows[k][i].now
                  /\ windows'[k][i].fate = "few" <=> windows[k][i].fate = "few"
                  /\ windows'[k][i].fate = "suppressed" /\ windows[k][i].fate # "suppressed" =>
                        \E t \in Threads : Suppress(t) /\ Key(t) = k /\ thread[t].now = windows[k][i].now
  <1>1. CASE windows' = windows
    BY <1>1
  <1>2. ASSUME NEW t \in Threads, NEW fate \in Fates \ {"few"}, Key(t) \in Keys,
               windows' = Refated(Key(t), thread[t].nth, fate),
               windows[Key(t)][thread[t].nth].fate # "few",
               fate = "suppressed" => Suppress(t) /\ thread[t].now = windows[Key(t)][thread[t].nth].now
        PROVE Goal
    <2>0. fate \in Fates
      BY <1>2
    <2>1. Differs(windows', Key(t), thread[t].nth, fate)
      BY <1>2, <2>0, RefatedFacts
    <2>2. ASSUME NEW k \in Keys, NEW i \in DOMAIN windows[k], k = Key(t), i = thread[t].nth
          PROVE  /\ windows'[k][i].loud = windows[k][i].loud
                 /\ windows'[k][i].now = windows[k][i].now
                 /\ windows'[k][i].fate = fate
      <3>1. windows[k][i] \in Window
        BY ElementFacts DEF TypeOK
      <3>2. windows'[k][i] = [windows[k][i] EXCEPT !.fate = fate]
        BY <2>1, <2>2 DEF Differs
      <3> QED
        BY <3>1, <3>2 DEF Window
    <2> QED
      BY <1>2, <2>1, <2>2 DEF Differs
  <1>3. ASSUME NEW t \in Threads, Suppress(t) \/ Announce(t) PROVE Goal
    <2>1. Placed(t) /\ Key(t) \in Keys
      BY <1>3, InCall DEF PlacesHeld, Deciding, Suppress, Announce, At
    <2>2. CASE Suppress(t)
      <3>1. windows' = Refated(Key(t), thread[t].nth, "suppressed")
        BY <2>2 DEF Suppress, Refated
      <3>2. "suppressed" \in Fates \ {"few"}
        BY DEF Fates
      <3>3. thread[t].now = windows[Key(t)][thread[t].nth].now /\ windows[Key(t)][thread[t].nth].fate # "few"
        BY <2>1 DEF Placed
      <3> QED
        BY <1>2, <2>1, <2>2, <3>1, <3>2, <3>3
    <2>3. CASE Announce(t)
      <3>1. windows' = Refated(Key(t), thread[t].nth, "announced")
        BY <2>3 DEF Announce, Refated
      <3>2. "announced" \in Fates \ {"few"} /\ "announced" # "suppressed"
        BY DEF Fates
      <3>3. windows[Key(t)][thread[t].nth].fate # "few"
        BY <2>1 DEF Placed
      <3> QED
        BY <1>2, <2>1, <3>1, <3>2, <3>3
    <2> QED
      BY <1>3, <2>2, <2>3
  <1>4. ASSUME NEW t \in Threads, Dismiss(t) \/ Save(t) \/ SaveFails(t) PROVE Goal
    <2>1. PICK fate \in {"none", "stored", "lost"} :
            At(t, "save") /\ Settle(t, fate) /\ (fate = "none" => ~thread[t].persistent)
      BY <1>4 DEF Dismiss, Save, SaveFails, Raises
    <2>2. CASE ~thread[t].persistent
      BY <1>1, <2>1, <2>2, SettleWindows
    <2>3. CASE thread[t].persistent
      <3>1. windows[Key(t)][thread[t].nth].fate = "announced" /\ Key(t) \in Keys
        BY <2>1, <2>3, InCall DEF PlacesHeld, Telling, At
      <3>2. windows' = Refated(Key(t), thread[t].nth, fate) /\ fate \in Fates /\ fate # "suppressed" /\ fate # "few"
        BY <2>1, <2>3, SettleWindows
      <3> QED
        BY <1>2, <3>1, <3>2
    <2> QED
      BY <2>2, <2>3
  <1>5. CASE Tick \/ UNCHANGED vars
    BY <1>1, <1>5 DEF Tick, vars
  <1>6. ASSUME NEW t \in Threads, Look(t) \/ \E k \in Keys, loud, high \in BOOLEAN : Begin(t, k, loud, high)
        PROVE Goal
    BY <1>1, <1>6 DEF Look, Begin
  <1> QED
    BY <1>3, <1>4, <1>5, <1>6 DEF Next, Step

\* What Count does to the windows of its source.
LEMMA Counted ==
  ASSUME TypeOK, NEW t \in Threads, Count(t)
  PROVE  /\ Key(t) \in Keys /\ thread[t] \in Call
         /\ \A k \in Keys : Len(windows[k]) \in Nat /\ DOMAIN windows[k] = 1..Len(windows[k])
         /\ \A k \in Keys \ {Key(t)} : windows'[k] = windows[k] /\ counts'[k] = counts[k]
         /\ Len(windows'[Key(t)]) = Len(windows[Key(t)]) + 1
         /\ DOMAIN windows'[Key(t)] = 1..(Len(windows[Key(t)]) + 1)
         /\ \A i \in DOMAIN windows[Key(t)] : windows'[Key(t)][i] = windows[Key(t)][i]
         /\ windows'[Key(t)][Len(windows[Key(t)]) + 1] =
              [loud |-> thread[t].loud, now |-> thread[t].now, fate |-> Fate(t)]
         /\ counts'[Key(t)] = NewCount(t)
  <1>1. thread[t] \in Call /\ Key(t) \in Keys
    BY InCall DEF Count, At
  <1> DEFINE w == [loud |-> thread[t].loud, now |-> thread[t].now, fate |-> Fate(t)]
  <1>2. w \in Window
    BY <1>1 DEF Window, Fate, Fates, Call
  <1>3. windows' = [windows EXCEPT ![Key(t)] = Append(windows[Key(t)], w)]
    BY DEF Count
  <1>4. windows[Key(t)] \in Seq(Window)
    BY <1>1 DEF TypeOK
  <1> HIDE DEF w
  <1>5. /\ windows'[Key(t)] = Append(windows[Key(t)], w)
        /\ \A k \in Keys \ {Key(t)} : windows'[k] = windows[k]
    BY <1>1, <1>3 DEF TypeOK
  <1>6. counts' = [counts EXCEPT ![Key(t)] = NewCount(t)]
    BY DEF Count
  <1>7. /\ Len(Append(windows[Key(t)], w)) = Len(windows[Key(t)]) + 1
        /\ DOMAIN Append(windows[Key(t)], w) = 1..(Len(windows[Key(t)]) + 1)
        /\ \A i \in DOMAIN windows[Key(t)] : Append(windows[Key(t)], w)[i] = windows[Key(t)][i]
        /\ Append(windows[Key(t)], w)[Len(windows[Key(t)]) + 1] = w
    BY <1>2, <1>4, AppendFacts
  <1>8. \A k \in Keys : Len(windows[k]) \in Nat /\ DOMAIN windows[k] = 1..Len(windows[k])
    BY ElementFacts DEF TypeOK
  <1>9. counts'[Key(t)] = NewCount(t) /\ \A k \in Keys \ {Key(t)} : counts'[k] = counts[k]
    BY <1>1, <1>6 DEF TypeOK
  <1> QED
    BY <1>1, <1>5, <1>7, <1>8, <1>9 DEF w

LEMMA CountsSame ==
  ASSUME [Next]_vars, ~\E t \in Threads : Count(t)
  PROVE  counts' = counts
  BY DEF Next, Step, Tick, Begin, Look, Suppress, Announce, Dismiss, Save, SaveFails, Settle, vars

\* The rows of one source, from those of one sequence of windows.
InRow(w, i) == i >= Required /\ \A j \in (i - Required + 1)..i : w[j].loud
Row(w, c) ==
    /\ c <= Len(w)
    /\ \A j \in (Len(w) - c + 1)..Len(w) : w[j].loud
    /\ c < Len(w) => ~w[Len(w) - c].loud
Told(w) == \A i \in DOMAIN w : w[i].fate = "few" <=> ~InRow(w, i)

LEMMA RowForms ==
  /\ CountsRow <=> \A k \in Keys : Row(windows[k], counts[k])
  /\ FatesTrue <=> \A k \in Keys : Told(windows[k])
  BY DEF CountsRow, FatesTrue, Row, Told, Sustained, InRow

LEMMA RowFormsPrime ==
  /\ CountsRow' <=> \A k \in Keys : Row(windows'[k], counts'[k])
  /\ FatesTrue' <=> \A k \in Keys : Told(windows'[k])
  BY DEF CountsRow, FatesTrue, Row, Told, Sustained, InRow

\* Another fate, other than few, for windows that are not few.
LEMMA RowSame ==
  ASSUME NEW v, NEW w, Len(v) \in Nat, DOMAIN v = 1..Len(v), Len(w) = Len(v), DOMAIN w = DOMAIN v,
         \A i \in DOMAIN v : w[i].loud = v[i].loud /\ (w[i].fate = "few" <=> v[i].fate = "few"),
         NEW c \in Nat, Row(v, c), Told(v)
  PROVE  Row(w, c) /\ Told(w)
  <1> USE RiskAssumption
  <1>1. Row(w, c)
    BY DEF Row
  <1>2. ASSUME NEW i \in DOMAIN v PROVE InRow(w, i) <=> InRow(v, i)
    <2>1. i >= Required => \A j \in (i - Required + 1)..i : j \in DOMAIN v
      OBVIOUS
    <2> QED
      BY <2>1 DEF InRow
  <1> QED
    BY <1>1, <1>2 DEF Told

\* One more window.
LEMMA RowAppend ==
  ASSUME NEW v, NEW w, NEW n \in Nat, Len(v) = n, DOMAIN v = 1..n,
         Len(w) = n + 1, DOMAIN w = 1..(n + 1), \A i \in 1..n : w[i] = v[i],
         NEW c \in Nat, Row(v, c), Told(v),
         w[n + 1].loud \in BOOLEAN,
         NEW d \in Nat, d = (IF w[n + 1].loud THEN c + 1 ELSE 0),
         w[n + 1].fate = (IF d < Required THEN "few" ELSE "inside")
  PROVE  Row(w, d) /\ Told(w)
  <1> USE RiskAssumption
  <1>1. Row(w, d)
    <2>1. CASE w[n + 1].loud
      BY <2>1 DEF Row
    <2>2. CASE ~w[n + 1].loud
      BY <2>2 DEF Row
    <2> QED
      BY <2>1, <2>2
  <1>2. ASSUME NEW i \in 1..n PROVE InRow(w, i) <=> InRow(v, i)
    <2>1. i >= Required => \A j \in (i - Required + 1)..i : j \in 1..n
      OBVIOUS
    <2> QED
      BY <2>1 DEF InRow
  <1>3. d < Required <=> ~InRow(w, n + 1)
    <2>1. CASE d >= Required
      BY <1>1, <2>1 DEF Row, InRow
    <2>2. CASE d < Required
      <3>1. n + 1 >= Required =>
              n + 1 - d \in (n + 1 - Required + 1)..(n + 1) /\ ~w[n + 1 - d].loud
        BY <1>1, <2>2 DEF Row
      <3> QED
        BY <2>2, <3>1 DEF InRow
    <2> QED
      BY <2>1, <2>2
  <1>4. w[n + 1].fate = "few" <=> ~InRow(w, n + 1)
    BY <1>3
  <1>5. ASSUME NEW i \in 1..n PROVE w[i].fate = "few" <=> ~InRow(w, i)
    BY <1>2, <1>5 DEF Told
  <1> QED
    BY <1>1, <1>4, <1>5 DEF Told

LEMMA RowStep ==
  ASSUME TypeOK, PlacesHeld, CountsRow, FatesTrue, [Next]_vars
  PROVE  CountsRow' /\ FatesTrue'
  <1>1. \A k \in Keys : Len(windows[k]) \in Nat /\ DOMAIN windows[k] = 1..Len(windows[k]) /\ counts[k] \in Nat
    BY ElementFacts DEF TypeOK
  <1>2. \A k \in Keys : Row(windows[k], counts[k]) /\ Told(windows[k])
    BY RowForms
  <1>3. CASE ~\E t \in Threads : Count(t)
    <2>1. ASSUME NEW k \in Keys PROVE Row(windows'[k], counts'[k]) /\ Told(windows'[k])
      <3>1. counts'[k] = counts[k]
        BY <1>3, CountsSame
      <3>2. /\ Len(windows'[k]) = Len(windows[k]) /\ DOMAIN windows'[k] = DOMAIN windows[k]
            /\ \A i \in DOMAIN windows[k] :
                  /\ windows'[k][i].loud = windows[k][i].loud
                  /\ windows'[k][i].fate = "few" <=> windows[k][i].fate = "few"
        BY <1>3, WindowsKept
      <3> QED
        BY <1>1, <1>2, <3>1, <3>2, RowSame
    <2> QED
      BY <2>1, RowFormsPrime
  <1>4. ASSUME NEW t \in Threads, Count(t) PROVE CountsRow' /\ FatesTrue'
    <2>1. ASSUME NEW k \in Keys PROVE Row(windows'[k], counts'[k]) /\ Told(windows'[k])
      <3>1. CASE k # Key(t)
        BY <1>2, <1>4, <3>1, Counted
      <3>2. CASE k = Key(t)
        <4> DEFINE w == windows'[k]
                   n == Len(windows[k])
        <4>1. /\ Len(w) = n + 1 /\ DOMAIN w = 1..(n + 1)
              /\ \A i \in 1..n : w[i] = windows[k][i]
              /\ w[n + 1] = [loud |-> thread[t].loud, now |-> thread[t].now, fate |-> Fate(t)]
              /\ counts'[k] = NewCount(t)
              /\ thread[t].loud \in BOOLEAN
          BY <1>1, <1>4, <3>2, Counted DEF Call
        <4>2. NewCount(t) = (IF w[n + 1].loud THEN counts[k] + 1 ELSE 0) /\ NewCount(t) \in Nat
          BY <1>1, <3>2, <4>1 DEF NewCount
        <4>3. w[n + 1].fate = (IF NewCount(t) < Required THEN "few" ELSE "inside")
          BY <4>1 DEF Fate
        <4>4. n \in Nat /\ DOMAIN windows[k] = 1..n /\ w[n + 1].loud \in BOOLEAN /\ Row(windows[k], counts[k])
              /\ Told(windows[k]) /\ counts[k] \in Nat
          BY <1>1, <1>2, <4>1
        <4>5. Len(windows[k]) = n
          OBVIOUS
        <4> HIDE DEF w, n
        <4>6. Row(w, NewCount(t)) /\ Told(w)
          BY <4>1, <4>2, <4>3, <4>4, <4>5, RowAppend
        <4> QED
          BY <4>1, <4>6 DEF w
      <3> QED
        BY <3>1, <3>2
    <2> QED
      BY <2>1, RowFormsPrime
  <1> QED
    BY <1>3, <1>4

-----------------------------------------------------------------------------
(* How a call goes on.                                                     *)

Goes(u) ==
    /\ Inside(u)
    /\ thread'[u].key = thread[u].key /\ thread'[u].now = thread[u].now
    /\ thread'[u].before = thread[u].before
    /\ thread'[u].alone => thread[u].alone
    /\ thread'[u].pc = "decide" =>
           \/ Look(u)
           \/ At(u, "decide") /\ thread'[u].last = thread[u].last
Begins(u) == \E k \in Keys, loud, high \in BOOLEAN : Begin(u, k, loud, high)

LEMMA CallStep ==
  ASSUME TypeOK, [Next]_vars, NEW u \in Threads, Inside(u)'
  PROVE  Goes(u) \/ Begins(u)
  <1>1. CASE Tick \/ UNCHANGED vars
    BY <1>1 DEF Tick, vars, Goes, Inside, At
  <1>2. ASSUME NEW t \in Threads, NEW k \in Keys, NEW loud \in BOOLEAN, NEW high \in BOOLEAN, Begin(t, k, loud, high)
        PROVE Goes(u) \/ Begins(u)
    <2>1. CASE t = u
      BY <1>2, <2>1 DEF Begins
    <2>2. CASE t # u /\ thread'[u] = thread[u]
      BY <2>2 DEF Goes, Inside, At
    <2>3. CASE t # u /\ thread'[u] # thread[u]
      <3>1. Inside(u) /\ thread'[u] = [thread[u] EXCEPT !.alone = FALSE]
        BY <1>2, <2>3 DEF Begin
      <3>2. thread[u] \in Call
        BY <3>1, InCall DEF Inside
      <3> QED
        BY <3>1, <3>2 DEF Goes, At, Call
    <2> QED
      BY <2>1, <2>2, <2>3
  <1>3. ASSUME NEW t \in Threads,
               Count(t) \/ Look(t) \/ Suppress(t) \/ Announce(t) \/ Dismiss(t) \/ Save(t) \/ SaveFails(t)
        PROVE Goes(u) \/ Begins(u)
    <2>1. CASE t # u
      <3>1. thread'[u] = thread[u]
        BY <1>3, <2>1 DEF Count, Look, Suppress, Announce, Dismiss, Save, SaveFails, Settle, TypeOK
      <3> QED
        BY <3>1 DEF Goes, Inside, At
    <2>2. CASE t = u /\ Count(t)
      <3>1. thread[u] \in Call
        BY <2>2, InCall DEF Count, At
      <3> QED
        BY <2>2, <3>1 DEF Count, Goes, Inside, At, Call, TypeOK
    <2>3. CASE t = u /\ Look(t)
      <3>1. thread[u] \in Call
        BY <2>3, InCall DEF Look, At
      <3> QED
        BY <2>3, <3>1 DEF Look, Goes, Inside, At, Call, TypeOK
    <2>4. CASE t = u /\ (Suppress(t) \/ Announce(t))
      <3>1. thread[u] \in Call
        BY <2>4, InCall DEF Suppress, Announce, At
      <3>2. thread'[u].pc = "save"
        BY <2>4, <3>1 DEF Suppress, Announce, Call, TypeOK
      <3> QED
        BY <3>2 DEF Inside
    <2>5. CASE t = u /\ (Dismiss(t) \/ Save(t) \/ SaveFails(t))
      <3>1. thread'[u].pc = "idle"
        BY <2>5 DEF Dismiss, Save, SaveFails, Settle, Idle, TypeOK
      <3> QED
        BY <3>1 DEF Inside
    <2> QED
      BY <1>3, <2>1, <2>2, <2>3, <2>4, <2>5
  <1> QED
    BY <1>1, <1>2, <1>3 DEF Next, Step

LEMMA BeginFacts ==
  ASSUME TypeOK, NEW u \in Threads, Begins(u)
  PROVE  /\ ~Inside(u) /\ thread'[u].pc = "count"
         /\ thread'[u].now = clock
         /\ thread'[u].key \in Keys /\ thread'[u].before = Len(decided[thread'[u].key])
         /\ thread'[u].alone => \A v \in Threads : Inside(v) => Key(v) # thread'[u].key
         /\ \A v \in Threads : v # u /\ Inside(v) /\ Key(v) = thread'[u].key => ~thread'[v].alone
         /\ \A v \in Threads : v # u /\ ~Inside(v) => ~Inside(v)'
         /\ UNCHANGED <<clock, counts, lastAlert, windows, decided>>
  <1>1. PICK k \in Keys, loud \in BOOLEAN, high \in BOOLEAN : Begin(u, k, loud, high)
    BY DEF Begins
  <1>2. thread'[u].pc = "count" /\ thread'[u].now = clock /\ thread'[u].key = k /\ thread'[u].before = Len(decided[k])
        /\ (thread'[u].alone <=> {v \in Threads : Inside(v) /\ Key(v) = k} = {})
    BY <1>1 DEF Begin, TypeOK
  <1>3. ASSUME NEW v \in Threads, v # u, Inside(v), Key(v) = k PROVE ~thread'[v].alone
    <2>1. thread'[v] = [thread[v] EXCEPT !.alone = FALSE]
      BY <1>1, <1>3 DEF Begin
    <2>2. thread[v] \in Call
      BY <1>3, InCall DEF Inside
    <2> QED
      BY <2>1, <2>2 DEF Call
  <1>4. ASSUME NEW v \in Threads, v # u, ~Inside(v) PROVE ~Inside(v)'
    <2>1. thread'[v] = thread[v]
      BY <1>1, <1>4 DEF Begin
    <2> QED
      BY <1>4, <2>1 DEF Inside
  <1>5. ~Inside(u)
    BY <1>1 DEF Begin, At, Inside
  <1>6. UNCHANGED <<clock, counts, lastAlert, windows, decided>>
    BY <1>1 DEF Begin
  <1> QED
    BY <1>2, <1>3, <1>4, <1>5, <1>6

LEMMA ShortStep == TypeOK /\ CallsShort /\ [Next]_vars => CallsShort'
  <1> SUFFICES ASSUME TypeOK, CallsShort, [Next]_vars, NEW u \in Threads, Inside(u)'
               PROVE  thread'[u].now <= clock' /\ clock' <= thread'[u].now + MaxDelay
    BY DEF CallsShort
  <1>1. clock \in Nat /\ MaxDelay \in Nat
    BY RiskAssumption DEF TypeOK
  <1>2. CASE Begins(u)
    BY <1>1, <1>2, BeginFacts
  <1>3. CASE Goes(u) /\ ~Tick
    <2>1. clock' = clock
      BY <1>3 DEF Next, Step, Begin, Count, Look, Suppress, Announce, Dismiss, Save, SaveFails, Settle, vars
    <2> QED
      BY <1>3, <2>1 DEF Goes, CallsShort
  <1>4. CASE Goes(u) /\ Tick
    <2>1. thread[u] \in Call /\ thread[u].now \in Nat
      BY <1>4, InCall DEF Goes, Inside, Call
    <2> QED
      BY <1>1, <1>4, <2>1 DEF Goes, CallsShort, Tick
  <1> QED
    BY <1>2, <1>3, <1>4, CallStep

LEMMA AloneStep == TypeOK /\ AloneTrue /\ [Next]_vars => AloneTrue'
  <1> SUFFICES ASSUME TypeOK, AloneTrue, [Next]_vars, NEW t \in Threads, NEW u \in Threads,
                      t # u, Inside(t)', Inside(u)', thread'[t].key = thread'[u].key
               PROVE  ~thread'[t].alone
    BY DEF AloneTrue, Key
  <1>1. CASE Begins(t)
    <2>1. Inside(u)
      BY <1>1, BeginFacts
    <2>2. ~Begins(u)
      BY <2>1, BeginFacts
    <2>3. Key(u) = thread'[t].key
      BY <2>2, CallStep DEF Goes, Key
    <2> QED
      BY <1>1, <2>1, <2>3, BeginFacts
  <1>2. CASE Goes(t) /\ Begins(u)
    BY <1>2, BeginFacts DEF Goes, Key
  <1>3. CASE Goes(t) /\ Goes(u)
    BY <1>3 DEF Goes, AloneTrue, Key
  <1> QED
    BY <1>1, <1>2, <1>3, CallStep
-----------------------------------------------------------------------------
(* Alerts decided and their times.                                         *)

LEMMA DecidedSame ==
  ASSUME [Next]_vars, ~\E t \in Threads : Announce(t)
  PROVE  decided' = decided /\ lastAlert' = lastAlert
  BY DEF Next, Step, Tick, Begin, Count, Look, Suppress, Dismiss, Save, SaveFails, Settle, vars

LEMMA ClockGrows ==
  ASSUME TypeOK, [Next]_vars
  PROVE  clock \in Nat /\ clock' \in Nat /\ clock' >= clock /\ (~Tick => clock' = clock)
  <1>1. clock \in Nat
    BY DEF TypeOK
  <1>2. CASE Tick
    BY <1>1, <1>2 DEF Tick
  <1>3. ASSUME ~Tick PROVE clock' = clock
    BY <1>3 DEF Next, Step, Begin, Count, Look, Suppress, Announce, Dismiss, Save, SaveFails, Settle, vars
  <1> QED
    BY <1>1, <1>2, <1>3

LEMMA DecidedFacts ==
  ASSUME TypeOK, NEW k \in Keys
  PROVE  /\ Len(decided[k]) \in Nat /\ DOMAIN decided[k] = 1..Len(decided[k])
         /\ \A d \in DOMAIN decided[k] :
                /\ decided[k][d].now \in Nat /\ decided[k][d].before \in Nat
                /\ decided[k][d].alone \in BOOLEAN
         /\ lastAlert[k] \in Moment
  <1>1. decided[k] \in Seq(Decision)
    BY DEF TypeOK
  <1>2. lastAlert[k] \in Moment
    BY DEF TypeOK
  <1>3. /\ Len(decided[k]) \in Nat /\ DOMAIN decided[k] = 1..Len(decided[k])
        /\ \A d \in DOMAIN decided[k] : decided[k][d] \in Decision
    BY <1>1, ElementFacts
  <1>4. \A e \in Decision : e.now \in Nat /\ e.before \in Nat /\ e.alone \in BOOLEAN
    BY DEF Decision
  <1> QED
    BY <1>2, <1>3, <1>4

\* What Announce does to the decisions of its source.
LEMMA Announced ==
  ASSUME TypeOK, NEW t \in Threads, Announce(t)
  PROVE  /\ Key(t) \in Keys /\ thread[t] \in Call /\ At(t, "decide") /\ ~Cool(t)
         /\ \A k \in Keys \ {Key(t)} : decided'[k] = decided[k] /\ lastAlert'[k] = lastAlert[k]
         /\ Len(decided'[Key(t)]) = Len(decided[Key(t)]) + 1
         /\ DOMAIN decided'[Key(t)] = 1..(Len(decided[Key(t)]) + 1)
         /\ \A i \in DOMAIN decided[Key(t)] : decided'[Key(t)][i] = decided[Key(t)][i]
         /\ decided'[Key(t)][Len(decided[Key(t)]) + 1] =
              [now |-> thread[t].now, before |-> thread[t].before, alone |-> thread[t].alone]
         /\ lastAlert'[Key(t)] = thread[t].now
         /\ \A u \in Threads \ {t} : thread'[u] = thread[u]
         /\ thread'[t].pc = "save"
  <1>1. thread[t] \in Call /\ Key(t) \in Keys
    BY InCall DEF Announce, At
  <1> DEFINE e == [now |-> thread[t].now, before |-> thread[t].before, alone |-> thread[t].alone]
  <1>2. e \in Decision
    BY <1>1 DEF Decision, Call
  <1>3. decided' = [decided EXCEPT ![Key(t)] = Append(decided[Key(t)], e)]
    BY DEF Announce
  <1>4. decided[Key(t)] \in Seq(Decision)
    BY <1>1 DEF TypeOK
  <1> HIDE DEF e
  <1>5. /\ decided'[Key(t)] = Append(decided[Key(t)], e)
        /\ \A k \in Keys \ {Key(t)} : decided'[k] = decided[k]
    BY <1>1, <1>3 DEF TypeOK
  <1>6. /\ lastAlert'[Key(t)] = thread[t].now
        /\ \A k \in Keys \ {Key(t)} : lastAlert'[k] = lastAlert[k]
    BY <1>1 DEF Announce, TypeOK
  <1>7. /\ Len(Append(decided[Key(t)], e)) = Len(decided[Key(t)]) + 1
        /\ DOMAIN Append(decided[Key(t)], e) = 1..(Len(decided[Key(t)]) + 1)
        /\ \A i \in DOMAIN decided[Key(t)] : Append(decided[Key(t)], e)[i] = decided[Key(t)][i]
        /\ Append(decided[Key(t)], e)[Len(decided[Key(t)]) + 1] = e
    BY <1>2, <1>4, AppendFacts
  <1>8. (\A u \in Threads \ {t} : thread'[u] = thread[u]) /\ thread'[t].pc = "save"
    BY <1>1 DEF Announce, TypeOK, Call
  <1>9. At(t, "decide") /\ ~Cool(t)
    BY DEF Announce
  <1> QED
    BY <1>1, <1>5, <1>6, <1>7, <1>8, <1>9 DEF e

\* Decisions are never taken back.
Keeps(k) == \A d \in DOMAIN decided[k] : d \in DOMAIN decided'[k] /\ decided'[k][d] = decided[k][d]
LEMMA DecidedKept ==
  ASSUME TypeOK, [Next]_vars, NEW k \in Keys
  PROVE  Keeps(k)
  <1>1. CASE ~\E t \in Threads : Announce(t)
    BY <1>1, DecidedSame DEF Keeps
  <1>2. ASSUME NEW t \in Threads, Announce(t) PROVE Keeps(k)
    <2>1. CASE k # Key(t)
      <3>1. decided'[k] = decided[k]
        BY <1>2, <2>1, Announced
      <3> QED
        BY <3>1 DEF Keeps
    <2>2. CASE k = Key(t)
      <3>1. /\ DOMAIN decided'[k] = 1..(Len(decided[k]) + 1)
            /\ \A i \in DOMAIN decided[k] : decided'[k][i] = decided[k][i]
        BY <1>2, <2>2, Announced
      <3>2. Len(decided[k]) \in Nat /\ DOMAIN decided[k] = 1..Len(decided[k])
        BY DecidedFacts
      <3> QED
        BY <3>1, <3>2 DEF Keeps
    <2> QED
      BY <2>1, <2>2
  <1> QED
    BY <1>1, <1>2

LEMMA IsDecidedKept ==
  ASSUME TypeOK, [Next]_vars, NEW k \in Keys, NEW moment, IsDecided(k, moment)
  PROVE  \E d \in DOMAIN decided'[k] : decided'[k][d].now = moment
  BY DecidedKept DEF IsDecided, Keeps

LEMMA CoveredKept ==
  ASSUME TypeOK, [Next]_vars, NEW k \in Keys, NEW moment, Covered(k, moment)
  PROVE  \E d \in DOMAIN decided'[k] :
           moment - decided'[k][d].now < Cooldown /\ decided'[k][d].now - moment <= MaxDelay
  BY DecidedKept DEF Covered, Keeps

\* A call that has looked saw the time of its source's last alert.
LEMMA LookStep ==
  ASSUME TypeOK, [Next]_vars, NEW u \in Threads, At(u, "decide")'
  PROVE  /\ Goes(u) /\ Inside(u) /\ Key(u) \in Keys /\ thread[u] \in Call
         /\ thread'[u].key = Key(u) /\ thread'[u].now = thread[u].now /\ thread'[u].before = thread[u].before
         /\ \/ thread'[u].last = lastAlert[Key(u)] /\ decided' = decided /\ lastAlert' = lastAlert /\ clock' = clock
            \/ At(u, "decide") /\ thread'[u].last = thread[u].last
  <1>1. thread'[u].pc = "decide" /\ Inside(u)'
    BY DEF At, Inside
  <1>2. ~Begins(u)
    BY <1>1, BeginFacts
  <1>3. Goes(u)
    BY <1>1, <1>2, CallStep
  <1>4. Inside(u) /\ Key(u) \in Keys /\ thread[u] \in Call
    BY <1>3, InCall DEF Goes, Inside
  <1>5. CASE Look(u)
    <2>1. thread'[u].last = lastAlert[Key(u)]
      BY <1>4, <1>5 DEF Look, TypeOK, Call
    <2> QED
      BY <1>3, <1>4, <1>5, <2>1 DEF Goes, Key, Look
  <1> QED
    BY <1>1, <1>3, <1>4, <1>5 DEF Goes, Key
\* A decision is an old one, or the one a thread has just taken.
LEMMA DecidedStep ==
  ASSUME TypeOK, [Next]_vars, NEW k \in Keys, NEW i \in DOMAIN decided'[k]
  PROVE  \/ /\ i \in DOMAIN decided[k] /\ i <= Len(decided[k])
            /\ decided'[k][i] = decided[k][i]
         \/ \E t \in Threads :
              /\ Announce(t) /\ Key(t) = k /\ i = Len(decided[k]) + 1
              /\ decided'[k][i].now = thread[t].now
              /\ decided'[k][i].before = thread[t].before
              /\ decided'[k][i].alone = thread[t].alone
  <1>0. Len(decided[k]) \in Nat /\ DOMAIN decided[k] = 1..Len(decided[k])
    BY DecidedFacts
  <1>1. CASE decided'[k] = decided[k]
    BY <1>0, <1>1
  <1>2. ASSUME NEW t \in Threads, Announce(t), k = Key(t)
        PROVE  \/ i \in DOMAIN decided[k] /\ i <= Len(decided[k]) /\ decided'[k][i] = decided[k][i]
               \/ /\ i = Len(decided[k]) + 1
                  /\ decided'[k][i].now = thread[t].now
                  /\ decided'[k][i].before = thread[t].before
                  /\ decided'[k][i].alone = thread[t].alone
    <2>1. /\ DOMAIN decided'[k] = 1..(Len(decided[k]) + 1)
          /\ \A d \in DOMAIN decided[k] : decided'[k][d] = decided[k][d]
          /\ decided'[k][Len(decided[k]) + 1] =
              [now |-> thread[t].now, before |-> thread[t].before, alone |-> thread[t].alone]
      BY <1>2, Announced
    <2>2. i \in 1..(Len(decided[k]) + 1)
      BY <2>1
    <2>3. i \in 1..Len(decided[k]) \/ i = Len(decided[k]) + 1
      BY <1>0, <2>2
    <2>4. CASE i \in 1..Len(decided[k])
      BY <1>0, <2>1, <2>4
    <2>5. CASE i = Len(decided[k]) + 1
      BY <2>1, <2>5
    <2> QED
      BY <2>3, <2>4, <2>5
  <1>3. CASE ~\E t \in Threads : Announce(t)
    BY <1>1, <1>3, DecidedSame
  <1>4. ASSUME NEW t \in Threads, Announce(t), k # Key(t) PROVE decided'[k] = decided[k]
    BY <1>4, Announced
  <1> QED
    BY <1>1, <1>2, <1>3, <1>4

LEMMA LastDecidedStep ==
  ASSUME TypeOK, CallsShort, LastDecided, [Next]_vars
  PROVE  LastDecided'
  <1>1. ASSUME NEW k \in Keys, lastAlert'[k] # Never
        PROVE  \E d \in DOMAIN decided'[k] : decided'[k][d].now = lastAlert'[k]
    <2>1. CASE lastAlert'[k] = lastAlert[k]
      BY <1>1, <2>1, IsDecidedKept DEF LastDecided
    <2>2. ASSUME NEW t \in Threads, Announce(t), k = Key(t)
          PROVE  \E d \in DOMAIN decided'[k] : decided'[k][d].now = lastAlert'[k]
      <3>1. /\ DOMAIN decided'[k] = 1..(Len(decided[k]) + 1)
            /\ decided'[k][Len(decided[k]) + 1] =
                 [now |-> thread[t].now, before |-> thread[t].before, alone |-> thread[t].alone]
            /\ lastAlert'[k] = thread[t].now
        BY <2>2, Announced
      <3>2. Len(decided[k]) + 1 \in 1..(Len(decided[k]) + 1)
        BY DecidedFacts
      <3> QED
        BY <3>1, <3>2
    <2>3. CASE ~\E t \in Threads : Announce(t)
      BY <2>1, <2>3, DecidedSame
    <2>4. ASSUME NEW t \in Threads, Announce(t), k # Key(t) PROVE lastAlert'[k] = lastAlert[k]
      BY <2>4, Announced
    <2> QED
      BY <2>1, <2>2, <2>3, <2>4
  <1>2. ASSUME NEW t \in Threads, At(t, "decide")', thread'[t].last # Never
        PROVE  \E d \in DOMAIN decided'[thread'[t].key] : decided'[thread'[t].key][d].now = thread'[t].last
    <2>1. /\ thread'[t].key = Key(t) /\ Key(t) \in Keys
          /\ thread'[t].last = lastAlert[Key(t)] \/ (At(t, "decide") /\ thread'[t].last = thread[t].last)
      BY <1>2, LookStep
    <2>2. IsDecided(Key(t), thread'[t].last)
      BY <1>2, <2>1 DEF LastDecided
    <2> QED
      BY <2>1, <2>2, IsDecidedKept
  <1>3. ASSUME NEW k \in Keys, NEW d \in DOMAIN decided'[k]
        PROVE  decided'[k][d].now <= clock'
    <2>1. clock \in Nat /\ clock' \in Nat /\ clock' >= clock
      BY ClockGrows
    <2>2. ASSUME d \in DOMAIN decided[k], decided'[k][d] = decided[k][d] PROVE decided'[k][d].now <= clock'
      <3>1. decided[k][d].now \in Nat /\ decided[k][d].now <= clock
        BY <2>2, DecidedFacts DEF LastDecided
      <3> QED
        BY <2>1, <2>2, <3>1
    <2>3. ASSUME NEW t \in Threads, Announce(t), decided'[k][d].now = thread[t].now
          PROVE  decided'[k][d].now <= clock'
      <3>1. thread[t] \in Call /\ At(t, "decide")
        BY <2>3, Announced
      <3>2. thread[t].now \in Nat /\ thread[t].now <= clock
        BY <3>1 DEF CallsShort, Inside, At, Call
      <3> QED
        BY <2>1, <2>3, <3>2
    <2> QED
      BY <2>2, <2>3, DecidedStep
  <1>4. ASSUME NEW t \in Threads, At(t, "decide")'
        PROVE  thread'[t].last <= thread'[t].now + MaxDelay
    <2>1. /\ Key(t) \in Keys /\ Inside(t) /\ thread[t] \in Call /\ thread'[t].now = thread[t].now
          /\ thread'[t].last = lastAlert[Key(t)] \/ (At(t, "decide") /\ thread'[t].last = thread[t].last)
      BY <1>4, LookStep
    <2>2. thread[t].now \in Nat /\ clock \in Nat /\ clock <= thread[t].now + MaxDelay /\ MaxDelay \in Nat
      BY <2>1, RiskAssumption DEF CallsShort, TypeOK, Call
    <2>3. lastAlert[Key(t)] <= thread[t].now + MaxDelay
      <3>1. CASE lastAlert[Key(t)] = Never
        BY <2>2, <3>1, NeverPast
      <3>2. CASE lastAlert[Key(t)] # Never
        <4>1. PICK d \in DOMAIN decided[Key(t)] : decided[Key(t)][d].now = lastAlert[Key(t)]
          BY <2>1, <3>2 DEF LastDecided, IsDecided
        <4>2. decided[Key(t)][d].now <= clock /\ decided[Key(t)][d].now \in Nat
          BY <2>1, DecidedFacts DEF LastDecided
        <4> QED
          BY <2>2, <4>1, <4>2
      <3> QED
        BY <3>1, <3>2
    <2> QED
      BY <2>1, <2>3 DEF LastDecided
  <1> QED
    BY <1>1, <1>2, <1>3, <1>4 DEF LastDecided, IsDecided, Key

LEMMA SuppressedStep ==
  ASSUME TypeOK, PlacesHeld, LastDecided, SuppressedCovered, [Next]_vars
  PROVE  SuppressedCovered'
  <1> SUFFICES ASSUME NEW k \in Keys, NEW i \in DOMAIN windows'[k], windows'[k][i].fate = "suppressed"
               PROVE  \E d \in DOMAIN decided'[k] :
                        /\ windows'[k][i].now - decided'[k][d].now < Cooldown
                        /\ decided'[k][d].now - windows'[k][i].now <= MaxDelay
    BY DEF SuppressedCovered, Covered
  <1>1. ASSUME i \in DOMAIN windows[k], windows[k][i].fate = "suppressed", windows'[k][i].now = windows[k][i].now
        PROVE  Covered(k, windows'[k][i].now)
    BY <1>1 DEF SuppressedCovered
  <1>2. ASSUME NEW t \in Threads, Suppress(t), Key(t) = k, windows'[k][i].now = thread[t].now
        PROVE  Covered(k, windows'[k][i].now)
    <2>1. thread[t] \in Call /\ At(t, "decide") /\ thread[t].now - thread[t].last < Cooldown
      BY <1>2, InCall DEF Suppress, At, Cool
    <2>2. thread[t].now \in Nat /\ thread[t].last <= thread[t].now + MaxDelay
      BY <2>1 DEF Call, LastDecided
    <2>3. thread[t].last # Never
      BY <2>1, <2>2, NeverPast, RiskAssumption
    <2>4. PICK d \in DOMAIN decided[k] : decided[k][d].now = thread[t].last
      BY <1>2, <2>1, <2>3 DEF LastDecided, IsDecided
    <2>5. thread[t].last \in Nat
      BY <2>4, DecidedFacts
    <2> QED
      BY <1>2, <2>1, <2>2, <2>4, <2>5, RiskAssumption DEF Covered
  <1>3. CASE ~\E t \in Threads : Count(t)
    BY <1>1, <1>2, <1>3, WindowsKept, CoveredKept
  <1>4. ASSUME NEW t \in Threads, Count(t)
        PROVE i \in DOMAIN windows[k] /\ windows'[k][i] = windows[k][i]
    <2>1. CASE k # Key(t)
      BY <1>4, <2>1, Counted
    <2>2. CASE k = Key(t)
      <3>1. /\ Len(windows[k]) \in Nat /\ DOMAIN windows[k] = 1..Len(windows[k])
            /\ DOMAIN windows'[k] = 1..(Len(windows[k]) + 1)
            /\ \A d \in DOMAIN windows[k] : windows'[k][d] = windows[k][d]
            /\ windows'[k][Len(windows[k]) + 1] =
                 [loud |-> thread[t].loud, now |-> thread[t].now, fate |-> Fate(t)]
        BY <1>4, <2>2, Counted
      <3>2. i # Len(windows[k]) + 1
        BY <3>1 DEF Fate
      <3> QED
        BY <3>1, <3>2
    <2> QED
      BY <2>1, <2>2
  <1>5. ASSUME NEW t \in Threads, Count(t) PROVE Covered(k, windows'[k][i].now)
    BY <1>1, <1>4, <1>5
  <1> QED
    BY <1>3, <1>5, CoveredKept
-----------------------------------------------------------------------------
(* The cooldown.                                                           *)

\* Behind and the bounds on a call, for the sequence of one source's decisions.
Lags(e, moment) == moment >= e.now - MaxDelay /\ (e.alone => moment >= e.now)
Since(e, u) == e.alone => e.now <= thread[u].now

LEMMA LastBehindForms ==
  /\ LastBehind <=>
       /\ \A k \in Keys : \A i \in DOMAIN decided[k] : Lags(decided[k][i], lastAlert[k])
       /\ \A t \in Threads : Inside(t) =>
              /\ thread[t].before <= Len(decided[Key(t)])
              /\ \A i \in DOMAIN decided[Key(t)] :
                     /\ Since(decided[Key(t)][i], t)
                     /\ At(t, "decide") /\ i <= thread[t].before => Lags(decided[Key(t)][i], thread[t].last)
       /\ \A k \in Keys : \A j \in DOMAIN decided[k] : decided[k][j].before < j
  BY DEF LastBehind, Behind, Lags, Since

LEMMA LastBehindFormsPrime ==
  /\ LastBehind' <=>
       /\ \A k \in Keys : \A i \in DOMAIN decided'[k] : Lags(decided'[k][i], lastAlert'[k])
       /\ \A t \in Threads : Inside(t)' =>
              /\ thread'[t].before <= Len(decided'[thread'[t].key])
              /\ \A i \in DOMAIN decided'[thread'[t].key] :
                     /\ decided'[thread'[t].key][i].alone => decided'[thread'[t].key][i].now <= thread'[t].now
                     /\ At(t, "decide")' /\ i <= thread'[t].before =>
                            Lags(decided'[thread'[t].key][i], thread'[t].last)
       /\ \A k \in Keys : \A j \in DOMAIN decided'[k] : decided'[k][j].before < j
  BY DEF LastBehind, Behind, Lags, Key

\* The time of the last alert lies at most MaxDelay behind any decision.
LEMMA LastLags ==
  ASSUME TypeOK, CallsShort, LastDecided, LastBehind, [Next]_vars,
         NEW k \in Keys, NEW i \in DOMAIN decided'[k]
  PROVE  Lags(decided'[k][i], lastAlert'[k])
  <1>0. \A d \in DOMAIN decided[k] : Lags(decided[k][d], lastAlert[k])
    BY LastBehindForms
  <1>1. CASE ~\E t \in Threads : Announce(t)
    BY <1>0, <1>1, DecidedSame
  <1>2. ASSUME NEW t \in Threads, Announce(t), k # Key(t) PROVE Lags(decided'[k][i], lastAlert'[k])
    <2>1. decided'[k] = decided[k] /\ lastAlert'[k] = lastAlert[k]
      BY <1>2, Announced
    <2> QED
      BY <1>0, <2>1
  <1>3. ASSUME NEW t \in Threads, Announce(t), k = Key(t) PROVE Lags(decided'[k][i], lastAlert'[k])
    <2>1. /\ thread[t] \in Call /\ At(t, "decide") /\ lastAlert'[k] = thread[t].now
          /\ DOMAIN decided'[k] = 1..(Len(decided[k]) + 1)
          /\ \A d \in DOMAIN decided[k] : decided'[k][d] = decided[k][d]
          /\ decided'[k][Len(decided[k]) + 1] =
              [now |-> thread[t].now, before |-> thread[t].before, alone |-> thread[t].alone]
      BY <1>3, Announced
    <2>2. Len(decided[k]) \in Nat /\ DOMAIN decided[k] = 1..Len(decided[k])
      BY DecidedFacts
    <2>3. Inside(t) /\ thread[t].now \in Nat /\ clock \in Nat /\ clock <= thread[t].now + MaxDelay
      BY <2>1 DEF Call, CallsShort, Inside, At, TypeOK
    <2>4. CASE i = Len(decided[k]) + 1
      BY <2>1, <2>3, <2>4, RiskAssumption DEF Lags
    <2>5. CASE i \in DOMAIN decided[k]
      <3>1. decided[k][i].now \in Nat /\ decided[k][i].now <= clock
        BY <2>5, DecidedFacts DEF LastDecided
      <3>2. Since(decided[k][i], t)
        BY <1>3, <2>3, <2>5, LastBehindForms
      <3>3. Lags(decided[k][i], thread[t].now)
        BY <2>3, <3>1, <3>2, RiskAssumption DEF Lags, Since
      <3> QED
        BY <2>1, <2>5, <3>3
    <2> QED
      BY <2>1, <2>2, <2>4, <2>5
  <1> QED
    BY <1>1, <1>2, <1>3

\* A call knows no more decisions than there are, and none before it that kept
\* to itself is later than it.
LEMMA CallsBehind ==
  ASSUME TypeOK, CallsShort, LastDecided, AloneTrue, LastBehind, [Next]_vars,
         NEW u \in Threads, Inside(u)'
  PROVE  /\ thread'[u].before <= Len(decided'[thread'[u].key])
         /\ \A i \in DOMAIN decided'[thread'[u].key] :
                /\ decided'[thread'[u].key][i].alone => decided'[thread'[u].key][i].now <= thread'[u].now
                /\ At(u, "decide")' /\ i <= thread'[u].before =>
                       Lags(decided'[thread'[u].key][i], thread'[u].last)
  <1>1. CASE Begins(u)
    <2>1. /\ thread'[u].key \in Keys /\ thread'[u].before = Len(decided[thread'[u].key])
          /\ decided' = decided /\ thread'[u].now = clock /\ thread'[u].pc = "count"
      BY <1>1, BeginFacts
    <2>2. Len(decided[thread'[u].key]) \in Nat
      BY <2>1, DecidedFacts
    <2>3. \A i \in DOMAIN decided[thread'[u].key] : decided[thread'[u].key][i].now <= clock
      BY <2>1 DEF LastDecided
    <2>4. ~At(u, "decide")'
      BY <2>1 DEF At
    <2> QED
      BY <2>1, <2>2, <2>3, <2>4
  <1>2. CASE Goes(u)
    <2>1. /\ Inside(u) /\ thread'[u].key = Key(u) /\ thread'[u].now = thread[u].now
          /\ thread'[u].before = thread[u].before
      BY <1>2 DEF Goes, Key
    <2>2. thread[u] \in Call /\ Key(u) \in Keys /\ thread[u].before \in Nat /\ thread[u].now \in Nat
      BY <2>1, InCall DEF Inside, Call
    <2>3. PICK k \in Keys : k = Key(u)
      BY <2>2
    <2>4. thread[u].before <= Len(decided[k]) /\ Len(decided[k]) \in Nat /\ DOMAIN decided[k] = 1..Len(decided[k])
      BY <2>1, <2>3, LastBehindForms, DecidedFacts
    <2>5. thread[u].before <= Len(decided'[k])
      <3>1. CASE decided'[k] = decided[k]
        BY <2>4, <3>1
      <3>2. ASSUME NEW t \in Threads, Announce(t), k = Key(t) PROVE Len(decided'[k]) = Len(decided[k]) + 1
        BY <3>2, Announced
      <3>3. CASE ~\E t \in Threads : Announce(t)
        BY <3>1, <3>3, DecidedSame
      <3>4. ASSUME NEW t \in Threads, Announce(t), k # Key(t) PROVE decided'[k] = decided[k]
        BY <3>4, Announced
      <3> QED
        BY <2>2, <2>4, <3>1, <3>2, <3>3, <3>4
    <2>6. ASSUME NEW i \in DOMAIN decided'[k], decided'[k][i].alone
          PROVE  decided'[k][i].now <= thread[u].now
      <3>1. CASE i \in DOMAIN decided[k] /\ decided'[k][i] = decided[k][i]
        <4>1. Since(decided[k][i], u)
          BY <2>1, <2>3, <3>1, LastBehindForms
        <4> QED
          BY <2>6, <3>1, <4>1 DEF Since
      <3>2. ASSUME NEW t \in Threads, Announce(t), Key(t) = k, decided'[k][i].alone = thread[t].alone
            PROVE FALSE
        <4>1. Inside(t) /\ thread'[t].pc = "save"
          BY <3>2, Announced DEF At, Inside
        <4>2. t # u
          BY <4>1 DEF Inside
        <4> QED
          BY <2>1, <2>3, <2>6, <3>2, <4>1, <4>2 DEF AloneTrue
      <3> QED
        BY <3>1, <3>2, DecidedStep
    <2>7. ASSUME NEW i \in DOMAIN decided'[k], At(u, "decide")', i <= thread[u].before
          PROVE  Lags(decided'[k][i], thread'[u].last)
      <3>1. i \in DOMAIN decided[k] /\ decided'[k][i] = decided[k][i]
        <4>1. ~(i = Len(decided[k]) + 1)
          BY <2>2, <2>4, <2>7
        <4> QED
          BY <4>1, DecidedStep
      <3>2. \/ thread'[u].last = lastAlert[k]
            \/ At(u, "decide") /\ thread'[u].last = thread[u].last
        BY <2>3, <2>7, LookStep
      <3>3. Lags(decided[k][i], lastAlert[k])
        BY <3>1, LastBehindForms
      <3>4. At(u, "decide") => Lags(decided[k][i], thread[u].last)
        BY <2>1, <2>3, <2>7, <3>1, LastBehindForms
      <3> QED
        BY <3>1, <3>2, <3>3, <3>4
    <2> QED
      BY <2>1, <2>3, <2>5, <2>6, <2>7
  <1> QED
    BY <1>1, <1>2, CallStep

\* A decision knows fewer decisions than came before it.
LEMMA KnowsFewer ==
  ASSUME TypeOK, LastBehind, [Next]_vars, NEW k \in Keys, NEW j \in DOMAIN decided'[k]
  PROVE  decided'[k][j].before < j
  <1>1. CASE j \in DOMAIN decided[k] /\ decided'[k][j] = decided[k][j]
    BY <1>1 DEF LastBehind
  <1>2. ASSUME NEW t \in Threads, Announce(t), Key(t) = k, j = Len(decided[k]) + 1,
               decided'[k][j].before = thread[t].before
        PROVE  decided'[k][j].before < j
    <2>1. thread[t] \in Call /\ Inside(t)
      BY <1>2, Announced DEF At, Inside
    <2>2. thread[t].before \in Nat /\ thread[t].before <= Len(decided[k]) /\ Len(decided[k]) \in Nat
      BY <1>2, <2>1, DecidedFacts DEF LastBehind, Call
    <2> QED
      BY <1>2, <2>2
  <1> QED
    BY <1>1, <1>2, DecidedStep

LEMMA BehindStep ==
  ASSUME TypeOK, CallsShort, LastDecided, AloneTrue, LastBehind, [Next]_vars
  PROVE  LastBehind'
  BY LastLags, CallsBehind, KnowsFewer, LastBehindFormsPrime

Apart(e, f) == f.now - e.now >= Cooldown - MaxDelay /\ (e.alone => f.now - e.now >= Cooldown)
LEMMA CooldownForms ==
  /\ CooldownKept <=>
       \A k \in Keys : \A i, j \in DOMAIN decided[k] :
           i <= decided[k][j].before => Apart(decided[k][i], decided[k][j])
  /\ CooldownKept' <=>
       \A k \in Keys : \A i, j \in DOMAIN decided'[k] :
           i <= decided'[k][j].before => Apart(decided'[k][i], decided'[k][j])
  BY DEF CooldownKept, Apart

LEMMA CooldownStep ==
  ASSUME TypeOK, LastBehind, CooldownKept, [Next]_vars
  PROVE  CooldownKept'
  <1> SUFFICES ASSUME NEW k \in Keys, NEW i \in DOMAIN decided'[k], NEW j \in DOMAIN decided'[k],
                      i <= decided'[k][j].before
               PROVE  Apart(decided'[k][i], decided'[k][j])
    BY CooldownForms
  <1>0. Len(decided[k]) \in Nat /\ DOMAIN decided[k] = 1..Len(decided[k])
    BY DecidedFacts
  <1>i. (i \in DOMAIN decided[k] /\ decided'[k][i] = decided[k][i]) \/ i = Len(decided[k]) + 1
    BY DecidedStep
  <1>1. CASE j \in DOMAIN decided[k] /\ j <= Len(decided[k]) /\ decided'[k][j] = decided[k][j]
    <2>1. decided[k][j].before \in Nat /\ decided[k][j].before < j
      BY <1>1, DecidedFacts DEF LastBehind
    <2>2. i # Len(decided[k]) + 1
      BY <1>0, <1>1, <2>1
    <2> QED
      BY <1>i, <1>1, <2>2, CooldownForms
  <1>2. ASSUME NEW t \in Threads, Announce(t), Key(t) = k, j = Len(decided[k]) + 1,
               decided'[k][j].now = thread[t].now, decided'[k][j].before = thread[t].before
        PROVE  Apart(decided'[k][i], decided'[k][j])
    <2>1. thread[t] \in Call /\ At(t, "decide") /\ Inside(t) /\ ~Cool(t)
      BY <1>2, Announced DEF At, Inside
    <2>2. thread[t].before \in Nat /\ thread[t].before <= Len(decided[k])
      BY <1>2, <2>1 DEF LastBehind, Call
    <2>3. i \in DOMAIN decided[k] /\ decided'[k][i] = decided[k][i]
      BY <1>0, <1>i, <1>2, <2>2
    <2>4. Lags(decided[k][i], thread[t].last)
      BY <1>2, <2>1, <2>3, LastBehindForms
    <2>5. decided[k][i].now \in Nat /\ thread[t].now \in Nat /\ thread[t].last \in Int
      BY <2>1, <2>3, DecidedFacts, NeverPast DEF Call, Moment
    <2>6. thread[t].now - thread[t].last >= Cooldown
      BY <2>1, <2>5, RiskAssumption DEF Cool
    <2> QED
      BY <1>2, <2>3, <2>4, <2>5, <2>6, RiskAssumption DEF Lags, Apart
  <1> QED
    BY <1>1, <1>2, DecidedStep
-----------------------------------------------------------------------------
(* Places.                                                                 *)

Works(u) == Deciding(u) \/ Telling(u)
Leaves(u) == Dismiss(u) \/ Save(u) \/ SaveFails(u)

\* How a thread came to its place: it has just counted, or it was there before.
Arrives(u) ==
    /\ Count(u) /\ thread'[u].pc = "look"
    /\ thread'[u].key = Key(u) /\ thread'[u].now = thread[u].now
    /\ thread'[u].nth = Len(windows[Key(u)]) + 1
    /\ Fate(u) = "inside"
    /\ \A t \in Threads \ {u} : thread'[t] = thread[t]
Stays(u) ==
    /\ Works(u) /\ ~Suppress(u) /\ ~Leaves(u)
    /\ thread'[u].key = Key(u) /\ thread'[u].now = thread[u].now /\ thread'[u].nth = thread[u].nth
    /\ Deciding(u)' => Deciding(u) /\ ~Announce(u)
    /\ Telling(u)' => Telling(u) \/ Announce(u)

LEMMA ActorStep ==
  ASSUME TypeOK, PlacesHeld, NEW u \in Threads, Works(u)',
         Count(u) \/ Look(u) \/ Suppress(u) \/ Announce(u) \/ Leaves(u)
  PROVE  Arrives(u) \/ Stays(u)
  <1>1. thread[u] \in Call /\ Key(u) \in Keys
    BY InCall DEF Count, Look, Suppress, Announce, Leaves, Dismiss, Save, SaveFails, At
  <1>2. Inside(u) => thread[u].persistent = FALSE
    BY <1>1 DEF PlacesHeld, Call
  <1>3. CASE Count(u)
    <2>1. /\ thread'[u].pc = (IF Fate(u) = "few" THEN "save" ELSE "look")
          /\ thread'[u].persistent = thread[u].persistent
          /\ thread'[u].key = thread[u].key /\ thread'[u].now = thread[u].now
          /\ thread'[u].nth = Len(windows[Key(u)]) + 1
          /\ \A t \in Threads \ {u} : thread'[t] = thread[t]
      BY <1>1, <1>3 DEF Count, TypeOK, Call
    <2>2. thread'[u].persistent = FALSE
      BY <1>2, <1>3, <2>1 DEF Count, At, Inside
    <2>3. Fate(u) = "inside" \/ Fate(u) = "few"
      BY DEF Fate
    <2>4. Fate(u) # "few"
      BY <2>1, <2>2 DEF Works, Deciding, Telling, At
    <2> QED
      BY <1>3, <2>1, <2>3, <2>4 DEF Arrives, Key
  <1>4. CASE Look(u)
    <2>1. /\ thread[u].pc = "look" /\ thread'[u].pc = "decide"
          /\ thread'[u].key = thread[u].key /\ thread'[u].now = thread[u].now /\ thread'[u].nth = thread[u].nth
      BY <1>1, <1>4 DEF Look, TypeOK, Call, At
    <2> QED
      BY <2>1 DEF Stays, Works, Deciding, Telling, At, Suppress, Announce, Leaves, Dismiss, Save, SaveFails, Key
  <1>5. CASE Announce(u)
    <2>1. /\ thread[u].pc = "decide" /\ thread'[u].pc = "save"
          /\ thread'[u].key = thread[u].key /\ thread'[u].now = thread[u].now /\ thread'[u].nth = thread[u].nth
          /\ ~Cool(u)
      BY <1>1, <1>5 DEF Announce, TypeOK, Call, At
    <2> QED
      BY <1>5, <2>1 DEF Stays, Works, Deciding, Telling, At, Suppress, Leaves, Dismiss, Save, SaveFails, Key
  <1>6. CASE Suppress(u)
    <2>1. thread'[u].pc = "save" /\ thread'[u].persistent = thread[u].persistent /\ Inside(u)
      BY <1>1, <1>6 DEF Suppress, TypeOK, Call, At, Inside
    <2> QED
      BY <1>2, <2>1 DEF Works, Deciding, Telling, At
  <1>7. CASE Leaves(u)
    <2>1. thread'[u].pc = "idle"
      BY <1>7 DEF Leaves, Dismiss, Save, SaveFails, Settle, Idle, TypeOK
    <2> QED
      BY <2>1 DEF Works, Deciding, Telling, At
  <1> QED
    BY <1>3, <1>4, <1>5, <1>6, <1>7

LEMMA PlaceStep ==
  ASSUME TypeOK, PlacesHeld, [Next]_vars, NEW u \in Threads, Works(u)'
  PROVE  Arrives(u) \/ Stays(u)
  <1>1. CASE Count(u) \/ Look(u) \/ Suppress(u) \/ Announce(u) \/ Leaves(u)
    BY <1>1, ActorStep
  <1>2. CASE ~(Count(u) \/ Look(u) \/ Suppress(u) \/ Announce(u) \/ Leaves(u))
    <2>1. /\ thread'[u].pc = thread[u].pc /\ thread'[u].key = thread[u].key
          /\ thread'[u].now = thread[u].now /\ thread'[u].nth = thread[u].nth
          /\ thread'[u].pc = "save" => thread'[u].persistent = thread[u].persistent
      <3>1. CASE thread'[u] = thread[u]
        BY <3>1
      <3>2. ASSUME NEW t \in Threads, NEW k \in Keys, NEW loud \in BOOLEAN, NEW high \in BOOLEAN,
                   Begin(t, k, loud, high), thread'[u] # thread[u]
            PROVE  Inside(u) /\ thread'[u] = [thread[u] EXCEPT !.alone = FALSE]
        <4>1. t # u
          <5>1. ASSUME t = u PROVE FALSE
            <6>1. thread'[u].pc = "count"
              BY <3>2, <5>1 DEF Begin
            <6> QED
              BY <6>1 DEF Works, Deciding, Telling, At
          <5> QED
            BY <5>1
        <4> QED
          BY <3>2, <4>1 DEF Begin
      <3>3. ASSUME Inside(u), thread'[u] = [thread[u] EXCEPT !.alone = FALSE]
            PROVE  /\ thread'[u].pc = thread[u].pc /\ thread'[u].key = thread[u].key
                   /\ thread'[u].now = thread[u].now /\ thread'[u].nth = thread[u].nth
                   /\ thread'[u].pc = "save" => thread'[u].persistent = thread[u].persistent
        <4>1. thread[u] \in Call
          BY <3>3, InCall DEF Inside
        <4> QED
          BY <3>3, <4>1 DEF Call
      <3>4. ASSUME NEW t \in Threads, t # u,
                   Count(t) \/ Look(t) \/ Suppress(t) \/ Announce(t) \/ Dismiss(t) \/ Save(t) \/ SaveFails(t)
            PROVE  thread'[u] = thread[u]
        BY <3>4 DEF Count, Look, Suppress, Announce, Dismiss, Save, SaveFails, Settle, TypeOK
      <3>5. Tick \/ UNCHANGED vars => thread'[u] = thread[u]
        BY DEF Tick, vars
      <3> QED
        BY <1>2, <3>1, <3>2, <3>3, <3>4, <3>5 DEF Next, Step, Leaves
    <2> QED
      BY <1>2, <2>1 DEF Stays, Works, Deciding, Telling, At, Key
  <1> QED
    BY <1>1, <1>2

\* No other thread touches a thread's window.
LEMMA OthersKeep ==
  ASSUME TypeOK, PlacesHeld, [Next]_vars, NEW u \in Threads, Works(u),
         ~Suppress(u), ~Announce(u), ~Leaves(u),
         NEW k \in Keys, k = Key(u), NEW n \in DOMAIN windows[k], n = thread[u].nth
  PROVE  n \in DOMAIN windows'[k] /\ windows'[k][n] = windows[k][n]
  <1>1. CASE windows' = windows
    BY <1>1
  <1>2. ASSUME NEW t \in Threads, t # u, Works(t), NEW fate \in Fates, Key(t) \in Keys,
               windows' = Refated(Key(t), thread[t].nth, fate)
        PROVE n \in DOMAIN windows'[k] /\ windows'[k][n] = windows[k][n]
    <2>1. Differs(windows', Key(t), thread[t].nth, fate)
      BY <1>2, RefatedFacts
    <2>2. ~(k = Key(t) /\ n = thread[t].nth)
      BY <1>2 DEF PlacesHeld, Works
    <2> QED
      BY <2>1, <2>2 DEF Differs
  <1>3. ASSUME NEW t \in Threads, Suppress(t) \/ Announce(t)
        PROVE n \in DOMAIN windows'[k] /\ windows'[k][n] = windows[k][n]
    <2>1. t # u /\ Works(t) /\ Key(t) \in Keys
      BY <1>3, InCall DEF Works, Deciding, Suppress, Announce, At
    <2>2. \E fate \in Fates : windows' = Refated(Key(t), thread[t].nth, fate)
      BY <1>3 DEF Suppress, Announce, Refated, Fates
    <2> QED
      BY <1>2, <2>1, <2>2
  <1>4. ASSUME NEW t \in Threads, Leaves(t)
        PROVE n \in DOMAIN windows'[k] /\ windows'[k][n] = windows[k][n]
    <2>1. PICK fate \in {"none", "stored", "lost"} :
            At(t, "save") /\ Settle(t, fate) /\ (fate = "none" => ~thread[t].persistent)
      BY <1>4 DEF Leaves, Dismiss, Save, SaveFails, Raises
    <2>2. CASE ~thread[t].persistent
      BY <1>1, <2>1, <2>2, SettleWindows
    <2>3. CASE thread[t].persistent
      <3>1. t # u /\ Works(t) /\ Key(t) \in Keys
        BY <1>4, <2>1, <2>3, InCall DEF Works, Telling, At
      <3>2. windows' = Refated(Key(t), thread[t].nth, fate) /\ fate \in Fates
        BY <2>1, <2>3, SettleWindows
      <3> QED
        BY <1>2, <3>1, <3>2
    <2> QED
      BY <2>2, <2>3
  <1>5. ASSUME NEW t \in Threads, Count(t)
        PROVE n \in DOMAIN windows'[k] /\ windows'[k][n] = windows[k][n]
    <2>0. Len(windows[k]) \in Nat /\ DOMAIN windows[k] = 1..Len(windows[k])
      BY <1>5, Counted
    <2>1. CASE k # Key(t)
      BY <1>5, <2>1, Counted
    <2>2. CASE k = Key(t)
      <3>1. /\ DOMAIN windows'[k] = 1..(Len(windows[k]) + 1)
            /\ \A i \in DOMAIN windows[k] : windows'[k][i] = windows[k][i]
        BY <1>5, <2>2, Counted
      <3> QED
        BY <2>0, <3>1
    <2> QED
      BY <2>1, <2>2
  <1>6. Tick \/ UNCHANGED vars => windows' = windows
    BY DEF Tick, vars
  <1>7. ASSUME NEW t \in Threads, Look(t) \/ \E q \in Keys, loud, high \in BOOLEAN : Begin(t, q, loud, high)
        PROVE windows' = windows
    BY <1>7 DEF Look, Begin
  <1> QED
    BY <1>1, <1>3, <1>4, <1>5, <1>6, <1>7 DEF Next, Step, Leaves

\* The window of a thread that works after a step.
LEMMA PlacedStep ==
  ASSUME TypeOK, PlacesHeld, [Next]_vars, NEW u \in Threads, Works(u)',
         NEW k \in Keys, k = thread'[u].key, NEW n, n = thread'[u].nth
  PROVE  /\ n \in DOMAIN windows'[k]
         /\ Deciding(u)' => windows'[k][n].fate = "inside" /\ windows'[k][n].now = thread'[u].now
         /\ Telling(u)' => windows'[k][n].fate = "announced"
  <1>1. CASE Arrives(u)
    <2>1. /\ k = Key(u) /\ n = Len(windows[k]) + 1 /\ Fate(u) = "inside" /\ Count(u)
          /\ thread'[u].now = thread[u].now /\ thread'[u].pc = "look"
      BY <1>1 DEF Arrives
    <2>2. /\ Len(windows[k]) \in Nat
          /\ DOMAIN windows'[k] = 1..(Len(windows[k]) + 1)
          /\ windows'[k][n] = [loud |-> thread[u].loud, now |-> thread[u].now, fate |-> Fate(u)]
      BY <2>1, Counted
    <2>3. n \in DOMAIN windows'[k]
      BY <2>1, <2>2
    <2>4. ~Telling(u)'
      BY <2>1 DEF Telling, At
    <2> QED
      BY <2>1, <2>2, <2>3, <2>4
  <1>2. CASE Stays(u)
    <2>1. /\ k = Key(u) /\ n = thread[u].nth /\ thread'[u].now = thread[u].now /\ Works(u)
          /\ ~Suppress(u) /\ ~Leaves(u)
          /\ Deciding(u)' => Deciding(u) /\ ~Announce(u)
          /\ Telling(u)' => Telling(u) \/ Announce(u)
      BY <1>2 DEF Stays
    <2>2. /\ n \in DOMAIN windows[k]
          /\ Deciding(u) => windows[k][n].fate = "inside" /\ windows[k][n].now = thread[u].now
          /\ Telling(u) => windows[k][n].fate = "announced"
      BY <2>1 DEF PlacesHeld, Placed, Works
    <2>3. CASE ~Announce(u)
      <3>1. n \in DOMAIN windows'[k] /\ windows'[k][n] = windows[k][n]
        BY <2>1, <2>2, <2>3, OthersKeep
      <3> QED
        BY <2>1, <2>2, <2>3, <3>1
    <2>4. CASE Announce(u)
      <3>1. windows' = Refated(k, n, "announced") /\ "announced" \in Fates
        BY <2>1, <2>4 DEF Announce, Refated, Fates
      <3>2. Differs(windows', k, n, "announced")
        BY <3>1, RefatedFacts
      <3>3. windows[k][n] \in Window
        BY <2>2, ElementFacts DEF TypeOK
      <3>4. n \in DOMAIN windows'[k] /\ windows'[k][n] = [windows[k][n] EXCEPT !.fate = "announced"]
        BY <2>2, <3>2 DEF Differs
      <3>5. windows'[k][n].fate = "announced"
        BY <3>3, <3>4 DEF Window
      <3> QED
        BY <2>1, <2>4, <3>4, <3>5
    <2> QED
      BY <2>3, <2>4
  <1> QED
    BY <1>1, <1>2, PlaceStep
LEMMA WorksKey ==
  ASSUME TypeOK, PlacesHeld, [Next]_vars, NEW u \in Threads, Works(u)'
  PROVE  thread'[u].key \in Keys /\ thread'[u].key = Key(u)
  <1>1. thread'[u].key = Key(u) /\ thread[u].pc # "idle"
    BY PlaceStep DEF Arrives, Stays, Works, Deciding, Telling, Count, At
  <1> QED
    BY <1>1, InCall

\* Two threads that work for one source have different places.
LEMMA PlacesDiffer ==
  ASSUME TypeOK, PlacesHeld, [Next]_vars, NEW t \in Threads, NEW u \in Threads, t # u,
         Works(t)', Works(u)', thread'[t].key = thread'[u].key
  PROVE  thread'[t].nth # thread'[u].nth
  <1>1. ASSUME NEW a \in Threads, NEW b \in Threads, a # b, Works(b)', Arrives(a), Key(a) = Key(b)
        PROVE  thread'[a].nth # thread'[b].nth
    <2>1. thread'[b] = thread[b] /\ thread'[a].nth = Len(windows[Key(a)]) + 1 /\ Count(a)
      BY <1>1 DEF Arrives
    <2>2. Works(b)
      BY <1>1, <2>1 DEF Works, Deciding, Telling, At
    <2>3. thread[b].nth \in DOMAIN windows[Key(b)]
      BY <2>2 DEF PlacesHeld, Placed, Works
    <2>4. Key(a) \in Keys /\ Len(windows[Key(a)]) \in Nat /\ DOMAIN windows[Key(a)] = 1..Len(windows[Key(a)])
      BY <2>1, Counted
    <2> QED
      BY <1>1, <2>1, <2>3, <2>4
  <1>2. Key(t) = Key(u)
    BY WorksKey
  <1>3. CASE Stays(t) /\ Stays(u)
    BY <1>2, <1>3 DEF Stays, PlacesHeld, Works
  <1> QED
    BY <1>1, <1>2, <1>3, PlaceStep

\* A call that is still in observe has raised nothing.
LEMMA NotYet ==
  ASSUME TypeOK, PlacesHeld, [Next]_vars, NEW u \in Threads, Inside(u)'
  PROVE  ~thread'[u].persistent
  <1>1. ASSUME NEW k \in Keys, NEW loud \in BOOLEAN, NEW high \in BOOLEAN, Begin(u, k, loud, high)
        PROVE  ~thread'[u].persistent
    BY <1>1 DEF Begin
  <1>2. CASE Goes(u)
    <2>1. Inside(u) /\ thread[u] \in Call
      BY <1>2, InCall DEF Goes, Inside
    <2>2. ~thread[u].persistent
      BY <2>1 DEF PlacesHeld
    <2>3. CASE thread'[u] = thread[u]
      BY <2>2, <2>3
    <2>4. CASE Announce(u)
      <3>1. thread'[u].pc = "save"
        BY <2>4, Announced
      <3> QED
        BY <3>1 DEF Inside
    <2>5. CASE Count(u) \/ Look(u) \/ Suppress(u)
      <3>1. thread'[u].persistent = thread[u].persistent
        BY <2>1, <2>5 DEF Count, Look, Suppress, TypeOK, Call
      <3> QED
        BY <2>2, <3>1
    <2>6. CASE Leaves(u)
      BY <2>1, <2>6 DEF Leaves, Dismiss, Save, SaveFails, At, Inside
    <2>7. ASSUME NEW t \in Threads, t # u, \E k \in Keys, loud, high \in BOOLEAN : Begin(t, k, loud, high)
          PROVE  ~thread'[u].persistent
      <3>1. thread'[u] = [thread[u] EXCEPT !.alone = FALSE] \/ thread'[u] = thread[u]
        BY <2>7 DEF Begin
      <3> QED
        BY <2>1, <2>2, <3>1 DEF Call
    <2>8. ASSUME NEW t \in Threads, t # u,
                 Count(t) \/ Look(t) \/ Suppress(t) \/ Announce(t) \/ Dismiss(t) \/ Save(t) \/ SaveFails(t)
          PROVE  thread'[u] = thread[u]
      BY <2>8 DEF Count, Look, Suppress, Announce, Dismiss, Save, SaveFails, Settle, TypeOK
    <2>9. Tick \/ UNCHANGED vars => thread'[u] = thread[u]
      BY DEF Tick, vars
    <2> QED
      BY <1>1, <2>3, <2>4, <2>5, <2>6, <2>7, <2>8, <2>9 DEF Next, Step, Leaves
  <1> QED
    BY <1>1, <1>2, CallStep DEF Begins

LEMMA PlacesStep ==
  ASSUME TypeOK, PlacesHeld, [Next]_vars
  PROVE  PlacesHeld'
  <1>1. ASSUME NEW u \in Threads, Deciding(u)'
        PROVE  /\ thread'[u].nth \in DOMAIN windows'[thread'[u].key]
               /\ windows'[thread'[u].key][thread'[u].nth].fate = "inside"
               /\ windows'[thread'[u].key][thread'[u].nth].now = thread'[u].now
    BY <1>1, WorksKey, PlacedStep DEF Works
  <1>2. ASSUME NEW u \in Threads, Telling(u)'
        PROVE  /\ thread'[u].nth \in DOMAIN windows'[thread'[u].key]
               /\ windows'[thread'[u].key][thread'[u].nth].fate = "announced"
    BY <1>2, WorksKey, PlacedStep DEF Works
  <1>3. ASSUME NEW t \in Threads, NEW u \in Threads, t # u,
               Deciding(t)' \/ Telling(t)', Deciding(u)' \/ Telling(u)', thread'[t].key = thread'[u].key
        PROVE  thread'[t].nth # thread'[u].nth
    BY <1>3, PlacesDiffer DEF Works
  <1> QED
    BY <1>1, <1>2, <1>3, NotYet DEF PlacesHeld, Placed, Key

-----------------------------------------------------------------------------
LEMMA IInvInit == Init => IInv
  <1> SUFFICES ASSUME Init PROVE IInv
    OBVIOUS
  <1>1. \A t \in Threads : thread[t].pc = "idle" /\ ~Inside(t) /\ ~Deciding(t) /\ ~Telling(t) /\ ~At(t, "decide")
    BY DEF Init, Idle, Inside, Deciding, Telling, At
  <1>2. \A k \in Keys : windows[k] = <<>> /\ decided[k] = <<>> /\ counts[k] = 0 /\ lastAlert[k] = Never
    BY DEF Init
  <1>3. CallsShort /\ PlacesHeld /\ AloneTrue
    BY <1>1 DEF CallsShort, PlacesHeld, AloneTrue
  <1>4. CountsRow /\ FatesTrue /\ SuppressedCovered
    BY <1>2 DEF CountsRow, FatesTrue, SuppressedCovered
  <1>5. LastDecided /\ LastBehind /\ CooldownKept
    BY <1>1, <1>2 DEF LastDecided, LastBehind, CooldownKept
  <1> QED
    BY <1>3, <1>4, <1>5, TypeInit DEF IInv

LEMMA IInvStep == IInv /\ [Next]_vars => IInv'
  <1> SUFFICES ASSUME IInv, [Next]_vars PROVE IInv'
    OBVIOUS
  <1>1. TypeOK' /\ CallsShort' /\ AloneTrue'
    BY TypeStep, ShortStep, AloneStep DEF IInv
  <1>2. CountsRow' /\ FatesTrue' /\ PlacesHeld'
    BY RowStep, PlacesStep DEF IInv
  <1>3. LastDecided' /\ SuppressedCovered'
    BY LastDecidedStep, SuppressedStep DEF IInv
  <1>4. LastBehind' /\ CooldownKept'
    BY BehindStep, CooldownStep DEF IInv
  <1> QED
    BY <1>1, <1>2, <1>3, <1>4 DEF IInv

\* Persistent alerts are decided for the last of Required loud windows of a source
\* in a row only, however many threads count at once (observe without a lock).
THEOREM RiskAlertsSustained == Spec => []AlertsSustained
  <1>1. IInv => AlertsSustained
    BY DEF IInv, FatesTrue, AlertsSustained
  <1> QED
    BY <1>1, IInvInit, IInvStep, PTL DEF Spec

\* The last of Required loud windows in a row goes unannounced only when an alert of
\* its source was decided less than a cooldown before, or while it was in observe.
THEOREM RiskSourceNotSilent == Spec => []SustainedAnnounced
  <1>1. IInv => SustainedAnnounced
    BY DEF IInv, FatesTrue, SuppressedCovered, Covered, SustainedAnnounced
  <1> QED
    BY <1>1, IInvInit, IInvStep, PTL DEF Spec

\* Of two persistent alerts of a source, the later one's call begun after the first
\* was decided, the times are a cooldown apart, less the longest call of observe;
\* and a whole cooldown if the first call met no other of its source.
THEOREM RiskCooldownKept == Spec => []CooldownKept
  <1>1. IInv => CooldownKept
    BY DEF IInv
  <1> QED
    BY <1>1, IInvInit, IInvStep, PTL DEF Spec
=============================================================================
