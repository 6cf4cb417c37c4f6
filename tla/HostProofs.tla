----------------------------- MODULE HostProofs ------------------------------
(***************************************************************************)
(* The invariants of the host loop, for every number of turns, rounds and  *)
(* calls and wherever the history and the window are cut, and those of the *)
(* limiter in front of it, for every number of threads and addresses.      *)
(***************************************************************************)
EXTENDS HostLoop, RateLimiter, SequenceTheorems, FiniteSetTheorems, WellFoundedInduction, TLAPS

-----------------------------------------------------------------------------
(* Lists of messages.                                                        *)

\* Where a call and its results are both in the list, they stand next to each other:
\* behind an assistant message only its results, in order, and before a result the
\* ones before it and the call.  The ends of the list may have cut either off.
Linked(ms) ==
  \A i \in 1..Len(ms) :
    /\ ms[i].role = "assistant" =>
         \A c \in 1..ms[i].n : i + c <= Len(ms) => ms[i + c] = Tool(ms[i].turn, ms[i].round, c)
    /\ ms[i].role = "tool" =>
         /\ \A c \in 1..ms[i].n - 1 : i - c >= 1 =>
              ms[i - c] = Tool(ms[i].turn, ms[i].round, ms[i].n - c)
         /\ i - ms[i].n >= 1 =>
              \E k \in ms[i].n..MaxCalls : ms[i - ms[i].n] = Assistant(ms[i].turn, ms[i].round, k)
         /\ ms[i].n >= 1

\* Every call has its results, but for those of the message d places before the end.
AnsweredBut(ms, d) ==
  \A i \in 1..Len(ms) : ms[i].role = "assistant" => i + ms[i].n <= Len(ms) \/ i = Len(ms) - d

Answered(ms) == \A i \in 1..Len(ms) : ms[i].role = "assistant" => i + ms[i].n <= Len(ms)

\* What stands j places before the end while turn t runs call x of the n calls of round r.
Expected(t, r, n, x, j) == IF j = x - 1 THEN Assistant(t, r, n) ELSE Tool(t, r, x - 1 - j)

\* The list ends in those calls and the results so far, as much as is left of them.
HalfAnswered(ms, t, r, n, x) ==
  /\ \A j \in 0..x - 1 : j < Len(ms) => ms[Len(ms) - j] = Expected(t, r, n, x, j)
  /\ AnsweredBut(ms, x - 1)

FromUser(ms) == ms # <<>> /\ ms[1].role = "user"

-----------------------------------------------------------------------------
(* The inductive invariant.                                                  *)

\* The round of calls a turn is in.
CallsOK ==
  \A t \in Turns : pc[t] = "tools" => round[t] < MaxRounds /\ next[t] \in 1..calls[t]

Sees(t) == \E i \in 1..Len(sent[t]) : sent[t][i] = User(t)

AllSee == \A t \in InFlight : Sees(t)

Sequential == ~overlapped /\ \A t \in Turns : pc[t] # "lost"

\* Turns one after the other keep the history and their own list linked.
SequentialInv ==
  Sequential =>
    /\ \A t, u \in InFlight : t = u
    /\ Linked(history)
    /\ (\A t \in Turns : pc[t] # "tools") => Answered(history)
    /\ \A t \in InFlight : Linked(sent[t]) /\ FromUser(sent[t])
    /\ \A t \in Turns : pc[t] = "model" => Answered(sent[t])
    /\ \A t \in Turns : pc[t] = "tools" =>
         /\ HalfAnswered(history, t, round[t], calls[t], next[t])
         /\ HalfAnswered(sent[t], t, round[t], calls[t], next[t])

HostInv ==
  TypeOK /\ CallsOK /\ AllSee /\ SequentialInv

-----------------------------------------------------------------------------
(* Messages and lists.                                                       *)

LEMMA Roles ==
  \A t, r, n :
    /\ User(t).role = "user"
    /\ Assistant(t, r, n).role = "assistant" /\ Tool(t, r, n).role = "tool"
    /\ Assistant(t, r, n).turn = t /\ Assistant(t, r, n).round = r /\ Assistant(t, r, n).n = n
    /\ Tool(t, r, n).turn = t /\ Tool(t, r, n).round = r /\ Tool(t, r, n).n = n
  BY DEF User, Assistant, Tool

LEMMA MessagesAreTyped ==
  ASSUME NEW t \in Turns
  PROVE  /\ User(t) \in Message
         /\ \A r \in 0..MaxRounds, n \in 0..MaxCalls : Assistant(t, r, n) \in Message /\ Tool(t, r, n) \in Message
  BY WindowInHistory DEF User, Assistant, Tool, Message

\* The list s is the end of the list ms.
Ending(s, ms) ==
  /\ s \in Seq(Message) /\ Len(s) <= Len(ms)
  /\ \A i \in 1..Len(s) : s[i] = ms[i + (Len(ms) - Len(s))]

\* What is behind a position.
LEMMA SubSeqIsEnding ==
  ASSUME NEW ms \in Seq(Message), NEW p \in 1..Len(ms) + 1
  PROVE  /\ Ending(SubSeq(ms, p, Len(ms)), ms)
         /\ Len(SubSeq(ms, p, Len(ms))) = Len(ms) + 1 - p
  <1> DEFINE s == SubSeq(ms, p, Len(ms))
  <1>1. Len(ms) \in Nat /\ p \in Int /\ \A i \in p..Len(ms) : ms[i] \in Message
    BY ElementOfSeq, LenProperties
  <1>2. /\ s \in Seq(Message)
        /\ Len(s) = IF p <= Len(ms) THEN Len(ms) - p + 1 ELSE 0
        /\ \A i \in 1..Len(ms) - p + 1 : s[i] = ms[p + i - 1]
    BY <1>1, SubSeqProperties
  <1> HIDE DEF s
  <1>3. Len(s) = Len(ms) + 1 - p
    BY <1>1, <1>2
  <1>4. \A i \in 1..Len(s) : s[i] = ms[i + (Len(ms) - Len(s))]
    <2> TAKE i \in 1..Len(s)
    <2>1. i \in 1..Len(ms) - p + 1 /\ i + (Len(ms) - Len(s)) = p + i - 1
      BY <1>1, <1>3
    <2> QED
      BY <1>2, <2>1
  <1>5. s \in Seq(Message) /\ Len(s) <= Len(ms)
    BY <1>1, <1>2, <1>3
  <1>6. Ending(s, ms)
    BY <1>4, <1>5, Zenon DEF Ending
  <1> QED
    BY <1>3, <1>6 DEF s

LEMMA EndingOfEnding ==
  ASSUME NEW ms \in Seq(Message), NEW s, NEW r, Ending(s, ms), Ending(r, s)
  PROVE  Ending(r, ms)
  <1>1. Len(ms) \in Nat /\ Len(s) \in Nat /\ Len(r) \in Nat
    BY LenProperties DEF Ending
  <1>2. \A i \in 1..Len(r) : r[i] = ms[i + (Len(ms) - Len(r))]
    <2> TAKE i \in 1..Len(r)
    <2> DEFINE j == i + (Len(s) - Len(r))
    <2>1. j \in 1..Len(s) /\ r[i] = s[j] /\ j + (Len(ms) - Len(s)) = i + (Len(ms) - Len(r))
      BY <1>1 DEF Ending
    <2> HIDE DEF j
    <2>2. s[j] = ms[j + (Len(ms) - Len(s))]
      BY <2>1 DEF Ending
    <2> QED
      BY <2>1, <2>2
  <1> QED
    BY <1>1, <1>2 DEF Ending

LEMMA LastOfIsEnding ==
  ASSUME NEW ms \in Seq(Message), NEW k \in Nat \ {0}
  PROVE  /\ Ending(LastOf(ms, k), ms) /\ Len(LastOf(ms, k)) <= k
         /\ ms # <<>> => LastOf(ms, k) # <<>>
  <1> DEFINE p == IF Len(ms) > k THEN Len(ms) - k + 1 ELSE 1
  <1>1. Len(ms) \in Nat /\ p \in 1..Len(ms) + 1 /\ Len(ms) + 1 - p <= k
    BY LenProperties
  <1>2. ms # <<>> => p <= Len(ms)
    BY <1>1, EmptySeq
  <1>3. LastOf(ms, k) = SubSeq(ms, p, Len(ms))
    BY DEF LastOf
  <1> HIDE DEF p
  <1>4. Ending(LastOf(ms, k), ms) /\ Len(LastOf(ms, k)) = Len(ms) + 1 - p
    BY <1>1, <1>3, SubSeqIsEnding
  <1>5. ms # <<>> => Len(LastOf(ms, k)) # 0
    BY <1>1, <1>2, <1>4
  <1> QED
    BY <1>1, <1>4, <1>5, EmptySeq

LEMMA NothingIsEnding ==
  ASSUME NEW ms \in Seq(Message)
  PROVE  Ending(<<>>, ms)
  BY LenProperties, EmptySeq DEF Ending

\* A finite set of positions has a first one.
LEMMA LeastOf == ASSUME NEW S, S \subseteq Nat, IsFiniteSet(S), S # {}
                 PROVE  \E n \in S : \A m \in S : n <= m
  <1> DEFINE Below(n) == {m \in S : m < n}
             Sets == {Below(n) : n \in S}
  <1>1. Sets \subseteq FiniteSubsetsOf(S) /\ Sets # {}
    <2>1. FiniteSubsetsOf(S) = SUBSET S
      BY FS_FiniteSubsetsOfFinite
    <2>2. Sets \subseteq SUBSET S
      OBVIOUS
    <2>3. PICK n \in S : TRUE
      OBVIOUS
    <2>4. Below(n) \in Sets
      OBVIOUS
    <2> HIDE DEF Sets
    <2> QED
      BY <2>1, <2>2, <2>4
  <1>2. \E x \in Sets : \A y \in Sets : ~ (<<y, x>> \in StrictSubsetOrdering(S))
    <2> HIDE DEF Sets
    <2> QED
      BY <1>1, WFMin, FS_StrictSubsetOrderingWellFounded
  <1>3. PICK n \in S : \A m \in S : ~ (<<Below(m), Below(n)>> \in StrictSubsetOrdering(S))
    BY <1>2
  <1>4. ASSUME NEW m \in S, m < n
        PROVE  FALSE
    <2>1. m \in Below(n) /\ m \notin Below(m)
      BY <1>4
    <2>2. Below(m) \subseteq Below(n)
      <3>1. \A k \in S : k \in Nat
        OBVIOUS
      <3>2. \A k \in S : k < m => k < n
        BY <1>4, <3>1
      <3> QED
        BY <3>2
    <2>3. <<Below(m), Below(n)>> \in StrictSubsetOrdering(S)
      BY <2>1, <2>2 DEF StrictSubsetOrdering
    <2> QED
      BY <1>3, <2>3
  <1> QED
    BY <1>4

\* trim_at_user_turn() gives an end of the list that starts with a user's message,
\* and it gives one if there is one.
LEMMA TrimIsEnding ==
  ASSUME NEW ms \in Seq(Message)
  PROVE  /\ Ending(TrimAtUserTurn(ms), ms)
         /\ TrimAtUserTurn(ms) = <<>> \/ FromUser(TrimAtUserTurn(ms))
         /\ (\E i \in 1..Len(ms) : ms[i].role = "user") => FromUser(TrimAtUserTurn(ms))
  <1> DEFINE I == {i \in 1..Len(ms) : ms[i].role = "user"}
             first == IF I # {} THEN Min(I) ELSE 0
  <1>1. TrimAtUserTurn(ms) = IF first = 0 THEN <<>> ELSE SubSeq(ms, first, Len(ms))
    BY DEF TrimAtUserTurn, SelectInSeq
  <1>2. Len(ms) \in Nat
    BY LenProperties
  <1>3. CASE I = {}
    BY <1>1, <1>3, NothingIsEnding
  <1>4. CASE I # {}
    <2>1. first \in I
      <3>1. I \subseteq 1..Len(ms) /\ I \subseteq Nat /\ IsFiniteSet(1..Len(ms))
        BY <1>2, FS_Interval
      <3>2. IsFiniteSet(I)
        BY <3>1, FS_Subset
      <3>3. PICK least \in I : \A i \in I : least <= i
        <4> HIDE DEF I
        <4> QED
          BY <1>4, <3>1, <3>2, LeastOf
      <3> QED
        BY <1>4, <3>3 DEF Min
    <2> HIDE DEF first
    <2>2. first \in 1..Len(ms) + 1 /\ first # 0 /\ first \in 1..Len(ms) /\ ms[first].role = "user"
      BY <1>2, <2>1
    <2>3. TrimAtUserTurn(ms) = SubSeq(ms, first, Len(ms))
      BY <1>1, <2>2
    <2>4. Ending(TrimAtUserTurn(ms), ms) /\ Len(TrimAtUserTurn(ms)) = Len(ms) + 1 - first
      BY <2>2, <2>3, SubSeqIsEnding
    <2>5. TrimAtUserTurn(ms)[1] = ms[first]
      BY <1>2, <2>2, <2>4 DEF Ending
    <2>6. TrimAtUserTurn(ms) # <<>>
      BY <1>2, <2>2, <2>4, EmptySeq
    <2> QED
      BY <2>2, <2>4, <2>5, <2>6 DEF FromUser
  <1> QED
    BY <1>3, <1>4

\* add() appends and then cuts: what is left is an end of the longer list, and
\* something of it is left if it still has a user's message.
LEMMA AddIsEnding ==
  ASSUME NEW h \in Seq(Message), Len(h) <= MaxHistory, NEW m \in Message
  PROVE  /\ Ending(Add(h, m), Append(h, m)) /\ Len(Add(h, m)) <= MaxHistory
         /\ m.role = "user" => Add(h, m) # <<>>
  <1> DEFINE ms == Append(h, m)
             last == LastOf(ms, MaxHistory)
  <1>1. ms \in Seq(Message) /\ Len(ms) = Len(h) + 1 /\ Len(h) \in Nat /\ ms[Len(ms)] = m
    BY AppendProperties, LenProperties
  <1>2. MaxHistory \in Nat \ {0}
    BY WindowInHistory
  <1>3. Ending(last, ms) /\ Len(last) <= MaxHistory /\ last # <<>>
    <2>1. ms # <<>>
      BY <1>1, EmptySeq
    <2> HIDE DEF ms
    <2> QED
      BY <1>1, <1>2, <2>1, LastOfIsEnding
  <1>4. last \in Seq(Message) /\ Len(last) \in Nat \ {0}
    BY <1>3, EmptySeq DEF Ending
  <1>5. last[Len(last)] = m
    BY <1>1, <1>3, <1>4 DEF Ending
  <1>6. CASE Len(h) >= MaxHistory
    <2>1. Add(h, m) = TrimAtUserTurn(last)
      BY <1>6 DEF Add
    <2> HIDE DEF last, ms
    <2>2. Ending(Add(h, m), last)
      BY <1>4, <2>1, TrimIsEnding
    <2>3. m.role = "user" => \E i \in 1..Len(last) : last[i].role = "user"
      BY <1>4, <1>5
    <2>4. m.role = "user" => Add(h, m) # <<>>
      BY <1>4, <2>1, <2>3, TrimIsEnding DEF FromUser
    <2>5. Ending(Add(h, m), ms)
      BY <1>1, <1>3, <2>2, EndingOfEnding
    <2>6. Len(Add(h, m)) <= MaxHistory
      BY <1>2, <1>3, <1>4, <2>2, LenProperties DEF Ending
    <2> QED
      BY <2>4, <2>5, <2>6 DEF ms
  <1>7. CASE ~(Len(h) >= MaxHistory)
    <2>1. Add(h, m) = ms
      BY <1>7 DEF Add
    <2>2. Ending(ms, ms)
      BY <1>1 DEF Ending
    <2> QED
      BY <1>1, <1>2, <1>7, <2>1, <2>2, EmptySeq
  <1> QED
    BY <1>6, <1>7

\* A window is an end of the history that starts with a user's message.
LEMMA WindowIsEnding ==
  ASSUME NEW h \in Seq(Message)
  PROVE  /\ Ending(Window(h), h) /\ (Window(h) = <<>> \/ FromUser(Window(h)))
         /\ h # <<>> /\ h[Len(h)].role = "user" => FromUser(Window(h))
  <1> DEFINE last == LastOf(h, WindowSize)
  <1>1. WindowSize \in Nat \ {0}
    BY WindowInHistory
  <1>2. Ending(last, h) /\ (h # <<>> => last # <<>>)
    BY <1>1, LastOfIsEnding
  <1>3. last \in Seq(Message)
    BY <1>2 DEF Ending
  <1>4. Window(h) = TrimAtUserTurn(last)
    BY DEF Window
  <1> HIDE DEF last
  <1>5. Ending(Window(h), last) /\ (Window(h) = <<>> \/ FromUser(Window(h)))
    BY <1>3, <1>4, TrimIsEnding
  <1>6. ASSUME h # <<>>, h[Len(h)].role = "user"
        PROVE  FromUser(Window(h))
    <2>1. Len(last) \in Nat \ {0} /\ Len(h) \in Nat
      BY <1>2, <1>3, <1>6, EmptySeq, LenProperties
    <2>2. last[Len(last)] = h[Len(h)]
      BY <1>2, <2>1 DEF Ending
    <2>3. \E i \in 1..Len(last) : last[i].role = "user"
      BY <1>6, <2>1, <2>2
    <2> QED
      BY <1>3, <1>4, <2>3, TrimIsEnding
  <1> QED
    BY <1>2, <1>5, <1>6, EndingOfEnding

\* The last message of an end of a list is that of the list.
LEMMA LastOfEnding ==
  ASSUME NEW ms \in Seq(Message), NEW s, Ending(s, ms), s # <<>>
  PROVE  Len(s) \in Nat \ {0} /\ s[Len(s)] = ms[Len(ms)]
  <1>1. Len(s) \in Nat \ {0} /\ Len(ms) \in Nat
    BY EmptySeq, LenProperties DEF Ending
  <1> QED
    BY <1>1 DEF Ending

-----------------------------------------------------------------------------
(* What cutting keeps.                                                       *)

LEMMA EndingIsLinked ==
  ASSUME NEW ms \in Seq(Message), Linked(ms), NEW s, Ending(s, ms)
  PROVE  Linked(s)
  <1> DEFINE d == Len(ms) - Len(s)
  <1>1. Len(ms) \in Nat /\ Len(s) \in Nat /\ d \in Nat
    BY LenProperties DEF Ending
  <1>2. \A i \in 1..Len(s) : s[i] = ms[i + d] /\ i + d \in 1..Len(ms) /\ s[i] \in Message
    BY <1>1, ElementOfSeq DEF Ending
  <1>3. Len(ms) = Len(s) + d
    BY <1>1
  <1> HIDE DEF d
  <1> SUFFICES ASSUME NEW i \in 1..Len(s)
               PROVE  /\ s[i].role = "assistant" =>
                           \A c \in 1..s[i].n : i + c <= Len(s) => s[i + c] = Tool(s[i].turn, s[i].round, c)
                      /\ s[i].role = "tool" =>
                           /\ \A c \in 1..s[i].n - 1 : i - c >= 1 =>
                                s[i - c] = Tool(s[i].turn, s[i].round, s[i].n - c)
                           /\ i - s[i].n >= 1 =>
                                \E k \in s[i].n..MaxCalls :
                                  s[i - s[i].n] = Assistant(s[i].turn, s[i].round, k)
                           /\ s[i].n >= 1
    BY DEF Linked
  <1> DEFINE j == i + d
  <1>4. j \in 1..Len(ms) /\ s[i] = ms[j] /\ s[i].n \in 0..MaxCalls
    BY <1>2 DEF Message
  <1>5. ASSUME s[i].role = "assistant", NEW c \in 1..s[i].n, i + c <= Len(s)
        PROVE  s[i + c] = Tool(s[i].turn, s[i].round, c)
    <2>1. i + c \in 1..Len(s) /\ (i + c) + d = j + c /\ j + c <= Len(ms)
      BY <1>1, <1>3, <1>4, <1>5, WindowInHistory
    <2>2. s[i + c] = ms[j + c]
      BY <1>2, <2>1
    <2> HIDE DEF j
    <2>3. ms[j + c] = Tool(ms[j].turn, ms[j].round, c)
      BY <1>4, <1>5, <2>1 DEF Linked
    <2> QED
      BY <1>4, <2>2, <2>3
  <1>6. ASSUME s[i].role = "tool", NEW c \in 1..s[i].n - 1, i - c >= 1
        PROVE  s[i - c] = Tool(s[i].turn, s[i].round, s[i].n - c)
    <2>1. i - c \in 1..Len(s) /\ (i - c) + d = j - c /\ j - c >= 1
      BY <1>1, <1>3, <1>4, <1>6, WindowInHistory
    <2>2. s[i - c] = ms[j - c]
      BY <1>2, <2>1
    <2> HIDE DEF j
    <2>3. ms[j - c] = Tool(ms[j].turn, ms[j].round, ms[j].n - c)
      BY <1>4, <1>6, <2>1 DEF Linked
    <2> QED
      BY <1>4, <2>2, <2>3
  <1>7. ASSUME s[i].role = "tool", i - s[i].n >= 1
        PROVE  \E k \in s[i].n..MaxCalls : s[i - s[i].n] = Assistant(s[i].turn, s[i].round, k)
    <2> DEFINE n == s[i].n
    <2>1. n >= 1 /\ n \in Nat
      BY <1>4, <1>7, WindowInHistory DEF Linked
    <2>2. i - n \in 1..Len(s) /\ (i - n) + d = j - n /\ j - n >= 1
      BY <1>1, <1>3, <1>4, <1>7, <2>1
    <2>3. s[i - n] = ms[j - n]
      BY <1>2, <2>2
    <2> HIDE DEF j
    <2>4. \E k \in n..MaxCalls : ms[j - n] = Assistant(ms[j].turn, ms[j].round, k)
      BY <1>4, <1>7, <2>2 DEF Linked
    <2> QED
      BY <1>4, <2>3, <2>4
  <1>8. s[i].role = "tool" => s[i].n >= 1
    BY <1>4 DEF Linked
  <1> QED
    BY <1>5, <1>6, <1>7, <1>8

LEMMA EndingIsAnswered ==
  ASSUME NEW ms \in Seq(Message), NEW s, Ending(s, ms)
  PROVE  /\ Answered(ms) => Answered(s)
         /\ \A d \in Int : AnsweredBut(ms, d) => AnsweredBut(s, d)
  <1> DEFINE e == Len(ms) - Len(s)
  <1>1. Len(ms) \in Nat /\ Len(s) \in Nat /\ e \in Nat /\ Len(ms) = Len(s) + e
    BY LenProperties DEF Ending
  <1>2. \A i \in 1..Len(s) : s[i] = ms[i + e] /\ i + e \in 1..Len(ms) /\ s[i].n \in Int
    <2> TAKE i \in 1..Len(s)
    <2>1. s[i] = ms[i + e] /\ i + e \in 1..Len(ms)
      BY <1>1 DEF Ending
    <2>2. ms[i + e] \in Message
      BY <2>1, ElementOfSeq
    <2> HIDE DEF e
    <2> QED
      BY <2>1, <2>2, WindowInHistory DEF Message
  <1> HIDE DEF e
  <1>3. Answered(ms) => Answered(s)
    BY <1>1, <1>2 DEF Answered
  <1>4. \A d \in Int : AnsweredBut(ms, d) => AnsweredBut(s, d)
    <2> SUFFICES ASSUME NEW d \in Int, AnsweredBut(ms, d), NEW i \in 1..Len(s), s[i].role = "assistant"
                 PROVE  i + s[i].n <= Len(s) \/ i = Len(s) - d
      BY DEF AnsweredBut
    <2>1. (i + e) + ms[i + e].n <= Len(ms) \/ i + e = Len(ms) - d
      BY <1>2 DEF AnsweredBut
    <2> QED
      BY <1>1, <1>2, <2>1
  <1> QED
    BY <1>3, <1>4

LEMMA EndingIsHalfAnswered ==
  ASSUME NEW ms \in Seq(Message), NEW s, Ending(s, ms),
         NEW t, NEW r, NEW n, NEW x \in Nat, HalfAnswered(ms, t, r, n, x)
  PROVE  HalfAnswered(s, t, r, n, x)
  <1>1. Len(ms) \in Nat /\ Len(s) \in Nat /\ Len(s) <= Len(ms)
    BY LenProperties DEF Ending
  <1>2. AnsweredBut(s, x - 1)
    BY <1>1, EndingIsAnswered DEF HalfAnswered
  <1>3. ASSUME NEW j \in 0..x - 1, j < Len(s)
        PROVE  s[Len(s) - j] = Expected(t, r, n, x, j)
    <2> DEFINE i == Len(s) - j
    <2>1. i \in 1..Len(s) /\ i + (Len(ms) - Len(s)) = Len(ms) - j /\ j < Len(ms)
      BY <1>1, <1>3
    <2> HIDE DEF i
    <2>2. s[i] = ms[i + (Len(ms) - Len(s))]
      BY <2>1 DEF Ending
    <2>3. ms[Len(ms) - j] = Expected(t, r, n, x, j)
      BY <1>3, <2>1 DEF HalfAnswered
    <2> QED
      BY <2>1, <2>2, <2>3 DEF i
  <1> QED
    BY <1>2, <1>3 DEF HalfAnswered

-----------------------------------------------------------------------------
(* What appending keeps.                                                     *)

LEMMA Appended ==
  ASSUME NEW ms \in Seq(Message), NEW m \in Message
  PROVE  /\ Append(ms, m) \in Seq(Message) /\ Len(Append(ms, m)) = Len(ms) + 1 /\ Len(ms) \in Nat
         /\ \A i \in 1..Len(ms) : Append(ms, m)[i] = ms[i] /\ ms[i] \in Message /\ ms[i].n \in Nat
         /\ Append(ms, m)[Len(ms) + 1] = m
  <1>1. \A i \in 1..Len(ms) : ms[i] \in Message
    BY ElementOfSeq
  <1>2. \A i \in 1..Len(ms) : ms[i].n \in Nat
    BY <1>1, WindowInHistory DEF Message
  <1> QED
    BY <1>1, <1>2, AppendProperties, LenProperties

\* A message may follow what it is linked to.
LEMMA AppendLinked ==
  ASSUME NEW ms \in Seq(Message), Linked(ms), NEW m \in Message,
         \A i \in 1..Len(ms) : ms[i].role = "assistant" /\ i + ms[i].n >= Len(ms) + 1 =>
            m = Tool(ms[i].turn, ms[i].round, Len(ms) + 1 - i),
         m.role = "tool" =>
           /\ m.n >= 1
           /\ \A c \in 1..m.n - 1 : c <= Len(ms) => ms[Len(ms) + 1 - c] = Tool(m.turn, m.round, m.n - c)
           /\ m.n <= Len(ms) => \E k \in m.n..MaxCalls : ms[Len(ms) + 1 - m.n] = Assistant(m.turn, m.round, k)
  PROVE  Linked(Append(ms, m))
  <1> DEFINE l == Append(ms, m)
             n == Len(ms)
  <1>1. /\ Len(l) = n + 1 /\ n \in Nat
        /\ \A i \in 1..n : l[i] = ms[i] /\ ms[i].n \in Nat
        /\ l[n + 1] = m /\ m.n \in Nat
    <2>1. m.n \in Nat
      BY WindowInHistory DEF Message
    <2> QED
      BY <2>1, Appended
  <1> HIDE DEF l
  <1>2. ASSUME NEW i \in 1..n, l[i].role = "assistant", NEW c \in 1..l[i].n, i + c <= n + 1
        PROVE  l[i + c] = Tool(l[i].turn, l[i].round, c)
    <2>1. CASE i + c <= n
      <3>1. i + c \in 1..n
        BY <1>1, <2>1
      <3>2. ms[i + c] = Tool(ms[i].turn, ms[i].round, c)
        BY <1>1, <1>2, <2>1 DEF Linked
      <3> QED
        BY <1>1, <3>1, <3>2
    <2>2. CASE i + c = n + 1
      <3>1. c = n + 1 - i /\ i + ms[i].n >= n + 1
        BY <1>1, <1>2, <2>2
      <3>2. ms[i].role = "assistant"
        BY <1>1, <1>2
      <3>3. m = Tool(ms[i].turn, ms[i].round, c)
        BY <3>1, <3>2
      <3> QED
        BY <1>1, <2>2, <3>3
    <2>3. i + c <= n \/ i + c = n + 1
      <3>1. ms[i].n \in Nat /\ l[i] = ms[i]
        BY <1>1
      <3>2. c \in Int /\ i \in Int
        BY <3>1
      <3>3. i + c <= n + 1 /\ n \in Int
        BY <1>1, <1>2
      <3> HIDE DEF n
      <3> QED
        BY <3>2, <3>3
    <2> QED
      BY <2>1, <2>2, <2>3
  <1>3. ASSUME NEW i \in 1..n, l[i].role = "tool"
        PROVE  /\ \A c \in 1..l[i].n - 1 : i - c >= 1 => l[i - c] = Tool(l[i].turn, l[i].round, l[i].n - c)
               /\ i - l[i].n >= 1 =>
                    \E k \in l[i].n..MaxCalls : l[i - l[i].n] = Assistant(l[i].turn, l[i].round, k)
               /\ l[i].n >= 1
    <2>1. l[i] = ms[i] /\ ms[i].role = "tool" /\ ms[i].n \in Nat /\ ms[i].n >= 1
      BY <1>1, <1>3 DEF Linked
    <2>2. \A c \in Nat : c >= 1 /\ i - c >= 1 => l[i - c] = ms[i - c]
      BY <1>1
    <2>3. \A c \in 1..ms[i].n - 1 : i - c >= 1 => ms[i - c] = Tool(ms[i].turn, ms[i].round, ms[i].n - c)
      BY <2>1 DEF Linked
    <2>4. i - ms[i].n >= 1 =>
            \E k \in ms[i].n..MaxCalls : ms[i - ms[i].n] = Assistant(ms[i].turn, ms[i].round, k)
      BY <2>1 DEF Linked
    <2> QED
      BY <2>1, <2>2, <2>3, <2>4
  <1>4. ASSUME m.role = "tool"
        PROVE  /\ \A c \in 1..m.n - 1 : n + 1 - c >= 1 => l[n + 1 - c] = Tool(m.turn, m.round, m.n - c)
               /\ n + 1 - m.n >= 1 =>
                    \E k \in m.n..MaxCalls : l[n + 1 - m.n] = Assistant(m.turn, m.round, k)
    <2>1. m.n \in Nat /\ m.n >= 1
      BY <1>1, <1>4
    <2>2. \A c \in Nat : c >= 1 /\ n + 1 - c >= 1 => c <= n /\ l[n + 1 - c] = ms[n + 1 - c]
      BY <1>1
    <2>3. \A c \in 1..m.n - 1 : c <= n => ms[n + 1 - c] = Tool(m.turn, m.round, m.n - c)
      BY <1>4
    <2>4. m.n <= n => \E k \in m.n..MaxCalls : ms[n + 1 - m.n] = Assistant(m.turn, m.round, k)
      BY <1>4
    <2>5. \A c \in 1..m.n - 1 : n + 1 - c >= 1 => l[n + 1 - c] = Tool(m.turn, m.round, m.n - c)
      <3> TAKE c \in 1..m.n - 1
      <3> HAVE n + 1 - c >= 1
      <3>1. c \in Nat /\ c >= 1
        BY <2>1
      <3>2. c <= n /\ l[n + 1 - c] = ms[n + 1 - c]
        BY <2>2, <3>1
      <3> QED
        BY <2>3, <3>2
    <2>6. ASSUME n + 1 - m.n >= 1
          PROVE  \E k \in m.n..MaxCalls : l[n + 1 - m.n] = Assistant(m.turn, m.round, k)
      <3>1. m.n <= n /\ l[n + 1 - m.n] = ms[n + 1 - m.n]
        BY <2>1, <2>2, <2>6
      <3> QED
        BY <2>4, <3>1
    <2> QED
      BY <2>5, <2>6
  <1>5. m.role = "assistant" => \A c \in 1..m.n : ~ (n + 1 + c <= n + 1)
    BY <1>1
  <1> HIDE DEF n
  <1> SUFFICES ASSUME NEW i \in 1..n + 1
               PROVE  /\ l[i].role = "assistant" =>
                           \A c \in 1..l[i].n : i + c <= n + 1 => l[i + c] = Tool(l[i].turn, l[i].round, c)
                      /\ l[i].role = "tool" =>
                           /\ \A c \in 1..l[i].n - 1 : i - c >= 1 =>
                                l[i - c] = Tool(l[i].turn, l[i].round, l[i].n - c)
                           /\ i - l[i].n >= 1 =>
                                \E k \in l[i].n..MaxCalls :
                                  l[i - l[i].n] = Assistant(l[i].turn, l[i].round, k)
                           /\ l[i].n >= 1
    BY <1>1 DEF Linked, l
  <1>6. CASE i \in 1..n
    BY <1>2, <1>3, <1>6
  <1>7. CASE i = n + 1
    BY <1>1, <1>4, <1>5, <1>7
  <1> QED
    BY <1>1, <1>6, <1>7

\* A message of the user's or a plain answer leaves no call open.
LEMMA AppendQuiet ==
  ASSUME NEW ms \in Seq(Message), Linked(ms), Answered(ms),
         NEW m \in Message, m.role # "tool"
  PROVE  /\ Linked(Append(ms, m)) /\ AnsweredBut(Append(ms, m), 0)
         /\ (m.role = "assistant" => m.n = 0) => Answered(Append(ms, m))
  <1> DEFINE l == Append(ms, m)
  <1>1. /\ Len(l) = Len(ms) + 1 /\ Len(ms) \in Nat
        /\ \A i \in 1..Len(ms) : l[i] = ms[i] /\ ms[i].n \in Nat
        /\ l[Len(ms) + 1] = m
    BY Appended
  <1>2. \A i \in 1..Len(ms) : ms[i].role = "assistant" => ~ (i + ms[i].n >= Len(ms) + 1)
    BY <1>1 DEF Answered
  <1>3. Linked(l)
    BY <1>2, AppendLinked
  <1> HIDE DEF l
  <1>4. \A i \in 1..Len(ms) : l[i].role = "assistant" => i + l[i].n <= Len(l)
    BY <1>1 DEF Answered
  <1>5. \A i \in 1..Len(l) : i \in 1..Len(ms) \/ i = Len(ms) + 1
    BY <1>1
  <1>6. AnsweredBut(l, 0)
    BY <1>1, <1>4, <1>5 DEF AnsweredBut
  <1>7. (m.role = "assistant" => m.n = 0) => Answered(l)
    BY <1>1, <1>4, <1>5 DEF Answered
  <1> QED
    BY <1>3, <1>6, <1>7 DEF l

\* A message with calls leaves them open.
LEMMA AppendCalls ==
  ASSUME NEW ms \in Seq(Message), Linked(ms), Answered(ms),
         NEW t, NEW r, NEW n, Assistant(t, r, n) \in Message
  PROVE  /\ Linked(Append(ms, Assistant(t, r, n)))
         /\ HalfAnswered(Append(ms, Assistant(t, r, n)), t, r, n, 1)
  <1> DEFINE m == Assistant(t, r, n)
             l == Append(ms, m)
  <1>1. m.role # "tool"
    BY Roles
  <1> HIDE DEF m
  <1>2. m \in Message
    BY DEF m
  <1>3. Linked(l) /\ AnsweredBut(l, 0)
    BY <1>1, <1>2, AppendQuiet
  <1>4. Len(l) \in Nat /\ l[Len(l)] = m
    BY <1>2, Appended
  <1> HIDE DEF l
  <1>5. \A j \in 0..1 - 1 : j < Len(l) => l[Len(l) - j] = Expected(t, r, n, 1, j)
    BY <1>4 DEF Expected, m
  <1>6. HalfAnswered(l, t, r, n, 1)
    BY <1>3, <1>5 DEF HalfAnswered
  <1> QED
    BY <1>3, <1>6 DEF l, m

\* The result of the call the turn runs goes behind what there is of its calls, and
\* the last one leaves none open.
LEMMA AppendResult ==
  ASSUME NEW ms \in Seq(Message), Linked(ms), NEW t, NEW r, NEW n \in 0..MaxCalls, NEW x \in 1..n,
         HalfAnswered(ms, t, r, n, x), Tool(t, r, x) \in Message
  PROVE  /\ Linked(Append(ms, Tool(t, r, x)))
         /\ HalfAnswered(Append(ms, Tool(t, r, x)), t, r, n, x + 1)
         /\ x = n => Answered(Append(ms, Tool(t, r, x)))
  <1> DEFINE m == Tool(t, r, x)
             l == Append(ms, m)
             k == Len(ms)
  <1>1. m.role = "tool" /\ m.turn = t /\ m.round = r /\ m.n = x /\ m \in Message
    BY Roles
  <1>2. n \in Nat /\ x \in Nat /\ x >= 1 /\ x <= n /\ n <= MaxCalls /\ MaxCalls \in Nat
    BY WindowInHistory
  <1> HIDE DEF m
  <1>3. /\ Len(l) = k + 1 /\ k \in Nat
        /\ \A i \in 1..k : l[i] = ms[i] /\ ms[i].n \in Nat
        /\ l[k + 1] = m
    BY <1>1, Appended
  <1>4. \A j \in 0..x - 1 : j < k => ms[k - j] = Expected(t, r, n, x, j)
    BY DEF HalfAnswered
  <1>5. \A i \in 1..k : ms[i].role = "assistant" => i + ms[i].n <= k \/ i = k - (x - 1)
    BY DEF HalfAnswered, AnsweredBut
  <1>6. k - (x - 1) >= 1 => ms[k - (x - 1)] = Assistant(t, r, n)
    <2>1. x - 1 \in 0..x - 1 /\ (k - (x - 1) >= 1 => x - 1 < k)
      BY <1>2, <1>3
    <2>2. Expected(t, r, n, x, x - 1) = Assistant(t, r, n)
      BY DEF Expected
    <2> QED
      BY <1>4, <2>1, <2>2
  <1> HIDE DEF l
  <1>7. \A i \in 1..k : ms[i].role = "assistant" /\ i + ms[i].n >= k + 1 =>
          m = Tool(ms[i].turn, ms[i].round, k + 1 - i)
    <2> SUFFICES ASSUME NEW i \in 1..k, ms[i].role = "assistant", i + ms[i].n >= k + 1
                 PROVE  m = Tool(ms[i].turn, ms[i].round, k + 1 - i)
      OBVIOUS
    <2>1. i = k - (x - 1)
      BY <1>3, <1>5
    <2>2. k + 1 - i = x /\ k - (x - 1) >= 1
      BY <1>2, <1>3, <2>1
    <2>3. ms[i] = Assistant(t, r, n)
      BY <1>6, <2>1, <2>2
    <2> QED
      BY <2>2, <2>3, Roles DEF m
  <1>8. \A c \in 1..m.n - 1 : c <= k => ms[k + 1 - c] = Tool(m.turn, m.round, m.n - c)
    <2> SUFFICES ASSUME NEW c \in 1..x - 1, c <= k
                 PROVE  ms[k + 1 - c] = Tool(t, r, x - c)
      BY <1>1
    <2>1. c - 1 \in 0..x - 1 /\ c - 1 < k /\ k - (c - 1) = k + 1 - c /\ c - 1 # x - 1
          /\ x - 1 - (c - 1) = x - c
      BY <1>2, <1>3
    <2>2. ms[k - (c - 1)] = Expected(t, r, n, x, c - 1)
      BY <1>4, <2>1
    <2> QED
      BY <2>1, <2>2 DEF Expected
  <1>9. m.n <= k => \E q \in m.n..MaxCalls : ms[k + 1 - m.n] = Assistant(m.turn, m.round, q)
    <2> SUFFICES ASSUME x <= k
                 PROVE  \E q \in x..MaxCalls : ms[k + 1 - x] = Assistant(t, r, q)
      BY <1>1
    <2>1. k - (x - 1) = k + 1 - x /\ k - (x - 1) >= 1 /\ n \in x..MaxCalls
      BY <1>2, <1>3
    <2> QED
      BY <1>6, <2>1
  <1>10. Linked(l)
    BY <1>1, <1>2, <1>7, <1>8, <1>9, AppendLinked DEF l
  <1>11. \A j \in 0..x : j < Len(l) => l[Len(l) - j] = Expected(t, r, n, x + 1, j)
    <2> SUFFICES ASSUME NEW j \in 0..x, j < Len(l)
                 PROVE  l[Len(l) - j] = Expected(t, r, n, x + 1, j)
      OBVIOUS
    <2>1. CASE j = 0
      BY <1>2, <1>3, <2>1 DEF Expected, m
    <2>2. CASE j # 0
      <3>1. j - 1 \in 0..x - 1 /\ j - 1 < k /\ Len(l) - j = k - (j - 1) /\ k - (j - 1) \in 1..k
        BY <1>2, <1>3, <2>2
      <3>2. l[Len(l) - j] = Expected(t, r, n, x, j - 1)
        BY <1>3, <1>4, <3>1
      <3>3. Expected(t, r, n, x, j - 1) = Expected(t, r, n, x + 1, j)
        <4>1. (j - 1 = x - 1) <=> (j = (x + 1) - 1)
          BY <1>2
        <4>2. x - 1 - (j - 1) = (x + 1) - 1 - j
          BY <1>2
        <4> QED
          BY <4>1, <4>2 DEF Expected
      <3> QED
        BY <3>2, <3>3
    <2> QED
      BY <2>1, <2>2
  <1>12. AnsweredBut(l, x)
    <2> SUFFICES ASSUME NEW i \in 1..Len(l), l[i].role = "assistant"
                 PROVE  i + l[i].n <= Len(l) \/ i = Len(l) - x
      BY DEF AnsweredBut
    <2>1. i # k + 1
      BY <1>1, <1>3
    <2>2. i \in 1..k /\ l[i] = ms[i] /\ ms[i].n \in Nat
      BY <1>3, <2>1
    <2> QED
      BY <1>2, <1>3, <1>5, <2>2
  <1>13. HalfAnswered(l, t, r, n, x + 1)
    <2>1. (x + 1) - 1 = x
      BY <1>2
    <2> QED
      BY <1>11, <1>12, <2>1 DEF HalfAnswered
  <1>14. ASSUME x = n
         PROVE  Answered(l)
    <2> SUFFICES ASSUME NEW i \in 1..Len(l), l[i].role = "assistant"
                 PROVE  i + l[i].n <= Len(l)
      BY DEF Answered
    <2>1. CASE i = Len(l) - x
      <3>1. k - (x - 1) = i /\ i >= 1 /\ i \in 1..k
        BY <1>2, <1>3, <2>1
      <3>2. l[i].n = n
        BY <1>3, <1>6, <3>1, Roles
      <3> QED
        BY <1>2, <1>3, <1>14, <2>1, <3>2
    <2>2. CASE i # Len(l) - x
      BY <1>12, <2>2 DEF AnsweredBut
    <2> QED
      BY <2>1, <2>2
  <1> QED
    BY <1>10, <1>13, <1>14 DEF l, m

\* A list that starts with a user's message still does.
LEMMA AppendFromUser ==
  ASSUME NEW ms \in Seq(Message), FromUser(ms), NEW m \in Message
  PROVE  FromUser(Append(ms, m))
  <1>1. Len(ms) # 0
    BY EmptySeq DEF FromUser
  <1>2. Append(ms, m)[1] = ms[1] /\ Len(Append(ms, m)) # 0
    BY <1>1, Appended
  <1> QED
    BY <1>2, EmptySeq DEF FromUser

\* What starts with a user's message has the call of every result it has.
LEMMA LinkedIsWellFormed ==
  ASSUME NEW ms \in Seq(Message), Linked(ms), Answered(ms), FromUser(ms)
  PROVE  WellFormed(ms)
  <1>1. Len(ms) \in Nat /\ DOMAIN ms = 1..Len(ms)
    BY LenProperties
  <1>2. \A i \in 1..Len(ms) : ms[i].n \in Nat
    <2> TAKE i \in 1..Len(ms)
    <2>1. ms[i] \in Message
      BY ElementOfSeq
    <2> QED
      BY <2>1, WindowInHistory DEF Message
  <1>3. ASSUME NEW i \in 1..Len(ms), ms[i].role = "assistant", NEW c \in 1..ms[i].n
        PROVE  i + c \in 1..Len(ms) /\ ms[i + c] = Tool(ms[i].turn, ms[i].round, c)
    <2>1. i + c <= Len(ms) /\ i + c \in 1..Len(ms)
      BY <1>1, <1>2, <1>3 DEF Answered
    <2> QED
      BY <1>3, <2>1 DEF Linked
  <1>4. ASSUME NEW i \in 1..Len(ms), ms[i].role = "tool"
        PROVE  i - ms[i].n \in 1..Len(ms) /\ \E k \in ms[i].n..MaxCalls :
                 ms[i - ms[i].n] = Assistant(ms[i].turn, ms[i].round, k)
    <2>1. ms[i].n \in Nat /\ ms[i].n >= 1
      BY <1>2, <1>4 DEF Linked
    <2>2. i # 1
      BY <1>4 DEF FromUser
    <2>3. i - ms[i].n >= 1
      <3> SUFFICES ASSUME ~ (i - ms[i].n >= 1)
                   PROVE  FALSE
        OBVIOUS
      <3> DEFINE c == i - 1
      <3>1. c \in 1..ms[i].n - 1 /\ i - c >= 1 /\ i - c = 1
        BY <1>1, <2>1, <2>2
      <3> HIDE DEF c
      <3>2. ms[i - c] = Tool(ms[i].turn, ms[i].round, ms[i].n - c)
        BY <1>4, <3>1 DEF Linked
      <3>3. ms[1].role = "tool"
        BY <3>1, <3>2, Roles
      <3> QED
        BY <3>3 DEF FromUser
    <2>4. i - ms[i].n \in 1..Len(ms)
      BY <1>1, <2>1, <2>3
    <2> QED
      BY <1>4, <2>3, <2>4 DEF Linked
  <1> QED
    BY <1>1, <1>3, <1>4 DEF WellFormed

-----------------------------------------------------------------------------
(* Adding to the history.                                                    *)

LEMMA AddTyped ==
  ASSUME NEW h \in Seq(Message), Len(h) <= MaxHistory, NEW m \in Message
  PROVE  Add(h, m) \in Seq(Message) /\ Len(Add(h, m)) <= MaxHistory
  BY AddIsEnding DEF Ending

LEMMA AddQuiet ==
  ASSUME NEW h \in Seq(Message), Len(h) <= MaxHistory, Linked(h), Answered(h),
         NEW m \in Message, m.role # "tool", m.role = "assistant" => m.n = 0
  PROVE  Linked(Add(h, m)) /\ Answered(Add(h, m))
  <1> DEFINE l == Append(h, m)
             a == Add(h, m)
  <1>1. l \in Seq(Message) /\ Linked(l) /\ Answered(l)
    BY Appended, AppendQuiet
  <1>2. Ending(a, l)
    BY AddIsEnding
  <1> HIDE DEF a, l
  <1>3. Linked(a) /\ Answered(a)
    BY <1>1, <1>2, EndingIsLinked, EndingIsAnswered
  <1> QED
    BY <1>3 DEF a

LEMMA AddCalls ==
  ASSUME NEW h \in Seq(Message), Len(h) <= MaxHistory, Linked(h), Answered(h),
         NEW t, NEW r, NEW n, Assistant(t, r, n) \in Message
  PROVE  Linked(Add(h, Assistant(t, r, n))) /\ HalfAnswered(Add(h, Assistant(t, r, n)), t, r, n, 1)
  <1> DEFINE l == Append(h, Assistant(t, r, n))
             a == Add(h, Assistant(t, r, n))
  <1>1. l \in Seq(Message) /\ Linked(l) /\ HalfAnswered(l, t, r, n, 1)
    BY Appended, AppendCalls
  <1>2. Ending(a, l)
    BY AddIsEnding
  <1> HIDE DEF a, l
  <1>3. Linked(a) /\ HalfAnswered(a, t, r, n, 1)
    BY <1>1, <1>2, EndingIsLinked, EndingIsHalfAnswered
  <1> QED
    BY <1>3 DEF a

LEMMA AddResult ==
  ASSUME NEW h \in Seq(Message), Len(h) <= MaxHistory, Linked(h),
         NEW t, NEW r, NEW n \in 0..MaxCalls, NEW x \in 1..n,
         HalfAnswered(h, t, r, n, x), Tool(t, r, x) \in Message
  PROVE  /\ Linked(Add(h, Tool(t, r, x))) /\ HalfAnswered(Add(h, Tool(t, r, x)), t, r, n, x + 1)
         /\ x = n => Answered(Add(h, Tool(t, r, x)))
  <1> DEFINE l == Append(h, Tool(t, r, x))
             a == Add(h, Tool(t, r, x))
  <1>1. /\ l \in Seq(Message) /\ Linked(l) /\ HalfAnswered(l, t, r, n, x + 1)
        /\ x = n => Answered(l)
    BY Appended, AppendResult
  <1>2. Ending(a, l)
    BY AddIsEnding
  <1>3. x + 1 \in Nat
    BY WindowInHistory
  <1> HIDE DEF a, l
  <1>4. Linked(a) /\ HalfAnswered(a, t, r, n, x + 1) /\ (x = n => Answered(a))
    BY <1>1, <1>2, <1>3, EndingIsLinked, EndingIsHalfAnswered, EndingIsAnswered
  <1> QED
    BY <1>4 DEF a

\* The message a turn starts with is the last of the history.
LEMMA AddUser ==
  ASSUME NEW h \in Seq(Message), Len(h) <= MaxHistory, NEW t \in Turns
  PROVE  LET a == Add(h, User(t))
         IN a \in Seq(Message) /\ a # <<>> /\ a[Len(a)] = User(t)
  <1> DEFINE a == Add(h, User(t))
             l == Append(h, User(t))
  <1>1. User(t) \in Message /\ User(t).role = "user"
    BY MessagesAreTyped, Roles
  <1>2. Ending(a, l) /\ a # <<>>
    BY <1>1, AddIsEnding
  <1>3. l \in Seq(Message) /\ l[Len(l)] = User(t)
    BY <1>1, Appended
  <1> HIDE DEF a, l
  <1>4. a \in Seq(Message) /\ a[Len(a)] = User(t)
    BY <1>2, <1>3, LastOfEnding DEF Ending
  <1> QED
    BY <1>2, <1>4 DEF a

\* The first request of a turn ends in that message too, and starts with a user's.
LEMMA FirstRequestOf ==
  ASSUME TypeOK, NEW t \in Turns
  PROVE  /\ Ending(FirstRequest(t), Add(history, User(t))) /\ FirstRequest(t) \in Seq(Message)
         /\ FromUser(FirstRequest(t))
         /\ \E i \in 1..Len(FirstRequest(t)) : FirstRequest(t)[i] = User(t)
  <1> DEFINE a == Add(history, User(t))
             w == Window(a)
  <1>1. a \in Seq(Message) /\ a # <<>> /\ a[Len(a)] = User(t)
    BY AddUser DEF TypeOK
  <1>2. a[Len(a)].role = "user"
    BY <1>1, Roles
  <1> HIDE DEF a
  <1>3. Ending(w, a) /\ FromUser(w) /\ w # <<>>
    BY <1>1, <1>2, WindowIsEnding DEF FromUser
  <1> HIDE DEF w
  <1>4. Len(w) \in Nat \ {0} /\ w[Len(w)] = User(t)
    BY <1>1, <1>3, LastOfEnding
  <1>5. \E i \in 1..Len(w) : w[i] = User(t)
    BY <1>4
  <1>6. w \in Seq(Message)
    BY <1>3 DEF Ending
  <1> QED
    BY <1>3, <1>5, <1>6 DEF FirstRequest, a, w

-----------------------------------------------------------------------------
(* Types.                                                                    *)

LEMMA TypeInit ==
  Init => TypeOK
  <1> SUFFICES ASSUME Init PROVE TypeOK
    OBVIOUS
  <1>1. <<>> \in Seq(Message) /\ Len(<<>>) <= MaxHistory
    BY EmptySeq, WindowInHistory
  <1>2. 0 \in 0..MaxRounds /\ 0 \in 0..MaxCalls
    BY WindowInHistory
  <1> QED
    BY <1>1, <1>2 DEF Init, TypeOK

LEMMA TypeStep ==
  TypeOK /\ CallsOK /\ [Next]_vars => TypeOK' /\ CallsOK'
  <1> SUFFICES ASSUME TypeOK, CallsOK, [Next]_vars PROVE TypeOK' /\ CallsOK'
    OBVIOUS
  <1> USE DEF TypeOK, CallsOK
  <1>a. MaxRounds \in Nat /\ MaxCalls \in Nat
    BY WindowInHistory
  <1>b. \A m \in Message : Add(history, m) \in Seq(Message) /\ Len(Add(history, m)) <= MaxHistory
    BY AddTyped
  <1>c. \A t \in Turns : Assistant(t, round[t], 0) \in Message
    BY <1>a, MessagesAreTyped
  <1>1. CASE Expire
    BY <1>1, EmptySeq, <1>a, WindowInHistory DEF Expire
  <1>2. ASSUME NEW t \in Turns, Start(t) PROVE TypeOK' /\ CallsOK'
    <2>1. User(t) \in Message
      BY MessagesAreTyped
    <2>2. FirstRequest(t) \in Seq(Message)
      BY FirstRequestOf
    <2>3. overlapped' \in BOOLEAN
      BY <1>2 DEF Start
    <2> QED
      BY <1>2, <1>b, <2>1, <2>2, <2>3 DEF Start
  <1>3. ASSUME NEW t \in Turns, NEW how \in {"done", "lost"},
               NEW h \in Seq(Message), Len(h) <= MaxHistory, Leave(t, how, h)
        PROVE  TypeOK' /\ CallsOK'
    BY <1>3 DEF Leave
  <1>4. ASSUME NEW t \in Turns, Answer(t) \/ DropCalls(t) \/ ModelFails(t) \/ ConnectionLost(t)
        PROVE  TypeOK' /\ CallsOK'
    <2> DEFINE a == Add(history, Assistant(t, round[t], 0))
    <2>1. a \in Seq(Message) /\ Len(a) <= MaxHistory
      BY <1>b, <1>c
    <2>2. history \in Seq(Message) /\ Len(history) <= MaxHistory
      OBVIOUS
    <2>3. \/ Leave(t, "done", a) \/ Leave(t, "done", history) \/ Leave(t, "lost", history)
      BY <1>4 DEF Answer, DropCalls, ModelFails, ConnectionLost, End
    <2> HIDE DEF a
    <2> HIDE DEF TypeOK, CallsOK
    <2> QED
      BY <1>3, <2>1, <2>2, <2>3
  <1>5. ASSUME NEW t \in Turns, NEW n \in 1..MaxCalls, CallTools(t, n)
        PROVE  TypeOK' /\ CallsOK'
    <2>1. Assistant(t, round[t], n) \in Message /\ n \in 0..MaxCalls /\ 1 \in 0..MaxCalls
          /\ n \in Nat /\ 1 <= n
      BY <1>a, MessagesAreTyped
    <2>2. Append(sent[t], Assistant(t, round[t], n)) \in Seq(Message)
      BY <2>1, Appended
    <2>3. TypeOK'
      BY <1>5, <1>b, <2>1, <2>2 DEF CallTools
    <2>4. round[t] < MaxRounds
      BY <1>5 DEF CallTools, ToolsOffered
    <2>5. CallsOK'
      BY <1>5, <2>1, <2>4 DEF CallTools
    <2> QED
      BY <2>3, <2>5
  <1>6. ASSUME NEW t \in Turns, ToolReturns(t)
        PROVE  TypeOK' /\ CallsOK'
    <2>1. round[t] < MaxRounds /\ next[t] \in 1..calls[t] /\ round[t] \in Nat /\ next[t] \in Nat
          /\ calls[t] \in Nat /\ calls[t] <= MaxCalls
      BY <1>6, <1>a DEF ToolReturns
    <2>2. Tool(t, round[t], next[t]) \in Message
      BY <1>a, MessagesAreTyped
    <2>3. Append(sent[t], Tool(t, round[t], next[t])) \in Seq(Message)
      BY <2>2, Appended
    <2>4. /\ history' \in Seq(Message) /\ Len(history') <= MaxHistory /\ sent' \in [Turns -> Seq(Message)]
          /\ UNCHANGED <<bridge, calls, overlapped>>
      BY <1>6, <1>b, <2>2, <2>3 DEF ToolReturns
    <2>5. CASE /\ next[t] < calls[t] /\ next' = [next EXCEPT ![t] = @ + 1] /\ UNCHANGED <<pc, round>>
      <3>1. next[t] + 1 \in 0..MaxCalls /\ next[t] + 1 \in 1..calls[t]
        BY <1>a, <2>1, <2>5
      <3> QED
        BY <2>4, <2>5, <3>1
    <2>6. CASE /\ round' = [round EXCEPT ![t] = @ + 1] /\ pc' = [pc EXCEPT ![t] = "model"]
               /\ UNCHANGED next
      <3>1. round[t] + 1 \in 0..MaxRounds
        BY <1>a, <2>1
      <3>2. TypeOK'
        BY <2>4, <2>6, <3>1
      <3>3. CallsOK'
        BY <2>4, <2>6
      <3> QED
        BY <3>2, <3>3
    <2> QED
      BY <1>6, <2>5, <2>6 DEF ToolReturns
  <1>7. CASE UNCHANGED vars
    BY <1>7 DEF vars
  <1> QED
    BY <1>1, <1>2, <1>4, <1>5, <1>6, <1>7 DEF Next, Turn

-----------------------------------------------------------------------------
(* A turn's own list.                                                        *)

LEMMA AppendSees ==
  ASSUME NEW ms \in Seq(Message), NEW m \in Message, NEW u, \E i \in 1..Len(ms) : ms[i] = u
  PROVE  \E i \in 1..Len(Append(ms, m)) : Append(ms, m)[i] = u
  <1> DEFINE l == Append(ms, m)
  <1>1. Len(l) = Len(ms) + 1 /\ Len(ms) \in Nat /\ \A i \in 1..Len(ms) : l[i] = ms[i]
    BY Appended
  <1> HIDE DEF l
  <1>2. PICK i \in 1..Len(ms) : ms[i] = u
    OBVIOUS
  <1>3. i \in 1..Len(l) /\ l[i] = u
    BY <1>1, <1>2
  <1> QED
    BY <1>3 DEF l

LEMMA SeesStep ==
  TypeOK /\ AllSee /\ [Next]_vars => AllSee'
  <1> SUFFICES ASSUME TypeOK, AllSee, [Next]_vars PROVE AllSee'
    OBVIOUS
  <1> USE DEF AllSee, InFlight, Sees
  <1>1. CASE Expire \/ UNCHANGED vars
    BY <1>1 DEF Expire, vars
  <1>2. ASSUME NEW t \in Turns, Start(t) PROVE AllSee'
    <2>1. \E i \in 1..Len(FirstRequest(t)) : FirstRequest(t)[i] = User(t)
      BY FirstRequestOf
    <2>2. sent' = [sent EXCEPT ![t] = FirstRequest(t)] /\ pc' = [pc EXCEPT ![t] = "model"]
      BY <1>2 DEF Start
    <2>3. \A u \in Turns : u # t => sent'[u] = sent[u] /\ pc'[u] = pc[u]
      BY <2>2 DEF TypeOK
    <2>4. sent'[t] = FirstRequest(t)
      BY <2>2 DEF TypeOK
    <2> QED
      BY <2>1, <2>3, <2>4
  <1>3. ASSUME NEW t \in Turns, Answer(t) \/ DropCalls(t) \/ ModelFails(t) \/ ConnectionLost(t)
        PROVE  AllSee'
    <2>1. sent' = sent /\ \E how \in {"done", "lost"} : pc' = [pc EXCEPT ![t] = how]
      BY <1>3 DEF Answer, DropCalls, ModelFails, ConnectionLost, End, Leave
    <2>2. \A u \in Turns : pc'[u] \in {"model", "tools"} => pc[u] \in {"model", "tools"}
      BY <2>1 DEF TypeOK
    <2> QED
      BY <2>1, <2>2
  <1>4. ASSUME NEW t \in Turns, NEW m \in Message, t \in InFlight,
               sent' = [sent EXCEPT ![t] = Append(@, m)],
               \A u \in Turns : u # t => pc'[u] = pc[u]
        PROVE  AllSee'
    <2>1. \A u \in Turns : u # t => sent'[u] = sent[u]
      BY <1>4 DEF TypeOK
    <2>2. sent'[t] = Append(sent[t], m) /\ sent[t] \in Seq(Message)
      BY <1>4 DEF TypeOK
    <2>3. \E i \in 1..Len(sent[t]) : sent[t][i] = User(t)
      BY <1>4
    <2>4. \E i \in 1..Len(sent'[t]) : sent'[t][i] = User(t)
      BY <2>2, <2>3, AppendSees
    <2> QED
      BY <1>4, <2>1, <2>4
  <1>5. ASSUME NEW t \in Turns, NEW n \in 1..MaxCalls, CallTools(t, n)
        PROVE  AllSee'
    <2>1. Assistant(t, round[t], n) \in Message
      BY MessagesAreTyped, WindowInHistory DEF TypeOK
    <2>2. t \in InFlight /\ sent' = [sent EXCEPT ![t] = Append(@, Assistant(t, round[t], n))]
      BY <1>5 DEF CallTools
    <2>3. \A u \in Turns : u # t => pc'[u] = pc[u]
      BY <1>5 DEF CallTools, TypeOK
    <2> QED
      BY <1>4, <2>1, <2>2, <2>3
  <1>6. ASSUME NEW t \in Turns, ToolReturns(t)
        PROVE  AllSee'
    <2>1. Tool(t, round[t], next[t]) \in Message
      BY MessagesAreTyped DEF TypeOK
    <2>2. t \in InFlight /\ sent' = [sent EXCEPT ![t] = Append(@, Tool(t, round[t], next[t]))]
      BY <1>6 DEF ToolReturns
    <2>3. \A u \in Turns : u # t => pc'[u] = pc[u]
      BY <1>6 DEF ToolReturns, TypeOK
    <2> QED
      BY <1>4, <2>1, <2>2, <2>3
  <1> QED
    BY <1>1, <1>2, <1>3, <1>5, <1>6 DEF Next, Turn

-----------------------------------------------------------------------------
(* Turns one after the other.                                                *)

\* Turns that are one after the other have been so far.
LEMMA SequentialBefore ==
  ASSUME TypeOK, [Next]_vars, Sequential'
  PROVE  Sequential
  <1> USE DEF Sequential
  <1>1. ~overlapped
    BY DEF Next, Turn, Expire, Start, Answer, DropCalls, ModelFails, ConnectionLost, End, Leave,
           CallTools, ToolReturns, vars
  <1>2. CASE Expire \/ UNCHANGED vars
    BY <1>1, <1>2 DEF Expire, vars
  <1>3. ASSUME NEW t \in Turns, Turn(t)
        PROVE  \A u \in Turns : pc[u] # "lost"
    <2>1. pc[t] # "lost"
      BY <1>3 DEF Turn, Start, Answer, DropCalls, ModelFails, ConnectionLost, CallTools, ToolReturns, InFlight
    <2>2. pc' = pc \/ \E v : pc' = [pc EXCEPT ![t] = v]
      BY <1>3 DEF Turn, Start, Answer, DropCalls, ModelFails, ConnectionLost, CallTools, ToolReturns,
                  End, Leave
    <2>3. \A u \in Turns : u # t => pc'[u] = pc[u]
      BY <2>2 DEF TypeOK
    <2> QED
      BY <2>1, <2>3
  <1> QED
    BY <1>1, <1>2, <1>3 DEF Next

\* What holds between turns, and in one.
AtRest(h) == Linked(h) /\ Answered(h)
OneTurn == \A t, u \in InFlight : t = u

LEMMA StartSequential ==
  ASSUME TypeOK, SequentialInv, Sequential, NEW t \in Turns, Start(t), Sequential'
  PROVE  SequentialInv'
  <1>1. InFlight = {}
    BY DEF Start, Sequential
  <1>2. \A u \in Turns : pc[u] \notin {"model", "tools"}
    BY <1>1 DEF InFlight
  <1>3. Linked(history) /\ Answered(history)
    BY <1>2 DEF SequentialInv
  <1>4. pc' = [pc EXCEPT ![t] = "model"]
    BY DEF Start
  <1>5. pc'[t] = "model" /\ \A u \in Turns : u # t => pc'[u] \notin {"model", "tools"}
    BY <1>2, <1>4 DEF TypeOK
  <1>6. User(t) \in Message /\ User(t).role = "user"
    BY MessagesAreTyped, Roles
  <1>7. Linked(Add(history, User(t))) /\ Answered(Add(history, User(t)))
    BY <1>3, <1>6, AddQuiet DEF TypeOK
  <1>8. Add(history, User(t)) \in Seq(Message)
    BY AddUser DEF TypeOK
  <1>9. Ending(FirstRequest(t), Add(history, User(t))) /\ FromUser(FirstRequest(t))
    BY FirstRequestOf
  <1>10. Linked(FirstRequest(t)) /\ Answered(FirstRequest(t))
    BY <1>7, <1>8, <1>9, EndingIsLinked, EndingIsAnswered
  <1>11. history' = Add(history, User(t)) /\ sent'[t] = FirstRequest(t)
    BY DEF Start, TypeOK
  <1>12. \A u \in InFlight' : u = t
    BY <1>5 DEF InFlight
  <1>13. \A u, v \in InFlight' : u = v
    BY <1>12
  <1>14. Linked(history') /\ Answered(history')
    BY <1>7, <1>11
  <1>15. \A u \in InFlight' : Linked(sent'[u]) /\ FromUser(sent'[u])
    BY <1>9, <1>10, <1>11, <1>12
  <1>16. \A u \in Turns : pc'[u] = "model" => Answered(sent'[u])
    BY <1>5, <1>10, <1>11
  <1>17. \A u \in Turns : pc'[u] # "tools"
    BY <1>5
  <1> QED
    BY <1>13, <1>14, <1>15, <1>16, <1>17 DEF SequentialInv

\* A turn that ends without a lost connection was the only one.
LEMMA EndSequential ==
  ASSUME TypeOK, SequentialInv, Sequential, NEW t \in Turns, pc[t] = "model",
         NEW h, Leave(t, "done", h), AtRest(history) => AtRest(h)
  PROVE  SequentialInv'
  <1>1. t \in InFlight
    BY DEF InFlight
  <1>2. \A u \in InFlight : u = t
    BY <1>1 DEF SequentialInv
  <1>3. \A u \in Turns : pc[u] # "tools"
    BY <1>2 DEF InFlight
  <1>4. pc' = [pc EXCEPT ![t] = "done"] /\ history' = h
    BY DEF Leave
  <1>5. \A u \in Turns : pc'[u] \notin {"model", "tools"}
    BY <1>2, <1>4 DEF InFlight, TypeOK
  <1>6. AtRest(history)
    BY <1>3 DEF SequentialInv, AtRest
  <1>7. Linked(history') /\ Answered(history') /\ InFlight' = {}
    BY <1>4, <1>5, <1>6 DEF AtRest, InFlight
  <1> QED
    BY <1>5, <1>7 DEF SequentialInv

LEMMA CallSequential ==
  ASSUME TypeOK, SequentialInv, Sequential, NEW t \in Turns, NEW n \in 1..MaxCalls, CallTools(t, n)
  PROVE  SequentialInv'
  <1> DEFINE m == Assistant(t, round[t], n)
  <1>1. t \in InFlight /\ pc[t] = "model"
    BY DEF CallTools, InFlight
  <1>2. \A u \in InFlight : u = t
    BY <1>1 DEF SequentialInv
  <1>3. Linked(history) /\ Answered(history) /\ Linked(sent[t]) /\ Answered(sent[t]) /\ FromUser(sent[t])
    BY <1>1, <1>2 DEF SequentialInv, InFlight
  <1>4. m \in Message /\ history \in Seq(Message) /\ Len(history) <= MaxHistory /\ sent[t] \in Seq(Message)
    BY MessagesAreTyped, WindowInHistory DEF TypeOK
  <1>5. Linked(Add(history, m)) /\ HalfAnswered(Add(history, m), t, round[t], n, 1)
    BY <1>3, <1>4, AddCalls
  <1>6. Linked(Append(sent[t], m)) /\ HalfAnswered(Append(sent[t], m), t, round[t], n, 1)
    BY <1>3, <1>4, AppendCalls
  <1>7. FromUser(Append(sent[t], m))
    BY <1>3, <1>4, AppendFromUser
  <1>8. /\ history' = Add(history, m) /\ sent'[t] = Append(sent[t], m)
        /\ calls'[t] = n /\ next'[t] = 1 /\ round'[t] = round[t]
    BY DEF CallTools, TypeOK
  <1> HIDE DEF m
  <1>9. pc'[t] = "tools" /\ \A u \in Turns : u # t => pc'[u] \notin {"model", "tools"}
    BY <1>2 DEF CallTools, TypeOK, InFlight
  <1>10. \A u \in InFlight' : u = t
    BY <1>9 DEF InFlight
  <1>11. \A u, v \in InFlight' : u = v
    BY <1>10
  <1>12. Linked(history')
    BY <1>5, <1>8
  <1>13. \A u \in InFlight' : Linked(sent'[u]) /\ FromUser(sent'[u])
    BY <1>6, <1>7, <1>8, <1>10
  <1>14. \A u \in Turns : pc'[u] # "model"
    BY <1>9
  <1>15. \A u \in Turns : pc'[u] = "tools" =>
           /\ HalfAnswered(history', u, round'[u], calls'[u], next'[u])
           /\ HalfAnswered(sent'[u], u, round'[u], calls'[u], next'[u])
    BY <1>5, <1>6, <1>8, <1>9
  <1> QED
    BY <1>9, <1>11, <1>12, <1>13, <1>14, <1>15 DEF SequentialInv

LEMMA ToolSequential ==
  ASSUME TypeOK, CallsOK, SequentialInv, Sequential, NEW t \in Turns, ToolReturns(t)
  PROVE  SequentialInv'
  <1> DEFINE m == Tool(t, round[t], next[t])
  <1>1. t \in InFlight /\ pc[t] = "tools"
    BY DEF ToolReturns, InFlight
  <1>2. \A u \in InFlight : u = t
    BY <1>1 DEF SequentialInv
  <1>3. /\ Linked(history) /\ Linked(sent[t]) /\ FromUser(sent[t])
        /\ HalfAnswered(history, t, round[t], calls[t], next[t])
        /\ HalfAnswered(sent[t], t, round[t], calls[t], next[t])
    BY <1>1 DEF SequentialInv
  <1>4. m \in Message /\ history \in Seq(Message) /\ Len(history) <= MaxHistory /\ sent[t] \in Seq(Message)
        /\ calls[t] \in 0..MaxCalls /\ next[t] \in 1..calls[t]
    BY <1>1, MessagesAreTyped DEF TypeOK, CallsOK
  <1>5. /\ Linked(Add(history, m)) /\ HalfAnswered(Add(history, m), t, round[t], calls[t], next[t] + 1)
        /\ next[t] = calls[t] => Answered(Add(history, m))
    BY <1>3, <1>4, AddResult
  <1>6. /\ Linked(Append(sent[t], m)) /\ HalfAnswered(Append(sent[t], m), t, round[t], calls[t], next[t] + 1)
        /\ next[t] = calls[t] => Answered(Append(sent[t], m))
    BY <1>3, <1>4, AppendResult
  <1>7. FromUser(Append(sent[t], m))
    BY <1>3, <1>4, AppendFromUser
  <1>8. history' = Add(history, m) /\ sent'[t] = Append(sent[t], m) /\ calls' = calls
    BY DEF ToolReturns, TypeOK
  <1>9. \/ next[t] < calls[t] /\ next'[t] = next[t] + 1 /\ pc' = pc /\ round' = round
        \/ next[t] = calls[t] /\ pc' = [pc EXCEPT ![t] = "model"]
    BY DEF ToolReturns, TypeOK
  <1> HIDE DEF m
  <1>10. /\ pc'[t] \in {"model", "tools"} /\ \A u \in Turns : u # t => pc'[u] \notin {"model", "tools"}
         /\ pc'[t] = "model" => next[t] = calls[t]
         /\ pc'[t] = "tools" => next'[t] = next[t] + 1 /\ round'[t] = round[t]
    BY <1>1, <1>2, <1>9 DEF TypeOK, InFlight
  <1>11. \A u \in InFlight' : u = t
    BY <1>10 DEF InFlight
  <1>12. \A u, v \in InFlight' : u = v
    BY <1>11
  <1>13. Linked(history')
    BY <1>5, <1>8
  <1>14. (\A u \in Turns : pc'[u] # "tools") => Answered(history')
    BY <1>5, <1>8, <1>10
  <1>15. \A u \in InFlight' : Linked(sent'[u]) /\ FromUser(sent'[u])
    BY <1>6, <1>7, <1>8, <1>11
  <1>16. \A u \in Turns : pc'[u] = "model" => Answered(sent'[u])
    BY <1>6, <1>8, <1>10
  <1>17. \A u \in Turns : pc'[u] = "tools" =>
           /\ HalfAnswered(history', u, round'[u], calls'[u], next'[u])
           /\ HalfAnswered(sent'[u], u, round'[u], calls'[u], next'[u])
    BY <1>5, <1>6, <1>8, <1>10
  <1> QED
    BY <1>12, <1>13, <1>14, <1>15, <1>16, <1>17 DEF SequentialInv

LEMMA SequentialStep ==
  TypeOK /\ CallsOK /\ SequentialInv /\ [Next]_vars => SequentialInv'
  <1> SUFFICES ASSUME TypeOK, CallsOK, SequentialInv, [Next]_vars, Sequential' PROVE SequentialInv'
    BY DEF SequentialInv
  <1>1. Sequential
    BY SequentialBefore
  <1>2. CASE Expire
    <2>1. InFlight = {} /\ pc' = pc /\ history' = <<>>
      BY <1>2 DEF Expire
    <2>2. Linked(<<>>) /\ Answered(<<>>)
      BY EmptySeq DEF Linked, Answered
    <2>3. InFlight' = {} /\ \A u \in Turns : pc'[u] \notin {"model", "tools"}
      BY <2>1 DEF InFlight
    <2> QED
      BY <2>1, <2>2, <2>3 DEF SequentialInv
  <1>3. CASE UNCHANGED vars
    BY <1>1, <1>3 DEF vars, SequentialInv, InFlight
  <1>4. ASSUME NEW t \in Turns, Turn(t)
        PROVE  SequentialInv'
    <2>1. CASE Start(t)
      BY <1>1, <2>1, StartSequential
    <2>2. CASE Answer(t) \/ DropCalls(t) \/ ModelFails(t)
      <3> DEFINE m == Assistant(t, round[t], 0)
      <3>1. pc[t] = "model" /\ (Leave(t, "done", Add(history, m)) \/ Leave(t, "done", history))
        BY <2>2 DEF Answer, DropCalls, ModelFails, End
      <3>2. m \in Message /\ m.role = "assistant" /\ m.n = 0
        BY MessagesAreTyped, Roles, WindowInHistory DEF TypeOK
      <3> HIDE DEF m
      <3>3. AtRest(history) => AtRest(Add(history, m))
        BY <3>2, AddQuiet DEF AtRest, TypeOK
      <3> QED
        BY <1>1, <3>1, <3>3, EndSequential
    <2>3. CASE ConnectionLost(t)
      <3>1. pc'[t] = "lost"
        BY <2>3 DEF ConnectionLost, Leave, TypeOK
      <3> QED
        BY <3>1 DEF Sequential
    <2>4. CASE \E n \in 1..MaxCalls : CallTools(t, n)
      BY <1>1, <2>4, CallSequential
    <2>5. CASE ToolReturns(t)
      BY <1>1, <2>5, ToolSequential
    <2> QED
      BY <1>4, <2>1, <2>2, <2>3, <2>4, <2>5 DEF Turn
  <1> QED
    BY <1>2, <1>3, <1>4 DEF Next

-----------------------------------------------------------------------------
(* The invariant, and what follows from it.                                  *)

LEMMA HostInit ==
  Init => HostInv
  <1> SUFFICES ASSUME Init PROVE HostInv
    OBVIOUS
  <1>1. \A t \in Turns : pc[t] = "new"
    BY DEF Init
  <1>2. InFlight = {}
    BY <1>1 DEF InFlight
  <1>3. Linked(history) /\ Answered(history)
    BY EmptySeq DEF Init, Linked, Answered
  <1> QED
    BY <1>1, <1>2, <1>3, TypeInit DEF HostInv, CallsOK, AllSee, SequentialInv

LEMMA HostStep ==
  HostInv /\ [Next]_vars => HostInv'
  <1> SUFFICES ASSUME TypeOK, CallsOK, AllSee, SequentialInv, [Next]_vars PROVE HostInv'
    BY DEF HostInv
  <1>1. TypeOK' /\ CallsOK'
    BY TypeStep
  <1>2. AllSee'
    BY SeesStep
  <1>3. SequentialInv'
    BY SequentialStep
  <1> QED
    BY <1>1, <1>2, <1>3 DEF HostInv

LEMMA HostInvariance == Spec => []HostInv
  <1> QED
    BY HostInit, HostStep, PTL DEF Spec

\* The history never outgrows MAX_HISTORY, and every list of messages and every turn's
\* place in its rounds is what chat.py and session.py make it, for any bounds.
THEOREM HostTypeCorrect == Spec => []TypeOK
  <1>1. HostInv => TypeOK
    BY DEF HostInv
  <1> QED
    BY <1>1, HostInvariance, PTL

\* Turns that do not overlap and lose no connection send the model requests in which
\* every call is followed by its results and every result preceded by its call,
\* wherever the history and the window are cut: what the loop of chat() and
\* trim_at_user_turn() are for.
THEOREM RequestsWellFormed == Spec => []RequestsAreWellFormed
  <1>1. HostInv => RequestsAreWellFormed
    <2> SUFFICES ASSUME HostInv, ~overlapped, \A t \in Turns : pc[t] # "lost",
                        NEW t \in Turns, pc[t] = "model"
                 PROVE  WellFormed(sent[t])
      BY DEF RequestsAreWellFormed, Requests
    <2>1. t \in InFlight /\ Sequential
      BY DEF InFlight, Sequential
    <2>2. Linked(sent[t]) /\ FromUser(sent[t]) /\ Answered(sent[t])
      BY <2>1 DEF HostInv, SequentialInv
    <2>3. sent[t] \in Seq(Message)
      BY DEF HostInv, TypeOK
    <2> QED
      BY <2>2, <2>3, LinkedIsWellFormed
  <1> QED
    BY <1>1, HostInvariance, PTL

\* However much is cut and whatever other turns add meanwhile, a request holds the
\* message its turn is about: chat() takes its window behind add().
THEOREM TurnsSeeTheirMessage == Spec => []TurnSeesItsMessage
  <1>1. HostInv => TurnSeesItsMessage
    <2> SUFFICES ASSUME HostInv, NEW t \in Turns, pc[t] = "model"
                 PROVE  \E i \in DOMAIN sent[t] : sent[t][i] = User(t)
      BY DEF TurnSeesItsMessage
    <2>1. t \in InFlight /\ sent[t] \in Seq(Message)
      BY DEF InFlight, HostInv, TypeOK
    <2>2. DOMAIN sent[t] = 1..Len(sent[t])
      BY <2>1, LenProperties
    <2> QED
      BY <2>1, <2>2 DEF HostInv, AllSee, Sees
  <1> QED
    BY <1>1, HostInvariance, PTL

-----------------------------------------------------------------------------
(* The limiter in front of the loop.                                         *)

Check == [key : Keys, now : Nat]

LimiterTypeOK ==
  /\ clock \in Nat /\ lastNow \in Nat /\ inOrder \in BOOLEAN
  /\ check \in [Threads -> Check \union {None}]
  /\ admitted \in [Keys -> Seq(Nat)]
  /\ hits \in [Keys -> SUBSET Nat]
  /\ \A k \in Keys : hits[k] \subseteq 1..Len(admitted[k])

\* Checks that lock in order let requests through in the order of their times, and
\* what is not recorded any more is out of the window of every check to come.
ForgottenIsOld ==
  inOrder => \A k \in Keys :
    /\ \A i, j \in 1..Len(admitted[k]) : i <= j => admitted[k][i] <= admitted[k][j]
    /\ \A i \in 1..Len(admitted[k]) :
         /\ admitted[k][i] <= lastNow
         /\ i \notin hits[k] => admitted[k][i] + WindowSeconds <= lastNow

LimitedAt(s, t) == Cardinality(InWindow(s, t)) <= Limit

AlwaysLimited == inOrder => \A k \in Keys : \A t \in Nat : LimitedAt(admitted[k], t)

LimiterInv ==
  LimiterTypeOK /\ ForgottenIsOld /\ AlwaysLimited /\ RefusedIsOverLimit

LEMMA LaterOfTwo ==
  ASSUME NEW a \in Nat, NEW b \in Nat
  PROVE  Max({a, b}) \in Nat /\ (a <= b => Max({a, b}) = b)
  <1>1. \E x \in {a, b} : \A y \in {a, b} : x >= y
    BY SMT
  <1>2. Max({a, b}) \in {a, b} /\ \A y \in {a, b} : Max({a, b}) >= y
    BY <1>1 DEF Max
  <1> QED
    BY <1>2

LEMMA GreatestOf ==
  ASSUME NEW n \in Nat, NEW S, S \subseteq 1..n, S # {}
  PROVE  Max(S) \in S /\ \A i \in S : i <= Max(S)
  <1> DEFINE T == {n - i : i \in S}
  <1>1. T \subseteq 0..n /\ T \subseteq Nat /\ T # {} /\ IsFiniteSet(0..n)
    <2>1. IsFiniteSet(0..n)
      BY FS_Interval
    <2>2. T \subseteq 0..n /\ 0..n \subseteq Nat
      OBVIOUS
    <2>3. T # {}
      OBVIOUS
    <2> HIDE DEF T
    <2> QED
      BY <2>1, <2>2, <2>3
  <1>2. IsFiniteSet(T)
    BY <1>1, FS_Subset
  <1>3. \E x \in T : \A y \in T : x <= y
    <2> HIDE DEF T
    <2> QED
      BY <1>1, <1>2, LeastOf
  <1>4. PICK i \in S : \A j \in S : n - i <= n - j
    BY <1>3
  <1>5. \A j \in S : i >= j
    BY <1>4
  <1>6. Max(S) \in S /\ \A j \in S : Max(S) >= j
    BY <1>5 DEF Max
  <1> QED
    BY <1>6

\* What a check at time now counts: hits it has, and in order all that are in its window.
LEMMA CountedHits ==
  ASSUME LimiterTypeOK, NEW k \in Keys, NEW now \in Nat
  PROVE  LET a == admitted[k]
             counted == Counted(k, Pruned(now)[k], now)
         IN /\ counted \subseteq 1..Len(a) /\ IsFiniteSet(counted) /\ Cardinality(counted) \in Nat
            /\ counted \subseteq {i \in DOMAIN a : now < a[i] + WindowSeconds}
            /\ IsFiniteSet({i \in DOMAIN a : now < a[i] + WindowSeconds})
            /\ ForgottenIsOld /\ inOrder /\ lastNow <= now =>
                 \A i \in 1..Len(a) : i \in counted \/ a[i] + WindowSeconds <= now
  <1> DEFINE a == admitted[k]
             n == Len(a)
             P == Pruned(now)[k]
             counted == Counted(k, P, now)
             inTime == {i \in DOMAIN a : now < a[i] + WindowSeconds}
  <1>1. /\ a \in Seq(Nat) /\ n \in Nat /\ DOMAIN a = 1..n /\ \A i \in 1..n : a[i] \in Nat
        /\ hits[k] \subseteq 1..n /\ WindowSeconds \in Nat
    BY LenProperties, ElementOfSeq, LimitIsPositive DEF LimiterTypeOK
  <1>2. P = IF Idle(k, now) THEN {} ELSE hits[k]
    BY DEF Pruned
  <1> HIDE DEF P, a
  <1>3. counted \subseteq inTime /\ inTime \subseteq 1..n
    BY <1>1, <1>2 DEF Counted, a
  <1>4. IsFiniteSet(1..n)
    BY <1>1, FS_Interval
  <1>5. IsFiniteSet(inTime) /\ IsFiniteSet(counted)
    BY <1>3, <1>4, FS_Subset
  <1>6. Cardinality(counted) \in Nat
    BY <1>5, FS_CardinalityType
  <1>7. ASSUME ForgottenIsOld, inOrder, lastNow <= now, NEW i \in 1..n, i \notin counted
        PROVE  a[i] + WindowSeconds <= now
    <2>0. lastNow \in Nat /\ a[i] \in Nat
      BY <1>1 DEF LimiterTypeOK
    <2>1. CASE i \in P
      BY <1>1, <1>7, <2>0, <2>1 DEF Counted, a
    <2>2. CASE i \notin hits[k]
      <3>1. a[i] + WindowSeconds <= lastNow
        BY <1>7, <2>2 DEF ForgottenIsOld, a
      <3> QED
        BY <1>1, <1>7, <2>0, <3>1
    <2>3. CASE i \in hits[k] /\ i \notin P
      <3> DEFINE last == Max(hits[k])
      <3>1. Idle(k, now) /\ hits[k] # {}
        BY <1>2, <2>3
      <3>2. a[last] + WindowSeconds <= now
        BY <3>1 DEF Idle, a
      <3>3. last \in hits[k] /\ i <= last
        BY <1>1, <2>3, <3>1, GreatestOf
      <3> HIDE DEF last
      <3>4. last \in 1..n /\ a[last] \in Nat
        BY <1>1, <3>3
      <3>5. a[i] <= a[last]
        BY <1>7, <3>3, <3>4 DEF ForgottenIsOld, a
      <3> QED
        BY <1>1, <2>0, <3>2, <3>4, <3>5
    <2> QED
      BY <2>1, <2>2, <2>3
  <1>8. counted \subseteq 1..n
    BY <1>3
  <1> HIDE DEF counted, inTime
  <1>9. /\ counted \subseteq 1..n /\ IsFiniteSet(counted) /\ Cardinality(counted) \in Nat
        /\ counted \subseteq inTime /\ IsFiniteSet(inTime)
        /\ ForgottenIsOld /\ inOrder /\ lastNow <= now =>
             \A i \in 1..n : i \in counted \/ a[i] + WindowSeconds <= now
    BY <1>3, <1>5, <1>6, <1>7, <1>8
  <1> QED
    BY <1>9 DEF counted, inTime, a, P

LEMMA AdmitLimited ==
  ASSUME NEW a \in Seq(Nat), NEW now \in Nat, NEW counted, counted \subseteq 1..Len(a), IsFiniteSet(counted),
         Room(counted), \A i \in 1..Len(a) : i \in counted \/ a[i] + WindowSeconds <= now,
         \A t \in Nat : LimitedAt(a, t)
  PROVE  \A t \in Nat : LimitedAt(Append(a, now), t)
  <1> SUFFICES ASSUME NEW t \in Nat PROVE LimitedAt(Append(a, now), t)
    OBVIOUS
  <1> DEFINE l == Append(a, now)
             n == Len(a)
  <1>1. /\ n \in Nat /\ DOMAIN a = 1..n /\ DOMAIN l = 1..n + 1 /\ l[n + 1] = now
        /\ \A i \in 1..n : l[i] = a[i] /\ a[i] \in Nat
        /\ WindowSeconds \in Nat /\ Limit \in Nat
    BY AppendProperties, LenProperties, ElementOfSeq, LimitIsPositive
  <1> HIDE DEF l
  <1>2. \A i \in 1..n + 1 : i \in 1..n \/ i = n + 1
    BY <1>1
  <1>3. CASE t < now
    <2>1. \A i : i \in 1..n + 1 /\ l[i] <= t /\ t < l[i] + WindowSeconds
                <=> i \in 1..n /\ a[i] <= t /\ t < a[i] + WindowSeconds
      <3> TAKE i
      <3>1. i \in 1..n => i \in 1..n + 1
        BY <1>1
      <3>2. i = n + 1 => ~ (l[i] <= t)
        BY <1>1, <1>3
      <3>3. i \in 1..n + 1 => i \in 1..n \/ i = n + 1
        BY <1>2
      <3>4. i \in 1..n => l[i] = a[i]
        BY <1>1
      <3> QED
        BY <3>1, <3>2, <3>3, <3>4
    <2>2. InWindow(l, t) = InWindow(a, t)
      BY <1>1, <2>1 DEF InWindow
    <2> QED
      BY <2>2 DEF LimitedAt, l
  <1>4. CASE ~ (t < now)
    <2> DEFINE S == counted \union {n + 1}
    <2>1. \A i \in 1..n + 1 : t < l[i] + WindowSeconds => i \in S
      <3> TAKE i \in 1..n + 1
      <3> HAVE t < l[i] + WindowSeconds
      <3>1. CASE i \in 1..n
        BY <1>1, <1>4, <3>1
      <3>2. CASE i = n + 1
        BY <3>2
      <3> QED
        BY <1>2, <3>1, <3>2
    <2>2. InWindow(l, t) \subseteq S
      BY <1>1, <2>1 DEF InWindow
    <2>3. Cardinality(counted) \in Nat /\ Cardinality(counted) < Limit
      BY FS_CardinalityType DEF Room
    <2>4. IsFiniteSet(S) /\ Cardinality(S) <= Cardinality(counted) + 1 /\ Cardinality(S) \in Nat
      <3>1. IsFiniteSet(S) /\ Cardinality(S) = IF n + 1 \in counted THEN Cardinality(counted) ELSE Cardinality(counted) + 1
        BY FS_AddElement
      <3> HIDE DEF S
      <3> QED
        BY <2>3, <3>1, FS_CardinalityType
    <2> HIDE DEF S
    <2>5. Cardinality(InWindow(l, t)) <= Cardinality(S) /\ Cardinality(InWindow(l, t)) \in Nat
      BY <2>2, <2>4, FS_Subset, FS_CardinalityType
    <2>6. Cardinality(InWindow(l, t)) <= Limit
      BY <1>1, <2>3, <2>4, <2>5
    <2> QED
      BY <2>6 DEF LimitedAt, l
  <1> QED
    BY <1>3, <1>4

LEMMA LimiterStart ==
  LimiterInit => LimiterInv
  <1> SUFFICES ASSUME LimiterInit PROVE LimiterInv
    OBVIOUS
  <1>1. <<>> \in Seq(Nat) /\ Len(<<>>) = 0 /\ DOMAIN <<>> = {}
    BY EmptySeq
  <1>2. LimiterTypeOK
    BY <1>1 DEF LimiterInit, LimiterTypeOK
  <1>3. ForgottenIsOld
    BY <1>1 DEF LimiterInit, ForgottenIsOld
  <1>4. \A t \in Nat : LimitedAt(<<>>, t)
    <2> TAKE t \in Nat
    <2>1. InWindow(<<>>, t) = {}
      BY <1>1 DEF InWindow
    <2> QED
      BY <2>1, FS_EmptySet, LimitIsPositive DEF LimitedAt
  <1>5. AlwaysLimited
    BY <1>4 DEF LimiterInit, AlwaysLimited
  <1>6. RefusedIsOverLimit
    BY DEF LimiterInit, RefusedIsOverLimit
  <1> QED
    BY <1>2, <1>3, <1>5, <1>6 DEF LimiterInv

LEMMA LimiterIdles ==
  ASSUME LimiterInv,
         Tick \/ (\E p \in Threads, k \in Keys : Begin(p, k)) \/ UNCHANGED limiterVars
  PROVE  LimiterInv'
  <1>1. UNCHANGED <<hits, admitted, refused, lastNow, inOrder>>
    BY DEF Tick, Begin, limiterVars
  <1>2. LimiterTypeOK'
    <2>1. CASE Tick
      BY <1>1, <2>1 DEF Tick, LimiterInv, LimiterTypeOK
    <2>2. ASSUME NEW p \in Threads, NEW k \in Keys, Begin(p, k) PROVE LimiterTypeOK'
      <3>1. [key |-> k, now |-> clock] \in Check
        BY DEF Check, LimiterInv, LimiterTypeOK
      <3> QED
        BY <1>1, <2>2, <3>1 DEF Begin, LimiterInv, LimiterTypeOK
    <2>3. CASE UNCHANGED limiterVars
      BY <1>1, <2>3 DEF limiterVars, LimiterInv, LimiterTypeOK
    <2> QED
      BY <2>1, <2>2, <2>3
  <1>3. ForgottenIsOld' /\ AlwaysLimited' /\ RefusedIsOverLimit'
    BY <1>1 DEF LimiterInv, ForgottenIsOld, AlwaysLimited, RefusedIsOverLimit
  <1> QED
    BY <1>2, <1>3 DEF LimiterInv

\* A check writes its pruning and, if it lets the request through, a hit.
LEMMA EnterKeeps ==
  ASSUME LimiterInv, NEW p \in Threads, Enter(p)
  PROVE  LimiterInv'
  <1> DEFINE k == check[p].key
             now == check[p].now
             counted == Counted(k, Pruned(now)[k], now)
             a == admitted[k]
             inTime == {i \in DOMAIN a : now < a[i] + WindowSeconds}
  <1>1. k \in Keys /\ now \in Nat
    BY DEF Enter, LimiterInv, LimiterTypeOK, Check
  <1>2. /\ \/ /\ Room(counted)
              /\ hits' = [Pruned(now) EXCEPT ![k] = counted \union {Len(a) + 1}]
              /\ admitted' = [admitted EXCEPT ![k] = Append(a, now)]
              /\ UNCHANGED refused
           \/ /\ ~Room(counted)
              /\ hits' = Pruned(now)
              /\ refused' = [key |-> k, now |-> now, of |-> a]
              /\ UNCHANGED admitted
        /\ check' = [check EXCEPT ![p] = None]
        /\ lastNow' = Max({lastNow, now})
        /\ inOrder' = (inOrder /\ lastNow <= now)
        /\ UNCHANGED clock
    BY DEF Enter
  <1> HIDE DEF k, now
  <1>3. /\ counted \subseteq 1..Len(a) /\ IsFiniteSet(counted) /\ Cardinality(counted) \in Nat
        /\ counted \subseteq inTime /\ IsFiniteSet(inTime)
        /\ inOrder /\ lastNow <= now =>
             \A i \in 1..Len(a) : i \in counted \/ a[i] + WindowSeconds <= now
    BY <1>1, CountedHits DEF LimiterInv
  <1>4. \A q \in Keys : Pruned(now)[q] \subseteq hits[q]
    BY DEF Pruned
  <1>5. inOrder /\ lastNow <= now =>
          \A q \in Keys : \A i \in 1..Len(admitted[q]) :
            i \notin Pruned(now)[q] => admitted[q][i] + WindowSeconds <= now
    <2> SUFFICES ASSUME inOrder, lastNow <= now, NEW q \in Keys, NEW i \in 1..Len(admitted[q]),
                        i \notin Pruned(now)[q]
                 PROVE  admitted[q][i] + WindowSeconds <= now
      OBVIOUS
    <2>1. i \notin Counted(q, Pruned(now)[q], now)
      BY DEF Counted
    <2> QED
      BY <1>1, <2>1, CountedHits DEF LimiterInv
  <1>6. lastNow \in Nat /\ lastNow' \in Nat /\ (lastNow <= now => lastNow' = now)
    BY <1>1, <1>2, LaterOfTwo DEF LimiterInv, LimiterTypeOK
  <1> DEFINE l == Append(a, now)
  <1>7. /\ a \in Seq(Nat) /\ Len(a) \in Nat /\ DOMAIN a = 1..Len(a) /\ \A i \in 1..Len(a) : a[i] \in Nat
        /\ l \in Seq(Nat) /\ Len(l) = Len(a) + 1 /\ l[Len(a) + 1] = now /\ \A i \in 1..Len(a) : l[i] = a[i]
        /\ WindowSeconds \in Nat
    BY <1>1, AppendProperties, LenProperties, ElementOfSeq, LimitIsPositive DEF LimiterInv, LimiterTypeOK
  <1> HIDE DEF counted, a, inTime, l
  <1>8. check' \in [Threads -> Check \union {None}] /\ clock' \in Nat /\ inOrder' \in BOOLEAN
    <2>1. inOrder' \in BOOLEAN
      BY <1>2, Zenon
    <2> QED
      BY <1>2, <2>1 DEF LimiterInv, LimiterTypeOK
  <1>9. CASE Room(counted)
    <2>1. /\ hits' = [Pruned(now) EXCEPT ![k] = counted \union {Len(a) + 1}]
          /\ admitted' = [admitted EXCEPT ![k] = l] /\ UNCHANGED refused
      BY <1>2, <1>9 DEF l
    <2>2. /\ admitted'[k] = l /\ hits'[k] = counted \union {Len(a) + 1}
          /\ \A q \in Keys : q # k => admitted'[q] = admitted[q] /\ hits'[q] = Pruned(now)[q]
      <3>1. admitted'[k] = l /\ \A q \in Keys : q # k => admitted'[q] = admitted[q]
        BY <1>1, <2>1 DEF LimiterInv, LimiterTypeOK
      <3>2. hits'[k] = counted \union {Len(a) + 1} /\ \A q \in Keys : q # k => hits'[q] = Pruned(now)[q]
        BY <1>1, <2>1 DEF Pruned
      <3> QED
        BY <3>1, <3>2
    <2>3. LimiterTypeOK'
      <3>1. admitted' \in [Keys -> Seq(Nat)]
        BY <1>7, <2>1 DEF LimiterInv, LimiterTypeOK
      <3>2. \A q \in Keys : hits'[q] \subseteq 1..Len(admitted'[q])
        <4>1. counted \union {Len(a) + 1} \subseteq 1..Len(l)
          <5>1. 1..Len(a) \subseteq 1..Len(l) /\ Len(a) + 1 \in 1..Len(l)
            BY <1>7
          <5>2. counted \subseteq 1..Len(a)
            BY <1>3
          <5> QED
            BY <5>1, <5>2
        <4> QED
          BY <1>4, <2>2, <4>1 DEF LimiterInv, LimiterTypeOK
      <3>3. \A q \in Keys : hits'[q] \in SUBSET Nat
        <4>1. \A q \in Keys : Len(admitted'[q]) \in Nat
          BY <3>1, LenProperties
        <4> QED
          BY <3>2, <4>1
      <3>4. hits' \in [Keys -> SUBSET Nat]
        BY <2>1, <3>3 DEF Pruned
      <3> QED
        BY <1>6, <1>8, <3>1, <3>2, <3>4 DEF LimiterTypeOK
    <2>4. ASSUME inOrder, lastNow <= now, NEW q \in Keys
          PROVE  /\ \A i, j \in 1..Len(admitted'[q]) : i <= j => admitted'[q][i] <= admitted'[q][j]
                 /\ \A i \in 1..Len(admitted'[q]) :
                      /\ admitted'[q][i] <= now
                      /\ i \notin hits'[q] => admitted'[q][i] + WindowSeconds <= now
      <3>1. /\ \A i, j \in 1..Len(admitted[q]) : i <= j => admitted[q][i] <= admitted[q][j]
            /\ \A i \in 1..Len(admitted[q]) : admitted[q][i] <= lastNow /\ admitted[q][i] \in Nat
        BY <2>4, ElementOfSeq DEF LimiterInv, LimiterTypeOK, ForgottenIsOld
      <3>2. \A i \in 1..Len(admitted[q]) : admitted[q][i] <= now
        BY <1>1, <1>6, <2>4, <3>1
      <3>3. CASE q # k
        BY <1>5, <2>2, <2>4, <3>1, <3>2, <3>3
      <3>4. CASE q = k
        <4>1. \A i, j \in 1..Len(a) : i <= j => a[i] <= a[j]
          BY <3>1, <3>4 DEF a
        <4>2. \A i \in 1..Len(a) : a[i] <= now
          BY <3>2, <3>4 DEF a
        <4>3. \A i \in 1..Len(l) : i \in 1..Len(a) \/ i = Len(a) + 1
          BY <1>7
        <4>4. \A i, j \in 1..Len(l) : i <= j => l[i] <= l[j]
          <5> SUFFICES ASSUME NEW i \in 1..Len(l), NEW j \in 1..Len(l), i <= j PROVE l[i] <= l[j]
            OBVIOUS
          <5>1. CASE j \in 1..Len(a)
            <6>1. i \in 1..Len(a)
              BY <1>7, <5>1
            <6> QED
              BY <1>7, <4>1, <5>1, <6>1
          <5>2. CASE j = Len(a) + 1
            BY <1>1, <1>7, <4>2, <4>3, <5>2
          <5> QED
            BY <4>3, <5>1, <5>2
        <4>5. \A i \in 1..Len(l) : l[i] <= now
          BY <1>1, <1>7, <4>2, <4>3
        <4>6. \A i \in 1..Len(l) : i \notin counted \union {Len(a) + 1} => l[i] + WindowSeconds <= now
          BY <1>3, <1>7, <2>4, <4>3
        <4> QED
          BY <2>2, <3>4, <4>4, <4>5, <4>6
      <3> QED
        BY <3>3, <3>4
    <2>5. ForgottenIsOld'
      BY <1>2, <1>6, <2>4 DEF ForgottenIsOld
    <2>6. AlwaysLimited'
      <3> SUFFICES ASSUME inOrder, lastNow <= now, NEW q \in Keys
                   PROVE  \A t \in Nat : LimitedAt(admitted'[q], t)
        BY <1>2 DEF AlwaysLimited, LimitedAt, InWindow
      <3>1. \A t \in Nat : LimitedAt(admitted[q], t)
        BY DEF LimiterInv, AlwaysLimited
      <3>2. CASE q # k
        BY <2>2, <3>1, <3>2
      <3>3. CASE q = k
        <4>1. \A t \in Nat : LimitedAt(a, t)
          BY <3>1, <3>3 DEF a
        <4>2. \A i \in 1..Len(a) : i \in counted \/ a[i] + WindowSeconds <= now
          BY <1>3
        <4>3. \A t \in Nat : LimitedAt(l, t)
          BY <1>1, <1>3, <1>7, <1>9, <4>1, <4>2, AdmitLimited DEF l
        <4> QED
          BY <2>2, <3>3, <4>3
      <3> QED
        BY <3>2, <3>3
    <2>7. RefusedIsOverLimit'
      BY <2>1 DEF LimiterInv, RefusedIsOverLimit
    <2> QED
      BY <2>3, <2>5, <2>6, <2>7 DEF LimiterInv
  <1>10. CASE ~Room(counted)
    <2>1. hits' = Pruned(now) /\ refused' = [key |-> k, now |-> now, of |-> a] /\ admitted' = admitted
      BY <1>2, <1>10
    <2>2. LimiterTypeOK'
      <3>1. \A q \in Keys : Pruned(now)[q] \subseteq 1..Len(admitted[q]) /\ Pruned(now)[q] \in SUBSET Nat
        BY <1>4 DEF LimiterInv, LimiterTypeOK
      <3>2. hits' \in [Keys -> SUBSET Nat]
        BY <2>1, <3>1 DEF Pruned
      <3> QED
        BY <1>6, <1>8, <2>1, <3>1, <3>2 DEF LimiterInv, LimiterTypeOK
    <2>3. ForgottenIsOld'
      <3> SUFFICES ASSUME inOrder, lastNow <= now, NEW q \in Keys
                   PROVE  /\ \A i, j \in 1..Len(admitted[q]) : i <= j => admitted[q][i] <= admitted[q][j]
                          /\ \A i \in 1..Len(admitted[q]) :
                               /\ admitted[q][i] <= now
                               /\ i \notin Pruned(now)[q] => admitted[q][i] + WindowSeconds <= now
        BY <1>2, <1>6, <2>1 DEF ForgottenIsOld
      <3>1. /\ \A i, j \in 1..Len(admitted[q]) : i <= j => admitted[q][i] <= admitted[q][j]
            /\ \A i \in 1..Len(admitted[q]) : admitted[q][i] <= lastNow /\ admitted[q][i] \in Nat
        BY ElementOfSeq DEF LimiterInv, LimiterTypeOK, ForgottenIsOld
      <3>2. \A i \in 1..Len(admitted[q]) : admitted[q][i] <= now
        BY <1>1, <1>6, <3>1
      <3> QED
        BY <1>5, <3>1, <3>2
    <2>4. AlwaysLimited'
      BY <1>2, <2>1 DEF LimiterInv, AlwaysLimited, LimitedAt, InWindow
    <2>5. RefusedIsOverLimit'
      <3>1. refused'.of = a /\ refused'.now = now
        BY <2>1
      <3>2. Cardinality(counted) >= Limit
        BY <1>3, <1>10, LimitIsPositive DEF Room
      <3>3. Cardinality(counted) <= Cardinality(inTime) /\ Cardinality(inTime) \in Nat
        BY <1>3, FS_Subset, FS_CardinalityType
      <3>4. Cardinality(inTime) >= Limit
        BY <1>3, <3>2, <3>3, LimitIsPositive
      <3> QED
        BY <3>1, <3>4 DEF RefusedIsOverLimit, inTime
    <2> QED
      BY <2>2, <2>3, <2>4, <2>5 DEF LimiterInv
  <1> QED
    BY <1>9, <1>10

LEMMA LimiterInvariance == LimiterSpec => []LimiterInv
  <1>1. LimiterInv /\ [LimiterNext]_limiterVars => LimiterInv'
    BY LimiterIdles, EnterKeeps DEF LimiterNext
  <1> QED
    BY <1>1, LimiterStart, PTL DEF LimiterSpec

\* As long as checks lock in the order they read the clock, allow() lets no more than
\* the limit through in any window, whatever the keys, the limit and the window, and
\* whatever the checks of other keys prune.
THEOREM LimiterLimits == LimiterSpec => []InOrderIsLimited
  <1>1. LimiterInv => InOrderIsLimited
    <2>1. Times \subseteq Nat
      BY LimitIsPositive DEF Times
    <2> QED
      BY <2>1 DEF LimiterInv, AlwaysLimited, LimitedAt, InOrderIsLimited, Limited
  <1> QED
    BY <1>1, LimiterInvariance, PTL

\* allow() turns a request away only when its own key has used up the limit, in
\* whatever order the checks lock.
THEOREM RefusalsAreDeserved == LimiterSpec => []RefusedIsOverLimit
  <1>1. LimiterInv => RefusedIsOverLimit
    BY DEF LimiterInv
  <1> QED
    BY <1>1, LimiterInvariance, PTL
=============================================================================
