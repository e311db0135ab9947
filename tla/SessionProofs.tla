---------------------------- MODULE SessionProofs ----------------------------
(***************************************************************************)
(* That what a hook says of a turn is about that turn, and that a click on *)
(* it raises what it can: proofs for transcripts of any length, any widths *)
(* of the windows into them, and any desktops.                             *)
(***************************************************************************)
EXTENDS Session, FocusProofs, SequenceTheorems

-----------------------------------------------------------------------------
\* Greatest positions.
LEMMA GreatestNumber ==
  ASSUME NEW n \in Nat, NEW S \in SUBSET (0..n), S # {}
  PROVE  Max(S) \in S /\ \A x \in S : x <= Max(S)
<1> DEFINE Above == {k \in Nat : \A x \in S : x <= k}
<1>1. Above \in SUBSET Nat /\ Above # {}
  <2>1. n \in Above
    OBVIOUS
  <2> QED  BY <2>1
<1>2. Min(Above) \in Above /\ \A k \in Above : Min(Above) <= k
  <2> HIDE DEF Above
  <2> QED  BY <1>1, LeastNumber
<1>3. Min(Above) \in S
  <2> DEFINE m == Min(Above)
  <2> SUFFICES ASSUME m \notin S PROVE FALSE
    OBVIOUS
  <2>1. m \in Nat /\ \A x \in S : x <= m /\ x # m
    BY <1>2
  <2> HIDE DEF m
  <2>2. PICK x \in S : TRUE
    OBVIOUS
  <2>3. m - 1 \in Nat
    BY <2>1, <2>2
  <2>4. m - 1 \in Above
    BY <2>1, <2>3
  <2> QED  BY <1>2, <2>1, <2>4 DEF m
<1>4. \E x \in S : \A y \in S : x >= y
  BY <1>2, <1>3
<1>5. Max(S) \in S /\ \A y \in S : Max(S) >= y
  BY <1>4 DEF Max
<1> QED  BY <1>5

LEMMA LatestIs ==
  ASSUME NEW n \in Nat, NEW S \in SUBSET (1..n)
  PROVE  /\ Latest(S) \in 0..n
         /\ S # {} => Latest(S) \in S
         /\ S = {} => Latest(S) = 0
         /\ \A x \in S : x <= Latest(S)
<1>1. CASE S = {}
  BY <1>1 DEF Latest
<1>2. CASE S # {}
  <2>1. S \in SUBSET (0..n)
    OBVIOUS
  <2>2. Max(S) \in S /\ \A x \in S : x <= Max(S)
    BY <1>2, <2>1, GreatestNumber
  <2>3. Latest(S) = Max(S)
    BY <1>2 DEF Latest
  <2>4. Latest(S) \in S /\ \A x \in S : x <= Latest(S)
    BY <2>2, <2>3
  <2>5. Latest(S) \in 1..n
    BY <2>4
  <2> QED  BY <1>2, <2>4, <2>5
<1> QED  BY <1>1, <1>2

\* The sets of positions the scans yield.
LEMMA Positions ==
  ASSUME NEW t \in Seq(Message)
  PROVE  /\ Len(t) \in Nat /\ DOMAIN t = 1..Len(t)
         /\ Assistant(t) \in SUBSET (1..Len(t)) /\ Errors(t) \in SUBSET (1..Len(t))
         /\ Prompts(t) \in SUBSET (1..Len(t)) /\ Current(t) \in SUBSET Assistant(t)
         /\ \A name : Uses(t, name) \in SUBSET Assistant(t)
         /\ \A S, n : LastN(S, n) \in SUBSET S
         /\ \A S : Texts(t, S) \in SUBSET S /\ ToolUses(t, S) \in SUBSET S
BY DEF Assistant, Errors, Prompts, Current, Uses, LastN, Texts, ToolUses

LEMMA LastUser ==
  ASSUME NEW t \in Seq(Message)
  PROVE  /\ GetLastUser(t) \in 0..Len(t) /\ GetLastUser(t) = Max(Prompts(t) \cup {0})
         /\ Prompts(t) # {} => GetLastUser(t) \in Prompts(t)
         /\ Prompts(t) = {} => GetLastUser(t) = 0
         /\ \A i \in Prompts(t) : i <= GetLastUser(t)
<1>1. GetLastUser(t) = Latest(Prompts(t))
  BY DEF GetLastUser, Prompts
<1>2. /\ Latest(Prompts(t)) \in 0..Len(t)
      /\ Prompts(t) # {} => Latest(Prompts(t)) \in Prompts(t)
      /\ Prompts(t) = {} => Latest(Prompts(t)) = 0
      /\ \A i \in Prompts(t) : i <= Latest(Prompts(t))
  BY Positions, LatestIs
<1>3. /\ Max(Prompts(t) \cup {0}) \in Prompts(t) \cup {0}
      /\ \A i \in Prompts(t) \cup {0} : i <= Max(Prompts(t) \cup {0})
  <2>1. Prompts(t) \cup {0} \in SUBSET (0..Len(t)) /\ Prompts(t) \cup {0} # {} /\ Len(t) \in Nat
    BY Positions
  <2> QED  BY <2>1, GreatestNumber
<1>4. Prompts(t) \in SUBSET (1..Len(t)) /\ Len(t) \in Nat
  BY Positions
<1>5. Latest(Prompts(t)) = Max(Prompts(t) \cup {0})
  <2> DEFINE l == Latest(Prompts(t)) m == Max(Prompts(t) \cup {0})
  <2>1. l \in Nat /\ m \in Nat
    BY <1>2, <1>3, <1>4
  <2>2. l <= m
    BY <1>2, <1>3, <1>4
  <2>3. m <= l
    BY <1>2, <1>3, <1>4
  <2> HIDE DEF l, m
  <2>4. l = m
    BY <2>1, <2>2, <2>3
  <2> QED  BY <2>4 DEF l, m
<1> QED  BY <1>1, <1>2, <1>5

-----------------------------------------------------------------------------
\* The status of a transcript, by what it is found from.
LEMMA StatusIs ==
  ASSUME NEW t \in Seq(Message)
  PROVE  \/ Analyze(t) \in {"session_limit_reached", "unknown"}
         \/ Analyze(t) = ErrorStatus(t) /\ RecentError(t)
         \/ /\ LastN(Current(t), Window) # {} /\ Current(t) # {}
            /\ Analyze(t) \in {"plan_ready", "question", "review_complete", "task_complete"}
            /\ Analyze(t) = "plan_ready" => \E i \in Uses(t, "ExitPlanMode") : i > GetLastUser(t)
            /\ Analyze(t) = "question" => \E i \in Uses(t, "AskUserQuestion") : i > GetLastUser(t)
<1> DEFINE recent == LastN(Current(t), Window)
<1> DEFINE tools == ToolUses(t, recent)
<1>1. recent \in SUBSET Current(t) /\ tools \in SUBSET recent /\ tools \in SUBSET (1..Len(t))
  BY Positions
<1>2. tools # {} => Latest(tools) \in tools
  BY <1>1, LatestIs, Positions
<1>3. tools # {} =>
        /\ ToolStatus(t, recent) \in {"plan_ready", "question", "review_complete", "task_complete"}
        /\ ToolStatus(t, recent) = "plan_ready" => t[Latest(tools)].tool = "ExitPlanMode"
        /\ ToolStatus(t, recent) = "question" => t[Latest(tools)].tool = "AskUserQuestion"
  BY DEF ToolStatus
<1>4. \A i \in tools : i \in Assistant(t) /\ i > GetLastUser(t)
  BY <1>1 DEF Current
<1>5. CASE SessionLimit(t)
  BY <1>5 DEF Analyze
<1>6. CASE ~SessionLimit(t) /\ RecentError(t)
  BY <1>6 DEF Analyze
<1>7. CASE ~SessionLimit(t) /\ ~RecentError(t) /\ recent = {}
  BY <1>7 DEF Analyze
<1>8. CASE ~SessionLimit(t) /\ ~RecentError(t) /\ recent # {} /\ tools # {}
  <2>1. Analyze(t) = ToolStatus(t, recent)
    BY <1>8 DEF Analyze
  <2>2. Latest(tools) \in Assistant(t) /\ Latest(tools) > GetLastUser(t)
    BY <1>2, <1>4, <1>8
  <2> HIDE DEF recent, tools
  <2>3. Analyze(t) = "plan_ready" => \E i \in Uses(t, "ExitPlanMode") : i > GetLastUser(t)
    BY <1>3, <1>8, <2>1, <2>2 DEF Uses
  <2>4. Analyze(t) = "question" => \E i \in Uses(t, "AskUserQuestion") : i > GetLastUser(t)
    BY <1>3, <1>8, <2>1, <2>2 DEF Uses
  <2> QED  BY <1>1, <1>3, <1>8, <2>1, <2>3, <2>4 DEF recent
<1>9. CASE ~SessionLimit(t) /\ ~RecentError(t) /\ recent # {} /\ tools = {}
  BY <1>1, <1>9 DEF Analyze
<1> QED  BY <1>5, <1>6, <1>7, <1>8, <1>9

LEMMA ErrorStatusIs ==
  ASSUME NEW t
  PROVE  ErrorStatus(t) \in {"api_error", "api_error_overloaded"}
BY DEF ErrorStatus

\* The messages taken for the body are within the transcript.
LEMMA BodyWithin ==
  ASSUME NEW t \in Seq(Message), NEW status, NEW aged, NEW b \in Body(t, status, aged)
  PROVE  b \in 0..Len(t)
<1> USE Positions
<1>1. /\ RecentAssistant(t) \in SUBSET (1..Len(t))
      /\ Texts(t, RecentAssistant(t)) \in SUBSET (1..Len(t))
  BY DEF RecentAssistant
<1>2. /\ Latest(Errors(t)) \in 0..Len(t) /\ Latest(Texts(t, RecentAssistant(t))) \in 0..Len(t)
      /\ \A name : Latest(Uses(t, name)) \in 0..Len(t)
  BY <1>1, LatestIs
<1>3. RecentQuestion(t, aged) \in 0..Len(t)
  BY <1>2 DEF RecentQuestion
<1>4. \A x \in QuestionBody(t, aged) : x \in 0..Len(t)
  BY <1>1, <1>2, <1>3 DEF QuestionBody
<1> QED
  BY <1>1, <1>2, <1>4 DEF Body, ErrorBody, PlanBody, ReviewBody, TaskBody

\* The text of a notification is of the turn that has ended, whichever scan finds it.
LEMMA BodyOfThisTurn ==
  ASSUME NEW t \in Seq(Message), Analyze(t) # "unknown", NEW aged,
         NEW b \in Body(t, Analyze(t), aged), b # 0
  PROVE  b >= GetLastUser(t)
<1> DEFINE u == GetLastUser(t)
<1> DEFINE texts == Texts(t, RecentAssistant(t))
<1>1. u \in Nat /\ Len(t) \in Nat
  <2>1. Len(t) \in Nat
    BY Positions
  <2>2. GetLastUser(t) \in 0..Len(t)
    BY LastUser
  <2> QED  BY <2>1, <2>2
<1>2. ASSUME Current(t) # {}
      PROVE  /\ texts \in SUBSET (1..Len(t)) /\ \A i \in texts : i > u
             /\ Latest(texts) # 0 => Latest(texts) > u
  <2>1. texts \in SUBSET Current(t) /\ texts \in SUBSET (1..Len(t))
    BY <1>2, Positions DEF RecentAssistant
  <2>2. \A i \in texts : i > u
    BY <2>1 DEF Current
  <2>3. Latest(texts) = 0 \/ Latest(texts) \in texts
    BY <1>1, <2>1, LatestIs
  <2> QED  BY <2>1, <2>2, <2>3
<1>3. ASSUME NEW S \in SUBSET (1..Len(t)), \E i \in S : i >= u
      PROVE  Latest(S) >= u
  <2>1. \A i \in S : i <= Latest(S)
    BY <1>1, <1>3, LatestIs
  <2>2. Latest(S) \in Nat
    BY <1>1, <1>3, LatestIs
  <2>3. PICK i \in S : i >= u
    BY <1>3
  <2> QED  BY <1>1, <2>1, <2>2, <2>3
<1>4. CASE Analyze(t) = "session_limit_reached"
  BY <1>4 DEF Body
<1>5. CASE Analyze(t) = ErrorStatus(t) /\ RecentError(t)
  <2>1. Latest(Errors(t)) >= u
    BY <1>3, <1>5, Positions DEF RecentError
  <2> QED  BY <1>5, <2>1, ErrorStatusIs DEF Body, ErrorBody
<1>6. CASE Current(t) # {} /\ Analyze(t) = "plan_ready"
               /\ \E i \in Uses(t, "ExitPlanMode") : i > u
  <2>1. Uses(t, "ExitPlanMode") \in SUBSET (1..Len(t))
    BY Positions
  <2>2. Latest(Uses(t, "ExitPlanMode")) >= u
    BY <1>1, <1>3, <1>6, <2>1
  <2> QED  BY <1>6, <2>2 DEF Body, PlanBody
<1>7. CASE Current(t) # {} /\ Analyze(t) = "question"
               /\ \E i \in Uses(t, "AskUserQuestion") : i > u
  <2>1. Uses(t, "AskUserQuestion") \in SUBSET (1..Len(t))
    BY Positions
  <2>2. Latest(Uses(t, "AskUserQuestion")) >= u
    BY <1>1, <1>3, <1>7, <2>1
  <2>3. RecentQuestion(t, aged) # 0 => RecentQuestion(t, aged) >= u
    BY <2>2 DEF RecentQuestion
  <2>4. b \in QuestionBody(t, aged)
    BY <1>7 DEF Body
  <2>5. b = RecentQuestion(t, aged) \/ b \in texts \/ b = Latest(texts)
    BY <2>4 DEF QuestionBody
  <2>6. CASE b \in texts
    BY <1>1, <1>2, <1>7, <2>6
  <2>7. CASE b = Latest(texts)
    <3>1. texts \in SUBSET (1..Len(t)) /\ (Latest(texts) # 0 => Latest(texts) > u)
      BY <1>2, <1>7
    <3>2. Latest(texts) \in Nat
      BY <1>1, <3>1, LatestIs
    <3> QED  BY <1>1, <2>7, <3>1, <3>2
  <2> QED  BY <2>3, <2>5, <2>6, <2>7
<1>8. CASE Current(t) # {} /\ Analyze(t) = "review_complete"
  BY <1>1, <1>2, <1>8 DEF Body, ReviewBody
<1>9. CASE Current(t) # {} /\ Analyze(t) = "task_complete"
  <2>1. texts \in SUBSET (1..Len(t)) /\ (Latest(texts) # 0 => Latest(texts) > u)
    BY <1>2, <1>9
  <2>2. Latest(texts) \in Nat
    BY <1>1, <2>1, LatestIs
  <2>3. b = Latest(texts)
    BY <1>9 DEF Body, TaskBody
  <2> QED  BY <1>1, <2>1, <2>2, <2>3
<1> QED  BY <1>4, <1>5, <1>6, <1>7, <1>8, <1>9, StatusIs

-----------------------------------------------------------------------------
\* The sum of the words of some messages.  The fold of the community modules takes
\* the messages in an order of its own; the sum does not depend on it.
Any(s) == CHOOSE x \in s : TRUE
SumOf(f, t, s) == IF s = {} THEN 0 ELSE t[Any(s)].words + f[s \ {Any(s)}]
Words(t, S) == MapThenSumSet(LAMBDA i : t[i].words, S)
IsSum(f, t, S) == f = [s \in SUBSET S |-> SumOf(f, t, s)]

LEMMA SumExists ==
  ASSUME NEW t, NEW S, IsFiniteSet(S)
  PROVE  \E f : IsSum(f, t, S)
<1> DEFINE Upto(n) == {s \in SUBSET S : Cardinality(s) <= n}
<1> DEFINE Partial(f, n) == DOMAIN f = Upto(n) /\ \A s \in Upto(n) : f[s] = SumOf(f, t, s)
<1> DEFINE C == {n \in Nat : \E f : Partial(f, n)}
<1>1. \A s \in SUBSET S : /\ IsFiniteSet(s) /\ Cardinality(s) \in Nat
                          /\ Cardinality(s) <= Cardinality(S)
                          /\ s # {} => /\ Any(s) \in s /\ Cardinality(s) # 0
                                       /\ Cardinality(s \ {Any(s)}) = Cardinality(s) - 1
  <2> SUFFICES ASSUME NEW s \in SUBSET S
               PROVE  /\ IsFiniteSet(s) /\ Cardinality(s) \in Nat
                      /\ Cardinality(s) <= Cardinality(S)
                      /\ s # {} => /\ Any(s) \in s /\ Cardinality(s) # 0
                                   /\ Cardinality(s \ {Any(s)}) = Cardinality(s) - 1
    OBVIOUS
  <2>1. IsFiniteSet(s) /\ Cardinality(s) <= Cardinality(S)
    BY FS_Subset
  <2>2. Cardinality(s) \in Nat /\ (s # {} => Cardinality(s) # 0)
    BY <2>1, FS_CardinalityType, FS_EmptySet
  <2>3. s # {} => Any(s) \in s
    BY DEF Any
  <2>4. s # {} => Cardinality(s \ {Any(s)}) = Cardinality(s) - 1
    BY <2>1, <2>3, FS_RemoveElement
  <2> QED  BY <2>1, <2>2, <2>3, <2>4
<1>2. 0 \in C
  <2> DEFINE f == [s \in Upto(0) |-> 0]
  <2>1. ASSUME NEW s \in Upto(0) PROVE s = {}
    <3>1. s \in SUBSET S /\ Cardinality(s) <= 0
      OBVIOUS
    <3>2. Cardinality(s) \in Nat /\ (s # {} => Cardinality(s) # 0)
      BY <1>1, <3>1
    <3> QED  BY <3>1, <3>2
  <2>2. Partial(f, 0)
    BY <2>1 DEF SumOf
  <2> QED  BY <2>2
<1>3. ASSUME NEW n \in C \cap Nat PROVE n + 1 \in C
  <2>1. PICK f : Partial(f, n)
    OBVIOUS
  <2> DEFINE g == [s \in Upto(n + 1) |-> SumOf(f, t, s)]
  <2>2. ASSUME NEW s \in Upto(n) PROVE s \in Upto(n + 1) /\ g[s] = f[s]
    <3>0. s \in SUBSET S /\ Cardinality(s) <= n
      OBVIOUS
    <3>1. s \in Upto(n + 1)
      <4>1. Cardinality(s) \in Nat
        BY <1>1, <3>0
      <4> QED  BY <3>0, <4>1
    <3>2. f[s] = SumOf(f, t, s)
      BY <2>1
    <3> HIDE DEF Upto
    <3> QED  BY <3>1, <3>2
  <2>3. \A s \in Upto(n + 1) : s # {} => s \ {Any(s)} \in Upto(n)
    BY <1>1
  <2>4. ASSUME NEW s \in Upto(n + 1) PROVE SumOf(g, t, s) = SumOf(f, t, s)
    <3> HIDE DEF g, Upto
    <3> QED  BY <2>2, <2>3 DEF SumOf
  <2>5. Partial(g, n + 1)
    <3> HIDE DEF Upto
    <3> QED  BY <2>4
  <2> HIDE DEF g, Partial
  <2> QED  BY <2>5
<1>4. Nat \subseteq C
  <2> HIDE DEF C
  <2> QED  BY <1>2, <1>3, SetInduction
<1>5. Cardinality(S) \in Nat /\ Upto(Cardinality(S)) = SUBSET S
  BY <1>1, FS_CardinalityType
<1>6. PICK f : Partial(f, Cardinality(S))
  BY <1>4, <1>5
<1>7. DOMAIN f = SUBSET S /\ \A s \in SUBSET S : f[s] = SumOf(f, t, s)
  BY <1>5, <1>6
<1> SUFFICES \E g : IsSum(g, t, S)
  OBVIOUS
<1> DEFINE g == [s \in SUBSET S |-> SumOf(f, t, s)]
<1>8. \A s \in SUBSET S : g[s] = f[s]
  BY <1>7
<1>9. \A s \in SUBSET S : SumOf(g, t, s) = SumOf(f, t, s)
  <2> HIDE DEF g
  <2> QED  BY <1>8 DEF SumOf
<1>10. g = [s \in SUBSET S |-> SumOf(g, t, s)]
  <2>1. [s \in SUBSET S |-> SumOf(f, t, s)] = [s \in SUBSET S |-> SumOf(g, t, s)]
    <3> HIDE DEF g
    <3> QED  BY <1>9
  <2> QED  BY <2>1
<1> QED  BY <1>10 DEF IsSum

LEMMA SumIs ==
  ASSUME NEW t, NEW S, IsFiniteSet(S)
  PROVE  \E f : IsSum(f, t, S) /\ Words(t, S) = f[S]
<1> DEFINE sum == CHOOSE f : IsSum(f, t, S)
<1>1. IsSum(sum, t, S)
  BY SumExists
<1>2. Words(t, S) = sum[S]
  BY DEF Words, MapThenSumSet, MapThenFoldSet, IsSum, SumOf, Any
<1> QED  BY <1>1, <1>2

\* Any member may be taken out of a sum.
Worded(t, S) == \A x \in S : t[x].words \in Nat
Splits(f, t, S) ==
    \A s \in SUBSET S : f[s] \in Nat /\ \A x \in s : f[s] = t[x].words + f[s \ {x}]

LEMMA SumSplit ==
  ASSUME NEW t, NEW S, IsFiniteSet(S), Worded(t, S), NEW f, IsSum(f, t, S)
  PROVE  Splits(f, t, S)
<1> USE DEF Worded
<1> DEFINE Good(s) == f[s] \in Nat /\ \A x \in s : f[s] = t[x].words + f[s \ {x}]
<1> DEFINE C == {n \in Nat : \A s \in SUBSET S : Cardinality(s) <= n => Good(s)}
<1>1. \A s \in SUBSET S : f[s] = SumOf(f, t, s)
  BY DEF IsSum
<1>2. \A s \in SUBSET S : /\ IsFiniteSet(s) /\ Cardinality(s) \in Nat
                          /\ Cardinality(s) = 0 => s = {}
                          /\ \A x \in s : Cardinality(s \ {x}) = Cardinality(s) - 1
  <2> SUFFICES ASSUME NEW s \in SUBSET S
               PROVE  /\ IsFiniteSet(s) /\ Cardinality(s) \in Nat /\ (Cardinality(s) = 0 => s = {})
                      /\ \A x \in s : Cardinality(s \ {x}) = Cardinality(s) - 1
    OBVIOUS
  <2>1. IsFiniteSet(s)
    BY FS_Subset
  <2>2. Cardinality(s) \in Nat /\ (Cardinality(s) = 0 => s = {})
    BY <2>1, FS_CardinalityType, FS_EmptySet
  <2>3. \A x \in s : Cardinality(s \ {x}) = Cardinality(s) - 1
    BY <2>1, FS_RemoveElement
  <2> QED  BY <2>1, <2>2, <2>3
<1>3. 0 \in C
  <2> SUFFICES ASSUME NEW s \in SUBSET S, Cardinality(s) <= 0 PROVE Good(s)
    OBVIOUS
  <2>1. s = {}
    BY <1>2
  <2>2. f[s] = 0
    BY <1>1, <2>1 DEF SumOf
  <2> QED  BY <2>1, <2>2
<1>4. ASSUME NEW n \in C \cap Nat PROVE n + 1 \in C
  <2>1. \A q \in SUBSET S : Cardinality(q) <= n => Good(q)
    OBVIOUS
  <2> SUFFICES ASSUME NEW s \in SUBSET S, Cardinality(s) = n + 1 PROVE Good(s)
    <3> HIDE DEF Good
    <3>1. \A q \in SUBSET S :
            Cardinality(q) <= n + 1 <=> Cardinality(q) <= n \/ Cardinality(q) = n + 1
      BY <1>2
    <3> QED  BY <2>1, <3>1
  <2> HIDE DEF C
  <2>2. \A x \in s : s \ {x} \in SUBSET S /\ Cardinality(s \ {x}) = n
    BY <1>2
  <2>3. \A x \in s : Good(s \ {x})
    <3> HIDE DEF Good
    <3> QED  BY <2>1, <2>2
  <2> DEFINE y == Any(s)
  <2>4. s # {}
    BY FS_EmptySet
  <2>5. y \in s /\ f[s] = t[y].words + f[s \ {y}]
    BY <1>1, <2>4 DEF SumOf, Any
  <2> HIDE DEF y
  <2>6. f[s] \in Nat
    BY <2>3, <2>5
  <2>7. ASSUME NEW x \in s, x # y PROVE f[s] = t[x].words + f[s \ {x}]
    <3> DEFINE r == (s \ {x}) \ {y}
    <3>0. x \in s \ {y} /\ y \in s \ {x}
      BY <2>5, <2>7
    <3>1. r = (s \ {y}) \ {x}
      OBVIOUS
    <3>2. f[s \ {y}] = t[x].words + f[r]
      BY <2>3, <2>5, <3>0, <3>1
    <3>3. f[s \ {x}] = t[y].words + f[r]
      BY <2>3, <3>0
    <3>4. f[r] \in Nat
      <4>1. s \ {x} \in SUBSET S /\ r \in SUBSET S /\ Cardinality(s \ {x}) = n
        BY <2>2
      <4>2. Cardinality(r) = n - 1
        BY <1>2, <3>0, <4>1
      <4>3. Good(r)
        <5> HIDE DEF Good, r
        <5> QED  BY <2>1, <4>1, <4>2
      <4> QED  BY <4>3
    <3> HIDE DEF r
    <3>5. t[x].words \in Nat /\ t[y].words \in Nat
      BY <2>5
    <3> QED  BY <2>5, <3>2, <3>3, <3>4, <3>5
  <2> QED  BY <2>5, <2>6, <2>7
<1>5. Nat \subseteq C
  <2> HIDE DEF C
  <2> QED  BY <1>3, <1>4, SetInduction
<1> QED  BY <1>2, <1>5 DEF Splits

\* Positions further along, and those beyond a number of messages.
Moved(S, k) == {i + k : i \in S}
Alike(r, t, k, S) == \A i \in S : r[i] = t[i + k]

\* The same sum over messages further along.
LEMMA SumShift ==
  ASSUME NEW t, NEW r, NEW k \in Nat, NEW S \in SUBSET Nat, IsFiniteSet(S),
         Worded(r, S), Alike(r, t, k, S)
  PROVE  Words(r, S) = Words(t, Moved(S, k))
<1> USE DEF Alike
<1> DEFINE Up(s) == {i + k : i \in s}
<1>1. IsFiniteSet(Up(S))
  <2> DEFINE h == [i \in S |-> i + k]
  <2>1. h \in Surjection(S, Up(S))
    BY DEF Surjection
  <2> HIDE DEF h, Up
  <2> QED  BY <2>1, FS_Surjection
<1>2. PICK f : IsSum(f, r, S) /\ Words(r, S) = f[S]
  BY SumIs
<1>3. PICK g : IsSum(g, t, Up(S)) /\ Words(t, Up(S)) = g[Up(S)]
  BY <1>1, SumIs
<1>4. Splits(f, r, S)
  BY <1>2, SumSplit
<1>5. Splits(g, t, Up(S))
  <2>1. Worded(t, Up(S))
    BY DEF Worded
  <2> QED  BY <1>1, <1>3, <2>1, SumSplit
<1> DEFINE C == {n \in Nat : \A s \in SUBSET S : Cardinality(s) = n => f[s] = g[Up(s)]}
<1>6. 0 \in C
  <2> SUFFICES ASSUME NEW s \in SUBSET S, Cardinality(s) = 0 PROVE f[s] = g[Up(s)]
    OBVIOUS
  <2>1. s = {}
    BY FS_Subset, FS_EmptySet
  <2>2. f[{}] = 0 /\ g[{}] = 0
    BY <1>2, <1>3 DEF IsSum, SumOf
  <2>3. Up(s) = {}
    BY <2>1
  <2> HIDE DEF Up
  <2> QED  BY <2>1, <2>2, <2>3
<1>7. ASSUME NEW n \in C \cap Nat PROVE n + 1 \in C
  <2> HIDE DEF Up
  <2>0. n \in Nat /\ \A s \in SUBSET S : Cardinality(s) = n => f[s] = g[Up(s)]
    OBVIOUS
  <2> SUFFICES ASSUME NEW s \in SUBSET S, Cardinality(s) = n + 1 PROVE f[s] = g[Up(s)]
    OBVIOUS
  <2> HIDE DEF C
  <2>1. IsFiniteSet(s)
    BY FS_Subset
  <2>2. PICK x \in s : TRUE
    <3>1. Cardinality(s) # 0
      BY <2>0
    <3> QED  BY <2>1, <3>1, FS_EmptySet
  <2>3. s \ {x} \in SUBSET S /\ Cardinality(s \ {x}) = n
    <3>1. Cardinality(s \ {x}) = Cardinality(s) - 1
      BY <2>1, FS_RemoveElement
    <3> QED  BY <2>0, <3>1
  <2>4. f[s \ {x}] = g[Up(s \ {x})]
    BY <2>0, <2>3
  <2> USE DEF Up
  <2>5. x \in Nat /\ x + k \in Up(s) /\ Up(s) \in SUBSET Up(S)
    OBVIOUS
  <2>6. Up(s \ {x}) = Up(s) \ {x + k}
    OBVIOUS
  <2>7. r[x] = t[x + k]
    OBVIOUS
  <2> HIDE DEF Up
  <2>8. f[s] = r[x].words + f[s \ {x}]
    BY <1>4 DEF Splits
  <2>9. g[Up(s)] = t[x + k].words + g[Up(s) \ {x + k}]
    BY <1>5, <2>5 DEF Splits
  <2> QED  BY <2>4, <2>6, <2>7, <2>8, <2>9
<1>8. Nat \subseteq C
  <2> HIDE DEF C
  <2> QED  BY <1>6, <1>7, SetInduction
<1>9. Cardinality(S) \in Nat
  BY FS_CardinalityType
<1>10. f[S] = g[Up(S)]
  <2>1. Cardinality(S) \in C
    BY <1>8, <1>9
  <2> QED  BY <2>1
<1>11. Up(S) = Moved(S, k)
  BY DEF Moved
<1> HIDE DEF Up
<1> QED  BY <1>2, <1>3, <1>10, <1>11

-----------------------------------------------------------------------------
\* A transcript r whose messages are those of t, k positions further back.
Beyond(X, k) == {i \in X : i > k}
EndOf(r, t, k) == Len(t) = Len(r) + k /\ \A i \in 1..Len(r) : r[i] = t[i + k]

LEMMA MovedIs ==
  ASSUME NEW n \in Nat, NEW k \in Nat, NEW S \in SUBSET (1..n)
  PROVE  /\ n + k \in Nat /\ Moved(S, k) \in SUBSET (1..(n + k))
         /\ \A i \in S : i \in Nat /\ i + k \in Moved(S, k) /\ i + k > k
         /\ \A x \in Moved(S, k) : x \in Nat /\ x > k /\ x - k \in S /\ (x - k) + k = x
         /\ Moved(S, k) = {} <=> S = {}
<1>1. \A i \in S : i + k \in Moved(S, k)
  BY DEF Moved
<1>2. \A i \in S : i \in Nat /\ i >= 1 /\ i <= n
  OBVIOUS
<1>3. ASSUME NEW x \in Moved(S, k)
      PROVE  x \in Nat /\ x \in 1..(n + k) /\ x > k /\ x - k \in S /\ (x - k) + k = x
  <2>1. PICK i \in S : x = i + k
    BY DEF Moved
  <2>2. i \in Nat /\ i >= 1 /\ i <= n
    BY <1>2
  <2>3. x - k = i
    BY <2>1, <2>2
  <2>4. x \in Nat /\ x \in 1..(n + k) /\ x > k
    BY <2>1, <2>2
  <2> QED  BY <2>1, <2>3, <2>4
<1>4. Moved(S, k) = {} <=> S = {}
  BY <1>1, <1>3
<1>5. \A i \in S : i + k > k
  BY <1>2
<1> QED  BY <1>1, <1>2, <1>3, <1>4, <1>5

LEMMA LatestMoved ==
  ASSUME NEW n \in Nat, NEW k \in Nat, NEW S \in SUBSET (1..n), S # {}
  PROVE  Latest(Moved(S, k)) = Latest(S) + k /\ Latest(S) \in S
<1>1. Latest(S) \in S /\ \A x \in S : x <= Latest(S)
  BY LatestIs
<1>2. Moved(S, k) \in SUBSET (1..(n + k)) /\ Moved(S, k) # {} /\ n + k \in Nat
  BY MovedIs
<1>3. Latest(Moved(S, k)) \in Moved(S, k) /\ \A x \in Moved(S, k) : x <= Latest(Moved(S, k))
  BY <1>2, LatestIs
<1>4. PICK y \in S : Latest(Moved(S, k)) = y + k
  BY <1>3 DEF Moved
<1>5. Latest(S) + k <= y + k /\ y <= Latest(S)
  BY <1>1, <1>3, <1>4 DEF Moved
<1>6. Latest(S) \in Nat /\ y \in Nat
  <2>1. \A x \in S : x \in Nat
    BY MovedIs
  <2> QED  BY <1>1, <2>1
<1>7. Latest(S) = y
  BY <1>5, <1>6
<1> QED  BY <1>1, <1>4, <1>7

\* The last members of a set of positions, moved, are the last of those moved.
LEMMA LastMoved ==
  ASSUME NEW n \in Nat, NEW k \in Nat, NEW m \in Nat, NEW S \in SUBSET (1..n),
         NEW X \in SUBSET (1..(n + k)), Moved(S, k) = Beyond(X, k)
  PROVE  Moved(LastN(S, m), k) = Beyond(LastN(X, m), k)
<1>0. /\ \A i \in S : i \in Nat /\ i + k > k /\ i + k \in Moved(S, k)
      /\ \A x \in Moved(S, k) : x \in Nat /\ x - k \in S /\ (x - k) + k = x
  BY MovedIs
<1>1. ASSUME NEW i \in S
      PROVE  Cardinality({j \in S : j > i}) = Cardinality({j \in X : j > i + k})
  <2> DEFINE A == {j \in S : j > i}
  <2> DEFINE B == {j \in X : j > i + k}
  <2> DEFINE h == [j \in A |-> j + k]
  <2>0. A \in SUBSET (1..n)
    OBVIOUS
  <2>1. B = Moved(A, k)
    <3>1. \A j \in B : j \in Moved(S, k) /\ j \in Nat
      <4>1. \A j \in B : j \in X /\ j > k /\ j \in Nat
        BY <1>0
      <4> QED  BY <4>1 DEF Beyond
    <3>2. \A j \in B : j - k \in A /\ (j - k) + k = j
      <4>1. \A j \in B : j - k \in S /\ (j - k) + k = j /\ j > i + k
        BY <1>0, <3>1
      <4> QED  BY <1>0, <3>1, <4>1
    <3>3. \A j \in A : j + k \in B
      <4>1. \A j \in A : j + k \in X /\ j + k > i + k
        BY <1>0 DEF Beyond
      <4> QED  BY <4>1
    <3> HIDE DEF A, B
    <3> QED  BY <3>2, <3>3 DEF Moved
  <2>2. h \in Bijection(A, B)
    <3>0. \A a \in A : a \in Nat
      BY <1>0
    <3> HIDE DEF A, B
    <3>1. h \in [A -> B] /\ \A b \in B : \E a \in A : h[a] = b
      BY <2>1 DEF Moved
    <3>2. \A a, b \in A : h[a] = h[b] => a = b
      BY <3>0
    <3> QED  BY <3>1, <3>2 DEF Bijection, Injection, Surjection, IsInjective
  <2>3. IsFiniteSet(A)
    <3>1. IsFiniteSet(1..n)
      BY FS_Interval
    <3> QED  BY <3>1, FS_Subset
  <2> HIDE DEF A, B, h
  <2>4. Cardinality(A) = Cardinality(B)
    BY <2>2, <2>3, FS_Bijection DEF ExistsBijection
  <2> QED  BY <2>4 DEF A, B
<1>2. \A i \in S : i \in LastN(S, m) <=> i + k \in LastN(X, m)
  <2>1. \A i \in S : i + k \in X
    BY <1>0 DEF Beyond
  <2> QED  BY <1>1, <2>1 DEF LastN
<1>3. LastN(S, m) \in SUBSET S /\ LastN(X, m) \in SUBSET X
  BY DEF LastN
<1>4. \A i \in Moved(LastN(S, m), k) : i \in LastN(X, m) /\ i > k
  BY <1>2, <1>3 DEF Beyond, Moved
<1>5. ASSUME NEW i \in LastN(X, m), i > k PROVE i \in Moved(LastN(S, m), k)
  <2>1. i \in Moved(S, k)
    BY <1>3, <1>5 DEF Beyond
  <2> QED  BY <1>2, <2>1 DEF Moved
<1> QED  BY <1>4, <1>5 DEF Beyond

\* What the scans find in the end of a transcript they find in the whole, moved.
LEMMA ScansMoved ==
  ASSUME NEW t \in Seq(Message), NEW r \in Seq(Message), NEW k \in Nat, EndOf(r, t, k)
  PROVE  /\ Moved(Assistant(r), k) = Beyond(Assistant(t), k)
         /\ Moved(Errors(r), k) = Beyond(Errors(t), k)
         /\ Moved(Prompts(r), k) = Beyond(Prompts(t), k)
<1>1. /\ Len(r) \in Nat /\ Len(t) = Len(r) + k /\ DOMAIN t = 1..Len(t) /\ DOMAIN r = 1..Len(r)
      /\ \A i \in 1..Len(r) : r[i] = t[i + k]
  BY DEF EndOf
<1>2. \A i \in DOMAIN t : i > k => i - k \in DOMAIN r /\ r[i - k] = t[i] /\ (i - k) + k = i
  BY <1>1
<1>3. \A i \in DOMAIN r : i + k \in DOMAIN t /\ i + k > k
  BY <1>1
<1>4. Moved(Assistant(r), k) = Beyond(Assistant(t), k)
  BY <1>1, <1>2, <1>3 DEF Beyond, Moved, Assistant
<1>5. Moved(Errors(r), k) = Beyond(Errors(t), k)
  BY <1>1, <1>2, <1>3 DEF Beyond, Moved, Errors
<1>6. Moved(Prompts(r), k) = Beyond(Prompts(t), k)
  BY <1>1, <1>2, <1>3 DEF Beyond, Moved, Prompts
<1> QED  BY <1>4, <1>5, <1>6

LEMMA ToolStatusMoved ==
  ASSUME NEW t \in Seq(Message), NEW r \in Seq(Message), NEW k \in Nat, EndOf(r, t, k),
         NEW S \in SUBSET (1..Len(r)), ToolUses(r, S) # {}
  PROVE  ToolUses(t, Moved(S, k)) # {} /\ ToolStatus(t, Moved(S, k)) = ToolStatus(r, S)
<1> DEFINE R == Moved(S, k)
<1> DEFINE tools == ToolUses(r, S)
<1> DEFINE used == ToolUses(t, R)
<1>1. /\ Len(r) \in Nat /\ Len(t) = Len(r) + k
      /\ \A i \in S : r[i] = t[i + k] /\ i \in Nat /\ i \in DOMAIN r
      /\ DOMAIN r = 1..Len(r)
  BY DEF EndOf
<1>2. used = Moved(tools, k) /\ tools \in SUBSET S /\ tools \in SUBSET (1..Len(r))
  BY <1>1 DEF ToolUses, Moved
<1>3. Latest(used) = Latest(tools) + k /\ Latest(tools) \in tools
  BY <1>1, <1>2, LatestMoved
<1>4. t[Latest(used)].tool = r[Latest(tools)].tool
  BY <1>1, <1>2, <1>3
<1>5. ASSUME NEW names
      PROVE  (\E i \in used : t[i].tool \in names) <=> (\E i \in tools : r[i].tool \in names)
  BY <1>1, <1>2 DEF Moved
<1>6. RecentWords(t, R) = RecentWords(r, S)
  <2> DEFINE L == LastN(S, TextWindow)
  <2>1. Moved(L, k) = LastN(R, TextWindow)
    <3>1. R \in SUBSET (1..(Len(r) + k)) /\ R = Beyond(R, k)
      BY <1>1, MovedIs DEF Beyond
    <3>2. TextWindow \in Nat
      BY TranscriptAssumption
    <3>3. Moved(S, k) = Beyond(R, k)
      BY <3>1
    <3>4. Moved(L, k) = Beyond(LastN(R, TextWindow), k)
      <4> HIDE DEF R
      <4>1. Len(r) \in Nat /\ R \in SUBSET (1..(Len(r) + k))
        BY <1>1, <3>1
      <4> QED  BY <4>1, <3>2, <3>3, LastMoved
    <3>5. LastN(R, TextWindow) \in SUBSET R
      BY DEF LastN
    <3> QED  BY <3>1, <3>4, <3>5 DEF Beyond
  <2>2. L \in SUBSET S
    BY DEF LastN
  <2>3. IsFiniteSet(L) /\ L \in SUBSET Nat
    <3>0. Len(r) \in Int /\ 1 \in Int
      BY <1>1
    <3>1. IsFiniteSet(1..Len(r))
      BY <3>0, FS_Interval
    <3> QED  BY <1>1, <2>2, <3>1, FS_Subset
  <2>4. Worded(r, L)
    <3>1. \A i \in L : i \in 1..Len(r)
      BY <2>2
    <3>2. \A i \in 1..Len(r) : r[i] \in Message
      BY <1>1
    <3>3. \A i \in L : r[i] \in Message
      BY <3>1, <3>2
    <3> QED  BY <3>3, TranscriptAssumption DEF Worded
  <2>5. Alike(r, t, k, L)
    BY <1>1, <2>2 DEF Alike
  <2> HIDE DEF L
  <2>6. Words(r, L) = Words(t, Moved(L, k))
    BY <2>3, <2>4, <2>5, SumShift
  <2>7. Words(r, L) = Words(t, LastN(R, TextWindow))
    BY <2>1, <2>6 DEF Moved
  <2> HIDE DEF R
  <2>8. RecentWords(t, R) = Words(t, LastN(R, TextWindow)) /\ RecentWords(r, S) = Words(r, L)
    BY DEF RecentWords, Words, L
  <2> QED  BY <2>7, <2>8
<1>7. used # {}
  BY <1>2 DEF Moved
<1> HIDE DEF R
<1>8. ToolStatus(t, R) = ToolStatus(r, S)
  BY <1>4, <1>5, <1>6 DEF ToolStatus
<1> QED  BY <1>7, <1>8 DEF R

\* The status does not depend on what was said before the user's last message,
\* unless a session limit was.
LEMMA AnalyzeMoved ==
  ASSUME NEW t \in Seq(Message), NEW r \in Seq(Message), NEW k \in Nat, EndOf(r, t, k),
         GetLastUser(r) = 1, GetLastUser(t) = 1 + k, ~SessionLimit(t)
  PROVE  Analyze(t) = Analyze(r)
<1>1. Len(r) \in Nat /\ Len(t) = Len(r) + k /\ \A i \in 1..Len(r) : r[i] = t[i + k]
  BY DEF EndOf
<1>2. /\ Assistant(r) \in SUBSET (1..Len(r)) /\ Assistant(t) \in SUBSET (1..(Len(r) + k))
      /\ Errors(r) \in SUBSET (1..Len(r)) /\ Errors(t) \in SUBSET (1..(Len(r) + k))
      /\ {Window, LimitWindow} \subseteq Nat
  BY <1>1, Positions, TranscriptAssumption
<1>3. /\ Moved(Assistant(r), k) = Beyond(Assistant(t), k)
      /\ Moved(Errors(r), k) = Beyond(Errors(t), k)
  BY ScansMoved
<1>4. ~SessionLimit(r)
  <2>1. Moved(LastN(Assistant(r), LimitWindow), k) = Beyond(LastN(Assistant(t), LimitWindow), k)
    <3>1. Len(r) \in Nat /\ LimitWindow \in Nat
      BY <1>1, <1>2
    <3>2. Assistant(r) \in SUBSET (1..Len(r)) /\ Assistant(t) \in SUBSET (1..(Len(r) + k))
      BY <1>2
    <3>3. Moved(Assistant(r), k) = Beyond(Assistant(t), k)
      BY <1>3
    <3> QED  BY <3>1, <3>2, <3>3, LastMoved
  <2>2. \A i \in LastN(Assistant(r), LimitWindow) :
          i \in 1..Len(r) /\ i + k \in LastN(Assistant(t), LimitWindow)
    BY <1>2, <2>1 DEF Beyond, LastN, Moved
  <2> QED  BY <1>1, <2>2 DEF SessionLimit
<1>5. RecentError(t) <=> RecentError(r)
  <2>1. /\ \A i \in Errors(r) : i \in Nat /\ i >= 1 /\ i + k \in Errors(t)
        /\ \A i \in Errors(t) : i > k => i - k \in Errors(r)
        /\ \A i \in Errors(t) : i \in Nat
    <3>1. \A i \in Errors(r) : i + k \in Moved(Errors(r), k)
      BY DEF Moved
    <3>2. \A i \in Moved(Errors(r), k) : i - k \in Errors(r)
      BY <1>1, <1>2, MovedIs
    <3> QED  BY <1>1, <1>2, <1>3, <3>1, <3>2 DEF Beyond
  <2>2. RecentError(t) => RecentError(r)
    <3> SUFFICES ASSUME NEW i \in Errors(t), i >= 1 + k PROVE RecentError(r)
      BY DEF RecentError
    <3>1. i - k \in Errors(r) /\ i - k >= 1
      BY <2>1
    <3> QED  BY <3>1 DEF RecentError
  <2>3. RecentError(r) => RecentError(t)
    <3> SUFFICES ASSUME NEW i \in Errors(r) PROVE RecentError(t)
      BY DEF RecentError
    <3>1. i + k \in Errors(t) /\ i + k >= 1 + k
      BY <2>1
    <3> QED  BY <3>1 DEF RecentError
  <2> QED  BY <2>2, <2>3
<1>6. RecentError(r) => ErrorStatus(t) = ErrorStatus(r)
  <2> SUFFICES ASSUME RecentError(r) PROVE ErrorStatus(t) = ErrorStatus(r)
    OBVIOUS
  <2>1. Errors(r) # {}
    BY DEF RecentError
  <2>2. Latest(Moved(Errors(r), k)) = Latest(Errors(r)) + k /\ Latest(Errors(r)) \in Errors(r)
    BY <1>1, <1>2, <2>1, LatestMoved
  <2>3. Latest(Errors(t)) = Latest(Moved(Errors(r), k))
    <3> DEFINE l == Latest(Errors(t))
    <3> DEFINE m == Latest(Moved(Errors(r), k))
    <3>1. Len(r) + k \in Nat /\ Errors(t) \in SUBSET (1..(Len(r) + k))
      BY <1>1, <1>2
    <3>2. /\ l \in 0..(Len(r) + k) /\ (Errors(t) # {} => l \in Errors(t))
          /\ \A x \in Errors(t) : x <= l
      BY <3>1, LatestIs
    <3>3. m \in Errors(t) /\ m > k
      BY <1>2, <1>3, <2>2 DEF Beyond, Moved
    <3>4. l \in Moved(Errors(r), k)
      BY <1>2, <1>3, <3>2, <3>3 DEF Beyond
    <3>5. l <= m
      <4>1. Moved(Errors(r), k) \in SUBSET (1..(Len(r) + k)) /\ Len(r) + k \in Nat
        BY <1>1, <1>2, MovedIs
      <4>2. \A x \in Moved(Errors(r), k) : x <= m
        BY <4>1, LatestIs
      <4> QED  BY <3>4, <4>2
    <3>6. m <= l /\ l \in Nat /\ m \in Nat
      BY <1>2, <3>2, <3>3
    <3> HIDE DEF l, m
    <3>7. l = m
      BY <3>5, <3>6
    <3> QED  BY <3>7 DEF l, m
  <2>4. t[Latest(Errors(t))] = r[Latest(Errors(r))]
    BY <1>1, <1>2, <2>2, <2>3
  <2> QED  BY <2>4 DEF ErrorStatus
<1> DEFINE recent == LastN(Current(r), Window)
<1>7. Current(t) = Moved(Current(r), k)
  BY <1>2, <1>3 DEF Beyond, Current, Moved
<1>8. Current(r) \in SUBSET (1..Len(r)) /\ recent \in SUBSET (1..Len(r))
  BY <1>2 DEF Current, LastN
<1>9. LastN(Current(t), Window) = Moved(recent, k)
  <2>1. Current(t) \in SUBSET (1..(Len(r) + k)) /\ Current(t) = Beyond(Current(t), k)
    BY <1>7, <1>8, <1>1 DEF Beyond, Moved
  <2>2. Moved(recent, k) = Beyond(LastN(Current(t), Window), k)
    <3>1. Moved(Current(r), k) = Beyond(Current(t), k) /\ Window \in Nat
      BY <1>2, <1>7, <2>1
    <3> QED  BY <1>1, <1>8, <2>1, <3>1, LastMoved
  <2> QED  BY <2>1, <2>2 DEF Beyond, LastN
<1>10. Moved(recent, k) = {} <=> recent = {}
  BY DEF Moved
<1>11. ToolUses(t, Moved(recent, k)) # {} <=> ToolUses(r, recent) # {}
  <2>1. \A i \in recent : r[i] = t[i + k]
    BY <1>1, <1>8
  <2> HIDE DEF recent
  <2> QED  BY <2>1 DEF ToolUses, Moved
<1>12. ToolUses(r, recent) # {} => ToolStatus(t, Moved(recent, k)) = ToolStatus(r, recent)
  <2> HIDE DEF recent
  <2> QED  BY <1>8, ToolStatusMoved
<1> HIDE DEF recent
<1> QED
  BY <1>4, <1>5, <1>6, <1>9, <1>10, <1>11, <1>12 DEF Analyze, recent

LEMMA AnalyzeTurn ==
  ASSUME NEW t \in Seq(Message), Analyze(t) # "session_limit_reached"
  PROVE  Analyze(t) = Analyze(Turn(t))
<1>1. ~SessionLimit(t)
  BY DEF Analyze
<1>2. Len(t) \in Nat /\ Prompts(t) \in SUBSET (1..Len(t)) /\ DOMAIN t = 1..Len(t)
  BY Positions
<1> DEFINE u == Max(Prompts(t) \cup {1})
<1>3. u \in Prompts(t) \cup {1} /\ \A i \in Prompts(t) : i <= u
  <2>1. /\ Prompts(t) \cup {1} \in SUBSET (0..(Len(t) + 1))
        /\ Prompts(t) \cup {1} # {} /\ Len(t) + 1 \in Nat
    BY <1>2
  <2> QED  BY <2>1, GreatestNumber
<1>4. CASE Prompts(t) = {}
  <2>1. u = 1
    BY <1>3, <1>4
  <2>2. Turn(t) = t
    BY <2>1, SubSeqFull DEF Turn
  <2> QED  BY <2>2
<1>5. CASE Prompts(t) # {}
  <2>1. u \in Prompts(t) /\ u \in 1..Len(t)
    <3>1. \A i \in Prompts(t) : i \in Nat /\ i >= 1
      BY <1>2
    <3>2. PICK i \in Prompts(t) : TRUE
      BY <1>5
    <3> HIDE DEF u
    <3>3. u = 1 => i = 1
      BY <1>3, <3>1, <3>2
    <3>4. u \in Prompts(t)
      BY <1>3, <3>2, <3>3
    <3> QED  BY <1>2, <3>4
  <2> DEFINE k == u - 1
  <2> DEFINE r == Turn(t)
  <2> HIDE DEF u
  <2>2. k \in Nat /\ u = 1 + k
    BY <1>2, <2>1
  <2>3. r = SubSeq(t, u, Len(t))
    BY DEF Turn, u
  <2>4. r \in Seq(Message) /\ Len(r) = Len(t) - k /\ \A i \in 1..Len(r) : r[i] = t[i + k]
    BY <1>2, <2>1, <2>2, <2>3, SubSeqProperties
  <2> HIDE DEF k, r
  <2>5. EndOf(r, t, k)
    BY <1>2, <2>2, <2>4 DEF EndOf
  <2>6. GetLastUser(t) = u
    <3>1. GetLastUser(t) \in Prompts(t) /\ \A i \in Prompts(t) : i <= GetLastUser(t)
      BY <1>5, LastUser
    <3>2. \A i \in Prompts(t) : i \in Nat
      BY <1>2
    <3>3. u <= GetLastUser(t) /\ GetLastUser(t) <= u /\ u \in Nat /\ GetLastUser(t) \in Nat
      BY <1>3, <2>1, <3>1, <3>2
    <3> QED  BY <3>3
  <2>7. Prompts(r) = {1}
    <3>1. Moved(Prompts(r), k) = Beyond(Prompts(t), k)
      BY <2>2, <2>4, <2>5, ScansMoved
    <3>2. Beyond(Prompts(t), k) = {u}
      BY <1>2, <1>3, <2>1, <2>2 DEF Beyond
    <3>3. Prompts(r) \in SUBSET (1..Len(r))
      BY <2>4, Positions
    <3>4. \A i \in Prompts(r) : i + k = u /\ i \in Nat
      BY <3>1, <3>2, <3>3 DEF Moved
    <3>5. \E i \in Prompts(r) : i + k = u
      BY <3>1, <3>2 DEF Moved
    <3> QED  BY <2>2, <3>4, <3>5
  <2>8. GetLastUser(r) = 1
    BY <2>4, <2>7, LastUser
  <2>9. Analyze(t) = Analyze(r)
    BY <1>1, <2>2, <2>4, <2>5, <2>6, <2>8, AnalyzeMoved
  <2> QED  BY <2>9 DEF r
<1> QED  BY <1>4, <1>5

-----------------------------------------------------------------------------
\* What has been noted is what the transcript says, as far as it was read.
Noted ==
    /\ phase # "noted" => note = None
    /\ phase = "noted" =>
        /\ note \in NoteType /\ note.read <= Len(transcript)
        /\ note.from = "Stop" =>
            /\ Analyze(Reported) # "unknown" /\ note.status = Analyze(Reported)
            /\ \/ note.body = 0
               \/ \E aged \in BOOLEAN : note.body \in Body(Reported, note.status, aged)
            /\ note.actions = Actions(Reported, note.status)

SessionInv == SessionTypeOK /\ Noted /\ FocusInv

LEMMA StatusTyped ==
  ASSUME NEW t \in Seq(Message)
  PROVE  Analyze(t) \in Statuses
BY StatusIs, ErrorStatusIs DEF Statuses

LEMMA Prefix ==
  ASSUME NEW t \in Seq(Message), NEW n \in Nat, Len(t) \in Nat, n <= Len(t)
  PROVE  SubSeq(t, 1, n) \in Seq(Message) /\ Len(SubSeq(t, 1, n)) = n
BY SubSeqProperties

\* A hook that notes something of the first messages: the note has its type, and
\* says what they say.
LEMMA NoteIs ==
  ASSUME SessionTypeOK, NEW n \in 0..MaxMessages, n <= Len(transcript), NEW aged \in BOOLEAN,
         NEW from \in {"Stop", "PreToolUse", "Notification", "Codex"},
         NEW status \in Statuses \ {"unknown"},
         Note(from, SubSeq(transcript, 1, n), status, aged),
         from = "Stop" => status = Analyze(SubSeq(transcript, 1, n))
  PROVE  phase' = "noted" /\ UNCHANGED <<transcript, focusVars>> /\ Noted' /\ note' \in NoteType
<1> DEFINE t == SubSeq(transcript, 1, n)
<1>1. t \in Seq(Message) /\ Len(t) = n /\ Len(transcript) \in Nat /\ n \in Nat
  BY Prefix, Positions, SessionAssumption DEF SessionTypeOK
<1> HIDE DEF t
<1>2. PICK b \in IF t = <<>> THEN {0} ELSE Body(t, status, aged) :
        note' = [from |-> from, read |-> Len(t), status |-> status, body |-> b,
                 webhook |-> IF from = "Stop" THEN WebhookBody(t, status) ELSE 0,
                 actions |-> IF t = <<>> THEN {} ELSE Actions(t, status)]
  BY DEF Note, t
<1>3. b \in 0..n
  BY <1>1, BodyWithin
<1>4. WebhookBody(t, status) \in 0..n
  <2>1. Texts(t, Assistant(t)) \in SUBSET (1..n)
    BY <1>1, Positions
  <2>2. Latest(Texts(t, Assistant(t))) \in 0..n
    BY <1>1, <2>1, LatestIs
  <2> QED  BY <1>1, <2>2 DEF WebhookBody
<1>5. Actions(t, status) \in SUBSET (1..n)
  BY <1>1, Positions DEF Actions
<1>6. n <= MaxMessages /\ MaxMessages \in Nat
  BY SessionAssumption
<1>7. note' \in NoteType
  BY <1>1, <1>2, <1>3, <1>4, <1>5, <1>6 DEF NoteType
<1>8. phase' = "noted" /\ UNCHANGED <<transcript, focusVars>>
  BY DEF Note
<1>9. Noted'
  <2>1. Reported' = t
    BY <1>1, <1>2, <1>8 DEF Reported, t
  <2>2. t = <<>> => Actions(t, status) = {}
    BY <1>1, <1>5
  <2>3. /\ note'.status = status /\ note'.read = n /\ note'.from = from
        /\ note'.actions = Actions(t, status) /\ note'.body = b
    BY <1>1, <1>2, <2>2
  <2>4. b = 0 \/ b \in Body(t, status, aged)
    BY <1>2
  <2>5. from = "Stop" => status = Analyze(t)
    BY DEF t
  <2> QED  BY <1>7, <1>8, <2>1, <2>3, <2>4, <2>5 DEF Noted
<1> QED  BY <1>7, <1>8, <1>9

LEMMA SessionInvInit ==
  ASSUME SessionInit PROVE SessionInv
<1>1. FocusInv
  BY FocusInvInit DEF SessionInit
<1>2. SessionTypeOK
  BY <1>1, SessionAssumption DEF SessionInit, SessionTypeOK, FocusInv
<1>3. Noted
  BY DEF SessionInit, Noted
<1> QED  BY <1>1, <1>2, <1>3 DEF SessionInv

\* What a click does to the windows is a step of Focus, or none.
LEMMA FocusMoves ==
  ASSUME [SessionNext]_sessionVars
  PROVE  FocusNext \/ UNCHANGED focusVars
BY DEF SessionNext, sessionVars, Append1, Stop, Ask, Codex, Note, Deliver, Click, Focusing, Closing,
       FocusNext

LEMMA SessionInvStep ==
  ASSUME SessionInv, [SessionNext]_sessionVars
  PROVE  SessionInv'
<1>1. FocusInv' /\ FocusTypeOK'
  BY FocusMoves, FocusInvStep DEF SessionInv, FocusInv
<1> SUFFICES /\ transcript' \in Seq(Message) /\ Len(transcript') <= MaxMessages
             /\ phase' \in {"turn", "noted", "shown", "focusing", "ended"}
             /\ note' \in NoteType \cup {None} /\ Noted'
  BY <1>1 DEF SessionInv, SessionTypeOK
<1> USE DEF SessionInv
<1>2. /\ transcript \in Seq(Message) /\ Len(transcript) <= MaxMessages /\ Len(transcript) \in Nat
      /\ MaxMessages \in Nat /\ note \in NoteType \cup {None}
      /\ phase \in {"turn", "noted", "shown", "focusing", "ended"}
  BY SessionAssumption, Positions DEF SessionTypeOK
<1>3. ASSUME NEW m \in Message, Append1(m) PROVE SessionInv'
  BY <1>1, <1>2, <1>3 DEF Append1, Noted, SessionTypeOK
<1>4. ASSUME NEW n \in 0..MaxMessages, Read(n) PROVE n <= Len(transcript)
  BY <1>2, <1>4 DEF Read
<1>5. CASE Stop
  <2>1. PICK n \in 0..MaxMessages, aged \in BOOLEAN :
          LET t == SubSeq(transcript, 1, n)
          IN  Read(n) /\ Analyze(t) # "unknown" /\ Note("Stop", t, Analyze(t), aged)
    BY <1>5 DEF Stop
  <2>2. n <= Len(transcript) /\ SubSeq(transcript, 1, n) \in Seq(Message)
    BY <1>2, <1>4, <2>1, Prefix
  <2>3. Analyze(SubSeq(transcript, 1, n)) \in Statuses \ {"unknown"}
    BY <2>1, <2>2, StatusTyped
  <2>4. phase' = "noted" /\ UNCHANGED transcript /\ Noted' /\ note' \in NoteType
    BY <2>1, <2>2, <2>3, NoteIs
  <2> QED  BY <1>2, <2>4
<1>6. CASE Ask
  <2>1. PICK n \in 0..MaxMessages, aged \in BOOLEAN :
          /\ Read(n)
          /\ \E e \in {<<"PreToolUse", "plan_ready">>, <<"PreToolUse", "question">>,
                       <<"Notification", "question">>} :
               Note(e[1], SubSeq(transcript, 1, n), e[2], aged)
    BY <1>6 DEF Ask
  <2>2. n <= Len(transcript)
    BY <1>4, <2>1
  <2>3. PICK from \in {"PreToolUse", "Notification"}, status \in {"plan_ready", "question"} :
          Note(from, SubSeq(transcript, 1, n), status, aged)
    BY <2>1
  <2>4. status \in Statuses \ {"unknown"}
    BY DEF Statuses
  <2>5. phase' = "noted" /\ UNCHANGED transcript /\ Noted' /\ note' \in NoteType
    BY <2>2, <2>3, <2>4, NoteIs
  <2> QED  BY <1>2, <2>5
<1>7. CASE Codex
  <2>1. PICK status \in {"task_complete", "session_limit_reached", "api_error",
                         "api_error_overloaded", "question"} :
          Note("Codex", <<>>, status, FALSE)
    BY <1>7 DEF Codex
  <2>2. status \in Statuses \ {"unknown"}
    BY DEF Statuses
  <2>3. SubSeq(transcript, 1, 0) = <<>> /\ 0 \in 0..MaxMessages /\ 0 <= Len(transcript)
    BY <1>2, SubSeqEmpty
  <2>4. Note("Codex", SubSeq(transcript, 1, 0), status, FALSE)
    BY <2>1, <2>3
  <2>5. phase' = "noted" /\ UNCHANGED transcript /\ Noted' /\ note' \in NoteType
    BY <2>2, <2>3, <2>4, NoteIs
  <2> QED  BY <1>2, <2>5
<1>8. CASE Deliver
  BY <1>2, <1>8 DEF Deliver, Noted
<1>9. CASE Click \/ Focusing \/ Closing
  BY <1>2, <1>9 DEF Click, Focusing, Closing, Noted
<1>10. CASE UNCHANGED sessionVars
  BY <1>2, <1>10 DEF sessionVars, Noted, Reported
<1> QED
  BY <1>3, <1>5, <1>6, <1>7, <1>8, <1>9, <1>10 DEF SessionNext, SessionTypeOK

LEMMA SessionInvAlways == SessionSpec => []SessionInv
<1>1. SessionInit => SessionInv
  BY SessionInvInit
<1>2. SessionInv /\ [SessionNext]_sessionVars => SessionInv'
  BY SessionInvStep
<1> QED  BY <1>1, <1>2, PTL DEF SessionSpec

-----------------------------------------------------------------------------
\* Transcripts, notes and the windows keep their types: no scan yields a position
\* outside the transcript, and no hook notes an unknown status.
THEOREM TypeCorrect == SessionSpec => []SessionTypeOK
<1>1. SessionInv => SessionTypeOK
  BY DEF SessionInv
<1> QED  BY <1>1, SessionInvAlways, PTL

\* The status of a Stop hook's notification (AnalyzeTranscriptWithMessages) is that of
\* the turn that has ended: no plan, tool or error of an earlier turn comes back.
THEOREM StatusIsOfTheTurn == SessionSpec => []StatusOfThisTurn
<1>1. SessionInv => StatusOfThisTurn
  <2> SUFFICES ASSUME SessionInv, note # None, note.from = "Stop",
                      note.status # "session_limit_reached"
               PROVE  note.status = Analyze(Turn(Reported))
    BY DEF StatusOfThisTurn
  <2>1. Reported \in Seq(Message)
    <3>1. note.read \in Nat /\ note.read <= Len(transcript) /\ Len(transcript) \in Nat
      BY SessionAssumption, Positions DEF SessionInv, SessionTypeOK, Noted, NoteType
    <3> QED  BY <3>1, Prefix DEF SessionInv, SessionTypeOK, Reported
  <2>2. note.status = Analyze(Reported)
    BY DEF SessionInv, Noted
  <2> QED  BY <2>1, <2>2, AnalyzeTurn
<1> QED  BY <1>1, SessionInvAlways, PTL

\* The text and the actions of a Stop hook's notification are of the turn that has
\* ended (package summary), though its status was found by another scan (package
\* analyzer).
THEOREM TextIsOfTheTurn == SessionSpec => []TextOfThisTurn
<1>1. SessionInv => TextOfThisTurn
  <2> SUFFICES ASSUME SessionInv, note # None, note.from = "Stop"
               PROVE  /\ note.body # 0 => note.body >= Max(Prompts(Reported) \cup {0})
                      /\ \A i \in note.actions : i >= Max(Prompts(Reported) \cup {0})
    BY DEF TextOfThisTurn
  <2>1. Reported \in Seq(Message)
    <3>1. note.read \in Nat /\ note.read <= Len(transcript) /\ Len(transcript) \in Nat
      BY SessionAssumption, Positions DEF SessionInv, SessionTypeOK, Noted, NoteType
    <3> QED  BY <3>1, Prefix DEF SessionInv, SessionTypeOK, Reported
  <2>2. /\ Analyze(Reported) # "unknown" /\ note.status = Analyze(Reported)
        /\ note.body = 0 \/ \E aged \in BOOLEAN : note.body \in Body(Reported, note.status, aged)
        /\ note.actions = Actions(Reported, note.status)
    BY DEF SessionInv, Noted
  <2>3. Max(Prompts(Reported) \cup {0}) = GetLastUser(Reported)
    BY <2>1, LastUser
  <2>4. note.body # 0 => note.body >= GetLastUser(Reported)
    BY <2>1, <2>2, BodyOfThisTurn
  <2>5. \A i \in note.actions : i >= GetLastUser(Reported)
    BY <2>2 DEF Actions
  <2> QED  BY <2>3, <2>4, <2>5
<1> QED  BY <1>1, SessionInvAlways, PTL

\* After an error no window that was open throughout could have been raised.
THEOREM GivesUpOnNone == SessionSpec => []NotMissed
<1>1. SessionInv => NotMissed
  BY FocusInvIs DEF SessionInv
<1> QED  BY <1>1, SessionInvAlways, PTL

\* The hook's own window, when it can be told and stays open, is on top in the end.
THEOREM OwnOnTopInTheEnd == SessionSpec => []OwnRaised
<1>1. SessionInv => OwnRaised
  BY FocusInvIs DEF SessionInv
<1> QED  BY <1>1, SessionInvAlways, PTL

\* The error reported is true, provided WezTerm's windows are known by their class or
\* name.  Otherwise the pane's window may be raised by its title alone, close, and an
\* error is reported all the same.
THEOREM ErrorsAreTrue ==
  ASSUME PanesBelong
  PROVE  SessionSpec => []ReportsTruth
<1>1. SessionInit => Shown
  BY FocusInvInit DEF SessionInit
<1>2. SessionInv /\ Shown /\ [SessionNext]_sessionVars => Shown'
  BY FocusMoves, ShownStep DEF SessionInv
<1>3. SessionInv /\ Shown => ReportsTruth
  BY FocusInvIs DEF SessionInv
<1> QED  BY <1>1, <1>2, <1>3, SessionInvAlways, PTL DEF SessionSpec
=============================================================================
