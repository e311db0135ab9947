----------------------------- MODULE FocusProofs -----------------------------
(***************************************************************************)
(* That the search for a window gives up on none it could have raised, and *)
(* reports what it did: proofs for any desktops and any number of windows. *)
(***************************************************************************)
EXTENDS Focus, FiniteSetTheorems, TLAPS

\* Induction over the numbers, in the form of a set: one closed under the successor
\* misses none, for then the successor would map the members up to the one missed,
\* of which there are finitely many, into themselves without 0.
LEMMA SetInduction ==
  ASSUME NEW C, 0 \in C, \A n \in C \cap Nat : n + 1 \in C
  PROVE  Nat \subseteq C
<1> SUFFICES ASSUME NEW m \in Nat, m \notin C PROVE FALSE
  OBVIOUS
<1> DEFINE A == C \cap (0..m)
<1> DEFINE f == [n \in A |-> n + 1]
<1>1. IsFiniteSet(A)
  <2>1. IsFiniteSet(0..m)
    BY FS_Interval
  <2>2. A \in SUBSET (0..m)
    OBVIOUS
  <2> QED  BY <2>1, <2>2, FS_Subset
<1>2. 0 \in A
  OBVIOUS
<1>3. /\ IsFiniteSet(A \ {0}) /\ Cardinality(A) \in Nat
      /\ Cardinality(A \ {0}) = Cardinality(A) - 1
  BY <1>1, <1>2, FS_RemoveElement, FS_CardinalityType
<1>4. f \in [A -> A \ {0}]
  OBVIOUS
<1>5. \A x, y \in A : x # y => f[x] # f[y]
  OBVIOUS
<1> HIDE DEF f, A
<1>6. Cardinality(A) <= Cardinality(A \ {0})
  BY <1>1, <1>3, <1>4, <1>5, FS_PigeonHole
<1> QED  BY <1>3, <1>6

\* A set of numbers that is not empty has a least one.
LEMMA LeastNumber ==
  ASSUME NEW S \in SUBSET Nat, S # {}
  PROVE  Min(S) \in S /\ \A x \in S : Min(S) <= x
<1>1. \E x \in S : \A y \in S : x <= y
  <2> SUFFICES ASSUME \A x \in S : \E y \in S : y < x PROVE FALSE
    OBVIOUS
  <2> DEFINE C == {n \in Nat : \A x \in S : n < x}
  <2>1. 0 \in C
    OBVIOUS
  <2>2. \A n \in C \cap Nat : n + 1 \in C
    OBVIOUS
  <2>3. Nat \subseteq C
    <3> HIDE DEF C
    <3> QED  BY <2>1, <2>2, SetInduction
  <2>4. PICK x \in S : TRUE
    OBVIOUS
  <2>5. x \in C
    BY <2>3, <2>4
  <2> QED  BY <2>4, <2>5
<1> QED  BY <1>1 DEF Min

LEMMA LadderIs ==
  /\ Len(Ladder) = 17 /\ DOMAIN Ladder = 1..17
  /\ \A i \in 1..17 : Ladder[i].by = "id" <=> i \in {1, 2}
  /\ Ladder[1].tool = "xdotool" /\ Ladder[2].tool = "wmctrl"
  /\ Ladder[1].how = "call" /\ Ladder[2].how = "call"
  /\ Ladder[6] = [tool |-> "extension", by |-> "class", how |-> "call"]
  /\ Ladder[7] = [tool |-> "extension", by |-> "name", how |-> "call"]
<1>1. DOMAIN Ladder = 1..17 /\ Len(Ladder) = 17
  BY DEF Ladder
<1>2. \A i \in 1..17 : Ladder[i].by = "id" <=> i \in {1, 2}
  BY DEF Ladder
<1> QED  BY <1>1, <1>2 DEF Ladder

\* The attempts left out on the way to the following one are not made.
LEMMA FollowingIs ==
  ASSUME NEW s, NEW i \in 0..17
  PROVE  /\ Following(s, i) \in (i + 1)..18
         /\ Following(s, i) <= 17 => Made(s, Following(s, i))
         /\ \A j \in 1..17 : i < j /\ j < Following(s, i) => ~Made(s, j)
<1> DEFINE S == {j \in 1..17 : j > i /\ Made(s, j)} \cup {18}
<1>1. Following(s, i) = Min(S)
  BY LadderIs DEF Following
<1>2. S \in SUBSET Nat /\ S # {}
  OBVIOUS
<1>3. Min(S) \in S /\ \A x \in S : Min(S) <= x
  <2> HIDE DEF S
  <2> QED  BY <1>2, LeastNumber
<1> HIDE DEF Min
<1> QED  BY <1>1, <1>3

-----------------------------------------------------------------------------
\* Where a click may be.
FocusNext == StartFocus \/ FocusStep \/ Vanish

\* A terminal with panes is WezTerm: its windows have the class the extension is
\* asked for, or its name.
PanesBelong ==
    \A s \in Scenes : s.pane /\ {"wezterm", "extension"} \subseteq s.tools =>
        Own \in s.class \cup s.named

Climbing == rung \in DOMAIN Ladder

Place ==
    /\ rung = 0 => ~focused /\ raised = Nothing /\ outcome = "pending" /\ cands = {} /\ seen = {}
    /\ rung > 0 => scene \in Scenes
    /\ Climbing => Made(scene, rung) /\ ~focused /\ ~Over
    /\ cands # {} => Climbing /\ Ladder[rung].how \in {"search", "visible", "first"}
    /\ rung = Len(Ladder) + 1 => (Over => ~scene.pane)
    /\ rung = Len(Ladder) + 2 => scene.pane
    /\ outcome = "error" => ~focused

\* What the attempts made so far have left: nothing that is still open.
Tried == ~focused =>
    /\ seen \cap open \subseteq cands
    /\ Climbing /\ cands # {} /\ Thorough(rung) => Found(rung) \subseteq cands
    /\ \A i \in DOMAIN Ladder : i < rung /\ Thorough(i) => Found(i) = {}

\* What is raised by then: a window, when an attempt has succeeded, and the hook's
\* own one if it has been open all along and can be told by its id or its pane.
Shown ==
    /\ ~Over => (focused <=> raised # Nothing)
    /\ Over => (outcome = "ok" <=> raised # Nothing)
ById == scene.id /\ scene.tools \cap {"xdotool", "wmctrl"} # {}
OwnOnTop ==
    Own \in open =>
        /\ focused /\ ~scene.pane /\ ById => raised = Own
        /\ Over /\ scene.pane /\ "wezterm" \in scene.tools => raised = Own

FocusInv == FocusTypeOK /\ Place /\ Tried /\ OwnOnTop

-----------------------------------------------------------------------------
\* An attempt fails, having left no window of its own open; or it raises one; or it
\* has candidates left.
Failed ==
    /\ rung' = Following(scene, rung) /\ cands' = {} /\ UNCHANGED <<focused, raised, seen>>
    /\ seen \cap open = {} /\ (Thorough(rung) => Found(rung) = {})
Succeeded ==
    /\ \E w \in open \cup {New} : Raise(w) /\ (Ladder[rung].by = "id" => w = Own)
    /\ cands' = {} /\ seen' \subseteq Win
Continued ==
    /\ UNCHANGED <<rung, focused, raised>> /\ cands' \subseteq Win /\ seen' \subseteq Win
    /\ Ladder[rung].how \in {"search", "visible", "first"}
    /\ seen' \cap open \subseteq cands' /\ (Thorough(rung) => Found(rung) \subseteq cands')

LEMMA FoundIs ==
  ASSUME FocusTypeOK, NEW i \in DOMAIN Ladder
  PROVE  /\ Found(i) \subseteq open /\ open \subseteq Win
         /\ i \in {1, 2} => Found(i) = {Own} \cap open
<1>1. i \in {1, 2} => Match(scene, Ladder[i].by) = {Own}
  BY LadderIs DEF Match
<1> QED  BY <1>1, LadderIs DEF Found, Targets, FocusTypeOK

LEMMA Attempt ==
  ASSUME FocusTypeOK, Place, Tried, Call \/ Application \/ Search \/ Activate
  PROVE  /\ UNCHANGED <<scene, height, open, outcome>> /\ Climbing
         /\ Failed \/ Succeeded \/ Continued
<1>1. CASE Call
  <2>1. PICK i \in DOMAIN Ladder :
          /\ rung = i /\ cands = {}
          /\ \/ Found(i) = {} /\ Fail
             \/ \E w \in Found(i) : Raise(w)
    BY <1>1 DEF Call, Trying
  <2>2. Climbing /\ ~focused /\ UNCHANGED <<scene, height, open, outcome, cands, seen>>
    BY <1>1, <2>1 DEF Call, Climbing, Place
  <2>3. CASE Found(i) = {} /\ Fail
    BY <2>1, <2>2, <2>3 DEF Failed, Fail, Tried
  <2>4. CASE \E w \in Found(i) : Raise(w)
    BY <2>1, <2>2, <2>4, FoundIs, LadderIs DEF Succeeded, FocusTypeOK
  <2> QED  BY <2>1, <2>2, <2>3, <2>4
<1>2. CASE Application
  <2>1. PICK i \in DOMAIN Ladder :
          /\ rung = i /\ cands = {} /\ Ladder[i].how = "app"
          /\ \/ \E w \in Found(i) \cup {New} : Raise(w)
             \/ ~scene.installed /\ Fail
    BY <1>2 DEF Application, Trying
  <2>2. Climbing /\ ~focused /\ UNCHANGED <<scene, height, open, outcome, cands, seen>>
    BY <1>2, <2>1 DEF Application, Climbing, Place
  <2>3. CASE ~scene.installed /\ Fail
    BY <2>1, <2>2, <2>3 DEF Failed, Fail, Tried, Thorough
  <2>4. CASE \E w \in Found(i) \cup {New} : Raise(w)
    <3>1. Ladder[rung].by # "id"
      BY <2>1, LadderIs
    <3> QED  BY <2>1, <2>2, <2>4, <3>1, FoundIs DEF Succeeded, FocusTypeOK
  <2> QED  BY <2>1, <2>2, <2>3, <2>4
<1>3. CASE Search
  <2> DEFINE ids(i) == IF i >= XdotoolMethod THEN Found(i) \ seen ELSE Found(i)
  <2>1. PICK i \in DOMAIN Ladder :
          /\ rung = i /\ cands = {} /\ Ladder[i].how \in {"search", "visible", "first"}
          /\ \/ ids(i) = {} /\ Fail /\ UNCHANGED <<cands, seen>>
             \/ /\ ids(i) # {} /\ UNCHANGED <<rung, focused, raised>>
                /\ cands' \in IF Ladder[i].how = "first" THEN {{w} : w \in ids(i)} ELSE {ids(i)}
                /\ seen' = IF i >= XdotoolMethod THEN seen \cup ids(i) ELSE seen
    BY <1>3 DEF Search, Trying
  <2>2. Climbing /\ ~focused /\ UNCHANGED <<scene, height, open, outcome>>
    BY <1>3, <2>1 DEF Search, Climbing, Place
  <2>3. seen \cap open = {} /\ Found(i) \subseteq open /\ open \subseteq Win /\ ids(i) = Found(i)
    BY <2>1, <2>2, FoundIs DEF Tried
  <2>4. CASE ids(i) = {} /\ Fail /\ UNCHANGED <<cands, seen>>
    BY <2>1, <2>2, <2>3, <2>4 DEF Failed, Fail
  <2>5. CASE /\ UNCHANGED <<rung, focused, raised>>
             /\ cands' \in IF Ladder[i].how = "first" THEN {{w} : w \in ids(i)} ELSE {ids(i)}
             /\ seen' = IF i >= XdotoolMethod THEN seen \cup ids(i) ELSE seen
    <3>1. cands' \subseteq Win /\ seen' \subseteq Win
      BY <2>3, <2>5 DEF FocusTypeOK
    <3>2. Thorough(rung) => cands' = Found(rung)
      BY <2>1, <2>3, <2>5 DEF Thorough
    <3>3. seen' \cap open \subseteq cands'
      <4>1. CASE Ladder[i].how = "first"
        BY <4>1, <2>3, <2>5, LadderIs, <2>1 DEF Ladder, XdotoolMethod
      <4>2. CASE Ladder[i].how # "first"
        BY <4>2, <2>3, <2>5
      <4> QED  BY <4>1, <4>2
    <3> QED  BY <2>1, <2>2, <2>5, <3>1, <3>2, <3>3 DEF Continued
  <2> QED  BY <2>1, <2>2, <2>4, <2>5
<1>4. CASE Activate
  <2>1. PICK w \in cands :
          IF w \in open THEN Raise(w) /\ cands' = {}
          ELSE /\ cands' = cands \ {w}
               /\ IF cands = {w} THEN Fail ELSE UNCHANGED <<rung, focused, raised>>
    BY <1>4 DEF Activate
  <2>2. /\ Climbing /\ ~focused /\ UNCHANGED <<scene, height, open, outcome, seen>>
        /\ Ladder[rung].how \in {"search", "visible", "first"}
    BY <1>4, <2>1 DEF Activate, Place
  <2>3. seen \subseteq Win /\ cands \subseteq Win
    BY DEF FocusTypeOK
  <2>4. CASE w \in open
    <3>1. Ladder[rung].by # "id"
      BY <2>2, LadderIs DEF Climbing
    <3> QED  BY <2>1, <2>2, <2>3, <2>4, <3>1 DEF Succeeded
  <2>5. CASE w \notin open
    <3>1. seen \cap open \subseteq cands \ {w}
      BY <2>2, <2>5 DEF Tried
    <3>2. Thorough(rung) => Found(rung) \subseteq cands \ {w}
      BY <2>1, <2>2, <2>5, FoundIs DEF Tried, Climbing
    <3>3. CASE cands = {w}
      BY <2>1, <2>2, <2>5, <3>1, <3>2, <3>3 DEF Failed, Fail
    <3>4. CASE cands # {w}
      BY <2>1, <2>2, <2>3, <2>5, <3>1, <3>2, <3>4 DEF Continued
    <3> QED  BY <3>3, <3>4
  <2> QED  BY <2>2, <2>4, <2>5
<1> QED  BY <1>1, <1>2, <1>3, <1>4

\* A window that was not found, or has been tried, is not found later.
LEMMA FoundLess ==
  ASSUME FocusTypeOK, scene' = scene, open' \subseteq open
  PROVE  \A i \in DOMAIN Ladder : Found(i)' \subseteq Found(i) /\ (Thorough(i)' <=> Thorough(i))
BY DEF Found, Targets, Match, Thorough

LEMMA StartKeeps ==
  ASSUME FocusInv, StartFocus
  PROVE  FocusInv'
<1>1. /\ rung = 0 /\ rung' = Following(scene', 0) /\ scene' \in Scenes /\ height' \in [Win -> Nat]
      /\ ~focused /\ raised = Nothing /\ outcome = "pending" /\ cands = {} /\ seen = {}
      /\ UNCHANGED <<open, cands, seen, focused, raised, outcome>>
  <2>1. PICK s \in Scenes : scene' = s /\ rung' = Following(s, 0)
    BY DEF StartFocus
  <2>2. height' \in [Win -> Nat]
    BY DEF StartFocus
  <2> QED  BY <2>1, <2>2 DEF StartFocus, Before, FocusInv, Place
<1>2. /\ rung' \in 1..18 /\ (rung' <= 17 => Made(scene', rung'))
      /\ \A j \in 1..17 : j < rung' => ~Made(scene', j)
  BY <1>1, FollowingIs
<1>3. FocusTypeOK'
  BY <1>1, <1>2, LadderIs DEF FocusInv, FocusTypeOK
<1>4. Place'
  BY <1>1, <1>2, LadderIs DEF Place, Climbing, Over
<1>5. Tried'
  BY <1>1, <1>2, LadderIs DEF Tried, Climbing, Thorough
<1>6. OwnOnTop'
  BY <1>1 DEF OwnOnTop, Over
<1> QED  BY <1>3, <1>4, <1>5, <1>6 DEF FocusInv

LEMMA AttemptKeeps ==
  ASSUME FocusInv, Call \/ Application \/ Search \/ Activate
  PROVE  FocusInv'
<1>1. /\ UNCHANGED <<scene, height, open, outcome>>
      /\ Climbing /\ ~focused /\ ~Over /\ scene \in Scenes
      /\ Failed \/ Succeeded \/ Continued
  BY Attempt, LadderIs DEF FocusInv, Place, Climbing
<1>2. \A i \in DOMAIN Ladder : Found(i)' = Found(i) /\ (Thorough(i)' <=> Thorough(i))
  BY <1>1 DEF Found, Targets, Match, Thorough
<1>3. CASE Failed
  <2>1. /\ rung' \in (rung + 1)..18 /\ (rung' <= 17 => Made(scene, rung'))
        /\ \A j \in 1..17 : rung < j /\ j < rung' => ~Made(scene, j)
    BY <1>1, <1>3, FollowingIs, LadderIs DEF Failed, Climbing
  <2>2. FocusTypeOK'
    BY <1>1, <1>3, <2>1, LadderIs DEF FocusInv, FocusTypeOK, Failed, Climbing
  <2>3. Place'
    BY <1>1, <1>3, <2>1, LadderIs DEF FocusInv, Place, Failed, Climbing, Over
  <2>4. Tried'
    <3>1. ASSUME NEW i \in DOMAIN Ladder, i < rung', Thorough(i) PROVE Found(i) = {}
      BY <1>1, <1>3, <2>1, <3>1, LadderIs DEF FocusInv, Tried, Failed, Climbing, Thorough
    <3> QED  BY <1>1, <1>2, <1>3, <3>1 DEF Tried, Failed
  <2>5. OwnOnTop'
    BY <1>1, <1>3 DEF OwnOnTop, Failed, Over
  <2> QED  BY <2>2, <2>3, <2>4, <2>5 DEF FocusInv
<1>4. CASE Succeeded
  <2>1. PICK w \in open \cup {New} : Raise(w) /\ (Ladder[rung].by = "id" => w = Own)
    BY <1>4 DEF Succeeded
  <2>2. rung' = 18 /\ focused' /\ raised' = w /\ cands' = {} /\ seen' \subseteq Win
    BY <1>4, <2>1, LadderIs DEF Succeeded, Raise
  <2>3. FocusTypeOK'
    BY <1>1, <2>1, <2>2, LadderIs DEF FocusInv, FocusTypeOK, Raise
  <2>4. Place'
    BY <1>1, <2>2, LadderIs DEF Place, Climbing, Over
  <2>5. Tried'
    BY <2>2 DEF Tried
  <2>6. OwnOnTop'
    <3> SUFFICES ASSUME Own \in open, ById PROVE w = Own
      BY <1>1, <2>2 DEF OwnOnTop, ById, Over
    <3>1. \E i \in {1, 2} : Made(scene, i) /\ Thorough(i)
      BY LadderIs DEF ById, Made, Thorough
    <3>2. \A i \in {1, 2} : Found(i) = {Own} \cap open
      BY FoundIs, LadderIs DEF FocusInv
    <3>3. CASE rung \in {1, 2}
      BY <2>1, <3>3, LadderIs
    <3>4. CASE rung \notin {1, 2}
      BY <1>1, <3>1, <3>2, <3>4, LadderIs DEF FocusInv, Tried, Climbing
    <3> QED  BY <3>3, <3>4
  <2> QED  BY <2>3, <2>4, <2>5, <2>6 DEF FocusInv
<1>5. CASE Continued
  <2>1. FocusTypeOK'
    BY <1>1, <1>5 DEF FocusInv, FocusTypeOK, Continued
  <2>2. Place'
    BY <1>1, <1>5, LadderIs DEF FocusInv, Place, Continued, Climbing, Over
  <2>3. Tried'
    BY <1>1, <1>2, <1>5 DEF FocusInv, Tried, Continued, Climbing
  <2>4. OwnOnTop'
    BY <1>1, <1>5 DEF OwnOnTop, Continued, Over
  <2> QED  BY <2>1, <2>2, <2>3, <2>4 DEF FocusInv
<1> QED  BY <1>1, <1>3, <1>4, <1>5

LEMMA LaterKeeps ==
  ASSUME FocusInv, Finish \/ PaneTitle \/ Pane \/ Vanish
  PROVE  FocusInv'
<1>1. /\ scene' = scene /\ open' \subseteq open /\ UNCHANGED <<height, cands, seen, focused>>
      /\ (rung' # rung => PaneTitle)
  BY DEF Finish, PaneTitle, Pane, Vanish
<1>2. \A i \in DOMAIN Ladder : Found(i)' \subseteq Found(i) /\ (Thorough(i)' <=> Thorough(i))
  BY <1>1, FoundLess DEF FocusInv
<1>3. CASE Finish
  <2>1. /\ rung = 18 /\ ~Over /\ ~scene.pane /\ outcome' \in {"ok", "error"}
        /\ UNCHANGED <<rung, open, raised>> /\ (outcome' = "error" => ~focused)
    BY <1>3, LadderIs DEF Finish
  <2>2. FocusTypeOK' /\ Place'
    BY <1>1, <2>1, LadderIs DEF FocusInv, FocusTypeOK, Place, Climbing, Over
  <2>3. Tried' /\ OwnOnTop'
    BY <1>1, <1>2, <2>1, LadderIs DEF FocusInv, Tried, OwnOnTop, Climbing, ById
  <2> QED  BY <2>2, <2>3 DEF FocusInv
<1>4. CASE PaneTitle
  <2>1. /\ rung = 18 /\ rung' = 19 /\ scene.pane /\ ~Over /\ UNCHANGED <<open, outcome>>
        /\ raised' = raised \/ raised' \in open
    BY <1>4, LadderIs DEF PaneTitle, FocusInv, Place
  <2>2. FocusTypeOK' /\ Place'
    BY <1>1, <2>1, LadderIs DEF FocusInv, FocusTypeOK, Place, Climbing, Over
  <2>3. Tried' /\ OwnOnTop'
    BY <1>1, <1>2, <2>1, LadderIs DEF FocusInv, Place, Tried, OwnOnTop, Climbing, Over
  <2> QED  BY <2>2, <2>3 DEF FocusInv
<1>5. CASE Pane
  <2>1. /\ rung = 19 /\ scene.pane /\ outcome' \in {"ok", "error"} /\ UNCHANGED <<rung, open>>
        /\ raised' = IF Switched THEN Own ELSE raised
        /\ outcome' = "error" => ~focused
    BY <1>5, LadderIs DEF Pane, FocusInv, Place
  <2>2. FocusTypeOK' /\ Place'
    BY <1>1, <2>1, LadderIs, OwnAssumption DEF FocusInv, FocusTypeOK, Place, Climbing, Over
  <2>3. Tried' /\ OwnOnTop'
    BY <1>1, <1>2, <2>1, LadderIs DEF FocusInv, Tried, OwnOnTop, Climbing, Switched
  <2> QED  BY <2>2, <2>3 DEF FocusInv
<1>6. CASE Vanish
  <2>1. UNCHANGED <<rung, raised, outcome>> /\ rung > 0
    BY <1>6 DEF Vanish
  <2>2. FocusTypeOK' /\ Place'
    BY <1>1, <2>1, LadderIs DEF FocusInv, FocusTypeOK, Place, Climbing, Over
  <2>3. Tried' /\ OwnOnTop'
    BY <1>1, <1>2, <2>1, LadderIs DEF FocusInv, Tried, OwnOnTop, Climbing, Over, ById
  <2> QED  BY <2>2, <2>3 DEF FocusInv
<1> QED  BY <1>3, <1>4, <1>5, <1>6

\* Every step of a click keeps the invariant, and what is shown with it.
LEMMA FocusInvInit ==
  ASSUME FocusInit PROVE FocusInv /\ Shown
<1>1. FocusTypeOK
  <2>1. height \in [Win -> Nat]
    BY DEF FocusInit
  <2>2. rung \in 0..(Len(Ladder) + 2)
    BY LadderIs DEF FocusInit
  <2> QED  BY <2>1, <2>2 DEF FocusInit, FocusTypeOK
<1>2. Place /\ Tried
  BY LadderIs DEF FocusInit, Place, Tried, Climbing, Over
<1>3. OwnOnTop /\ Shown
  BY DEF FocusInit, OwnOnTop, Shown, Over
<1> QED  BY <1>1, <1>2, <1>3 DEF FocusInv

LEMMA FocusInvStep ==
  ASSUME FocusInv, FocusNext \/ UNCHANGED focusVars
  PROVE  FocusInv'
<1>1. CASE UNCHANGED focusVars
  BY <1>1 DEF focusVars, FocusInv, FocusTypeOK, Place, Tried, OwnOnTop, Climbing, Over, Found,
              Targets, Match, Thorough, ById
<1> QED  BY <1>1, StartKeeps, AttemptKeeps, LaterKeeps DEF FocusNext, FocusStep

LEMMA ShownStep ==
  ASSUME PanesBelong, FocusInv, Shown, FocusNext \/ UNCHANGED focusVars
  PROVE  Shown'
<1>1. CASE StartFocus
  BY <1>1 DEF StartFocus, FocusInv, Place, Before, Shown, Over
<1>2. CASE Call \/ Application \/ Search \/ Activate
  <2>1. /\ UNCHANGED outcome /\ ~Over
        /\ Failed \/ Succeeded \/ Continued
    BY <1>2, Attempt, LadderIs DEF FocusInv, Place, Climbing
  <2>2. CASE Failed \/ Continued
    BY <2>1, <2>2 DEF Shown, Failed, Continued, Over
  <2>3. CASE Succeeded
    <3>1. PICK w \in open \cup {New} : Raise(w)
      BY <2>3 DEF Succeeded
    <3>2. w # Nothing
      BY OwnAssumption DEF FocusInv, FocusTypeOK
    <3> QED  BY <2>1, <3>1, <3>2 DEF Shown, Raise, Over
  <2> QED  BY <2>1, <2>2, <2>3
<1>3. CASE Finish
  BY <1>3 DEF Finish, Shown, Over
<1>4. CASE PaneTitle
  <2>1. rung = 18 /\ scene.pane /\ ~Over /\ UNCHANGED <<focused, outcome>>
    BY <1>4, LadderIs DEF PaneTitle, FocusInv, Place
  <2>2. CASE {"wezterm", "extension"} \subseteq scene.tools /\ Own \in open
    <3>1. raised' \in open /\ open \subseteq Win
      BY <1>4, <2>2 DEF PaneTitle, FocusInv, FocusTypeOK
    <3>2. Own \in scene.class \cup scene.named
      BY <2>1, <2>2 DEF PanesBelong, FocusInv, Place
    <3>3. Own \in Found(6) \cup Found(7)
      BY <2>2, <3>2, LadderIs DEF Found, Targets, Match
    <3>4. Thorough(6) /\ Thorough(7)
      BY <2>2, LadderIs DEF Thorough, Made
    <3>5. focused
      BY <2>1, <3>3, <3>4, LadderIs DEF FocusInv, Tried
    <3> QED  BY <2>1, <3>1, <3>5, OwnAssumption DEF Shown, Over
  <2>3. CASE ~({"wezterm", "extension"} \subseteq scene.tools /\ Own \in open)
    BY <1>4, <2>1, <2>3 DEF PaneTitle, Shown, Over
  <2> QED  BY <2>2, <2>3
<1>5. CASE Pane
  BY <1>5, OwnAssumption DEF Pane, Shown, Over
<1>6. CASE Vanish \/ UNCHANGED focusVars
  BY <1>6 DEF Vanish, focusVars, Shown, Over
<1> QED  BY <1>1, <1>2, <1>3, <1>4, <1>5, <1>6 DEF FocusNext, FocusStep

LEMMA FocusInvIs ==
  ASSUME FocusInv
  PROVE  NotMissed /\ OwnRaised /\ (Shown => ReportsTruth)
<1>1. Over => rung \in 18..19 /\ (rung = 18 \/ scene.pane)
  BY LadderIs DEF FocusInv, Place, FocusTypeOK, Climbing, Over
<1>2. NotMissed
  BY <1>1, LadderIs DEF NotMissed, FocusInv, Place, Tried, Over
<1>3. OwnRaised
  <2> SUFFICES ASSUME Over, Own \in open,
                      IF scene.pane THEN "wezterm" \in scene.tools ELSE ById
               PROVE  raised = Own
    BY DEF OwnRaised, ById
  <2>1. CASE scene.pane
    BY <2>1 DEF FocusInv, OwnOnTop
  <2>2. CASE ~scene.pane
    <3>1. PICK i \in {1, 2} : Thorough(i)
      BY <2>2, LadderIs DEF ById, Made, Thorough
    <3>2. Own \in Found(i)
      BY FoundIs, LadderIs DEF FocusInv
    <3>3. focused
      BY <1>1, <3>1, <3>2, LadderIs DEF FocusInv, Tried
    <3> QED  BY <2>2, <3>3 DEF FocusInv, OwnOnTop
  <2> QED  BY <2>1, <2>2
<1> QED  BY <1>2, <1>3 DEF Shown, ReportsTruth
=============================================================================
