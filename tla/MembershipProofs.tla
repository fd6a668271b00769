-------------------------- MODULE MembershipProofs --------------------------
(***************************************************************************)
(* What the report on the group says, for any servers, any number of       *)
(* splits, merges, restarts and bootstraps, before and during the pass.    *)
(***************************************************************************)
EXTENDS Membership, FiniteSetTheorems, TLAPS

USE NodesAssumption, BoundAssumption

-----------------------------------------------------------------------------
(***************************************************************************)
(* The types, the domains included.                                        *)
(***************************************************************************)
Answers == [answer : {"status"}, view : View, comment : State, ready : BOOLEAN, off : FlagSets]
Statuses == {Unasked, [answer |-> "error"]} \cup Answers

GroupTypes ==
    /\ up \subseteq Servers
    /\ agreed \in [Servers -> View]
    /\ view \in [Nodes -> View]
    /\ state \in [Nodes -> State]
    /\ changes \in 0..MaxChanges

PassTypes ==
    /\ expect \in Expects
    /\ pc \in {"idle", "read", "end"}
    /\ status \in [Nodes -> Statuses]
    /\ members \in [Nodes -> SUBSET Names]
    /\ calm \in BOOLEAN

Types == GroupTypes /\ PassTypes

(***************************************************************************)
(* The order of views.  The servers of a component have agreed on it, all  *)
(* of them and nobody else that runs.                                      *)
(***************************************************************************)
Whole == \A s \in up : s \in agreed[s].members
                       /\ \A t \in agreed[s].members : t \in up /\ agreed[t] = agreed[s]

\* No server has a state uuid that is still to come.
Fresh == \A s \in Servers : agreed[s].uuid <= changes + 1

\* The views somebody holds: agreed on, installed, or read by the pass.
Held == {agreed[s] : s \in Servers} \cup {view[n] : n \in Nodes} \cup {status[n].view : n \in Live}

Later(w, v) == w.uuid > v.uuid \/ (w.uuid = v.uuid /\ w.conf > v.conf)

\* What w a member of the Primary view v may have agreed on by now: v, a later view, or,
\* restarted and alone, one that is not Primary and has the configuration id of v.
Past(w, v) == \/ Later(w, v)
              \/ w.uuid = v.uuid /\ w.conf = v.conf /\ (w.primary => w = v)

Ordered == \A v \in Held : v.primary => \A s \in v.members : Past(agreed[s], v)

\* Two Primary views with a member in common are told apart by their ids.
Unique == \A v \in Held : \A w \in Held :
              /\ v.primary /\ w.primary /\ v.uuid = w.uuid /\ v.conf = w.conf
              /\ v.members \cap w.members # {}
              => v = w

(***************************************************************************)
(* What was read of a group in which nothing happened since is still so.   *)
(***************************************************************************)
StillSo(n) == /\ status[n].view = view[n] /\ status[n].comment = state[n]
              /\ status[n].ready = (view[n].primary /\ state[n] = "Synced")
              /\ members[n] \in {{}, {Own(s) : s \in view[n].members}}

Faithful ==
    /\ pc = "idle" => \A n \in Nodes : status[n] = Unasked
    /\ \A n \in Nodes \ Live : members[n] = {}
    /\ calm => \A n \in Live : StillSo(n)

\* The report is made of what was read.
Reported == IF pc = "end" THEN findings = Report ELSE findings = {}

IInv == Types /\ Whole /\ Fresh /\ Ordered /\ Unique /\ Faithful /\ Reported

-----------------------------------------------------------------------------
LEMMA MaxIs ==
    ASSUME NEW a \in Nat, NEW b \in Nat
    PROVE  Max({a, b}) \in Nat /\ Max({a, b}) >= a /\ Max({a, b}) >= b
<1>1. \E x \in {a, b} : \A y \in {a, b} : x >= y
    <2>1. CASE a >= b
        BY <2>1
    <2>2. CASE b >= a
        BY <2>2
    <2>3. QED
        BY <2>1, <2>2
<1>2. Max({a, b}) \in {a, b} /\ \A y \in {a, b} : Max({a, b}) >= y
    BY <1>1 DEF Max
<1>3. QED
    BY <1>2

LEMMA ViewIs ==
    ASSUME NEW v \in View
    PROVE  /\ v.uuid \in Nat /\ v.conf \in Nat /\ v.members \subseteq Servers
           /\ v.primary \in BOOLEAN
           /\ v = [uuid |-> v.uuid, conf |-> v.conf, members |-> v.members, primary |-> v.primary]
BY DEF View

LEMMA HeldTypes == ASSUME Types PROVE Held \subseteq View
<1>1. \A n \in Live : status[n].view \in View
    BY DEF Types, PassTypes, Statuses, Answers, Live, Unasked
<1>2. QED
    BY <1>1 DEF Held, Types, GroupTypes

-----------------------------------------------------------------------------
(***************************************************************************)
(* The changes of what is agreed, in one form: the members of w go on to   *)
(* it, which is later than what each of them had.                          *)
(***************************************************************************)
Advance(w) ==
    /\ w \in View
    /\ \A t \in w.members : agreed'[t] = w /\ Later(w, agreed[t])

(***************************************************************************)
(* What an action may do to a server: leave it, let it advance with the    *)
(* others of its new view, or restart it alone.                            *)
(***************************************************************************)
Moves(s) ==
    \/ agreed'[s] = agreed[s]
    \/ s \in agreed'[s].members /\ Advance(agreed'[s])
    \/ /\ ~agreed'[s].primary
       /\ agreed'[s].uuid = agreed[s].uuid /\ agreed'[s].conf = agreed[s].conf

Kept == /\ agreed' \in [Servers -> View]
        /\ \A s \in Servers : Moves(s)
        /\ Held' \subseteq Held \cup {agreed'[s] : s \in Servers}

LEMMA PastLater ==
    ASSUME NEW u \in View, NEW v \in View, NEW w \in View, Later(w, v), Past(v, u)
    PROVE  Later(w, u)
BY ViewIs DEF Later, Past

LEMMA LaterDiffers ==
    ASSUME NEW v \in View, NEW w \in View, Later(w, v)
    PROVE  w.uuid # v.uuid \/ w.conf # v.conf
BY ViewIs DEF Later

LEMMA PastItself == ASSUME NEW v PROVE v.primary => Past(v, v)
BY DEF Past

(***************************************************************************)
(* Such changes keep the order, and no two views become alike.             *)
(***************************************************************************)
LEMMA KeepsOrder ==
    ASSUME Types, Ordered, Kept
    PROVE  Ordered'
<1> SUFFICES ASSUME NEW v \in Held', v.primary, NEW s \in v.members
             PROVE  Past(agreed'[s], v)
    BY DEF Ordered, Past, Later
<1>1. v \in View /\ s \in Servers /\ agreed[s] \in View /\ agreed'[s] \in View
  <2>1. v \in View
      BY HeldTypes DEF Kept
  <2>2. s \in Servers
      BY <2>1, ViewIs
  <2>3. QED
      BY <2>1, <2>2 DEF Kept, Types, GroupTypes
<1>2. CASE v \in Held
  <2>1. Past(agreed[s], v)
      BY <1>2 DEF Ordered
  <2>2. CASE agreed'[s] = agreed[s]
      BY <2>1, <2>2
  <2>3. CASE Advance(agreed'[s]) /\ s \in agreed'[s].members
    <3>1. Later(agreed'[s], agreed[s])
        BY <2>3 DEF Advance
    <3>2. QED
        BY <1>1, <2>1, <3>1, PastLater DEF Past
  <2>4. CASE /\ ~agreed'[s].primary
             /\ agreed'[s].uuid = agreed[s].uuid /\ agreed'[s].conf = agreed[s].conf
      BY <2>1, <2>4 DEF Past, Later
  <2>5. QED
      BY <1>1, <2>2, <2>3, <2>4 DEF Kept, Moves
<1>3. CASE v \notin Held
  <2>1. PICK t \in Servers : v = agreed'[t]
      BY <1>3 DEF Kept
  <2>2. agreed'[t] # agreed[t]
      BY <1>3, <2>1 DEF Held
  <2>3. Advance(v)
      BY <2>1, <2>2 DEF Kept, Moves
  <2>4. agreed'[s] = v
      BY <2>3 DEF Advance
  <2>5. QED
      BY <2>4, PastItself
<1>4. QED
    BY <1>2, <1>3

LEMMA KeepsUnique ==
    ASSUME Types, Ordered, Unique, Kept
    PROVE  Unique'
<1> SUFFICES ASSUME NEW v \in Held', NEW w \in Held',
                    v.primary, w.primary, v.uuid = w.uuid, v.conf = w.conf,
                    v.members \cap w.members # {}
             PROVE  v = w
    BY DEF Unique
<1>1. PICK s \in v.members \cap w.members : TRUE
    OBVIOUS
<1>2. v \in View /\ w \in View /\ s \in Servers /\ agreed[s] \in View
  <2>1. v \in View /\ w \in View
      BY HeldTypes DEF Kept
  <2>2. s \in Servers
      BY <1>1, <2>1, ViewIs
  <2>3. QED
      BY <2>1, <2>2 DEF Types, GroupTypes
<1>3. ASSUME NEW x \in Held', x \notin Held, x.primary, NEW t \in x.members, agreed[t] \in View
      PROVE  agreed'[t] = x /\ Later(x, agreed[t])
  <2>1. PICK r \in Servers : x = agreed'[r]
      BY <1>3 DEF Kept
  <2>2. agreed'[r] # agreed[r]
      BY <1>3, <2>1 DEF Held
  <2>3. Advance(x)
      BY <1>3, <2>1, <2>2 DEF Kept, Moves
  <2>4. QED
      BY <1>3, <2>3 DEF Advance
<1>4. ASSUME NEW x \in View, NEW y \in View, x \in Held, y \in Held', y \notin Held,
             x.primary, y.primary, s \in x.members, s \in y.members
      PROVE  y.uuid # x.uuid \/ y.conf # x.conf
  <2>1. Past(agreed[s], x)
      BY <1>4 DEF Ordered
  <2>2. Later(y, agreed[s])
      BY <1>2, <1>3, <1>4
  <2>3. Later(y, x)
      BY <1>2, <1>4, <2>1, <2>2, PastLater
  <2>4. QED
      BY <1>4, <2>3, LaterDiffers
<1>5. CASE v \in Held /\ w \in Held
    BY <1>5 DEF Unique
<1>6. CASE v \notin Held /\ w \notin Held
    BY <1>1, <1>2, <1>3, <1>6
<1>7. QED
    BY <1>1, <1>2, <1>4, <1>5, <1>6

\* A step in which nobody installs or reads a view.
LEMMA HeldStays ==
    ASSUME view' = view, status' = status
    PROVE  Held' \subseteq Held \cup {agreed'[s] : s \in Servers}
BY DEF Held, Live

-----------------------------------------------------------------------------
(***************************************************************************)
(* The actions of the group, one by one.                                   *)
(***************************************************************************)
LEMMA ComponentIs ==
    ASSUME Types, Whole, NEW s \in up
    PROVE  /\ s \in Component(s) /\ Component(s) = agreed[s].members /\ Component(s) \subseteq up
           /\ s \in Servers /\ agreed[s] \in View /\ Component(s) \subseteq Servers
           /\ \A t \in Component(s) : agreed[t] = agreed[s]
           /\ \A t \in up : t \notin Component(s) => agreed[t].members \cap Component(s) = {}
<1>1. s \in Servers /\ agreed[s] \in View /\ up \subseteq Servers
    BY DEF Types, GroupTypes
<1>2. \A t \in Component(s) : t \in up /\ agreed[t] = agreed[s]
    BY DEF Component
<1>3. Component(s) = agreed[s].members
    BY DEF Component, Whole
<1>4. ASSUME NEW t \in up, t \notin Component(s), NEW r \in agreed[t].members \cap Component(s)
      PROVE  FALSE
  <2>1. agreed[r] = agreed[t] /\ agreed[r] = agreed[s]
      BY <1>2, <1>4 DEF Whole
  <2>2. t \in agreed[s].members
      BY <2>1 DEF Whole
  <2>3. QED
      BY <1>3, <1>4, <2>2
<1>5. QED
    BY <1>1, <1>2, <1>3, <1>4 DEF Whole

LEMMA RemnantIs ==
    ASSUME NEW s \in Servers, agreed[s] \in View, NEW S \in SUBSET Servers
    PROVE  /\ Remnant(s, S) \in View /\ Remnant(s, S).members = S
           /\ Remnant(s, S).uuid = agreed[s].uuid /\ Remnant(s, S).conf = agreed[s].conf + 1
           /\ Later(Remnant(s, S), agreed[s])
<1> DEFINE w == Remnant(s, S)
<1>1. /\ w.uuid = agreed[s].uuid /\ w.conf = agreed[s].conf + 1 /\ w.members = S
      /\ w.primary \in BOOLEAN
      /\ w = [uuid |-> w.uuid, conf |-> w.conf, members |-> w.members, primary |-> w.primary]
  <2> DEFINE v == agreed[s]
             p == v.primary /\ 2 * Cardinality(S) > Cardinality(v.members)
  <2>1. v = [uuid |-> v.uuid, conf |-> v.conf, members |-> v.members, primary |-> v.primary]
      BY ViewIs
  <2>2. w = [v EXCEPT !.conf = @ + 1, !.members = S, !.primary = p]
      BY DEF Remnant
  <2>3. p \in BOOLEAN
      OBVIOUS
  <2> HIDE DEF v, w, p
  <2>4. w = [uuid |-> v.uuid, conf |-> v.conf + 1, members |-> S, primary |-> p]
      BY <2>1, <2>2
  <2>5. QED
      BY <2>3, <2>4 DEF v
<1>2. agreed[s].conf \in Nat /\ agreed[s].uuid \in Nat
    BY ViewIs
<1>3. w \in View
  <2> HIDE DEF w
  <2>1. QED
      BY <1>1, <1>2 DEF View
<1>4. Later(w, agreed[s])
  <2> HIDE DEF w
  <2>1. QED
      BY <1>1, <1>2 DEF Later
<1>5. QED
    BY <1>1, <1>3, <1>4

\* What is shown of each action.
Good == GroupTypes' /\ Whole' /\ Fresh' /\ \A s \in Servers : Moves(s)

LEMMA Changed ==
    ASSUME Types, Change
    PROVE  changes' \in 0..MaxChanges /\ changes' = changes + 1 /\ changes \in Nat
BY DEF Types, GroupTypes, Change

LEMMA PartGood ==
    ASSUME Types, Whole, Fresh, NEW s \in Servers, NEW S \in SUBSET Servers, Part(s, S)
    PROVE  Good
<1> DEFINE C == Component(s)
           v == Remnant(s, S)
           w == Remnant(s, C \ S)
<1>1. /\ S \subseteq C /\ s \in S /\ up' = up /\ view' = view /\ state' = state
      /\ agreed' = [t \in Servers |-> IF t \in S THEN v ELSE IF t \in C THEN w ELSE agreed[t]]
      /\ changes' \in 0..MaxChanges /\ changes' = changes + 1 /\ changes \in Nat
    BY Changed DEF Part
<1>2. s \in up
    BY <1>1 DEF Component
<1>3. /\ C \subseteq Servers /\ C \subseteq up /\ agreed[s] \in View
      /\ \A t \in C : agreed[t] = agreed[s]
      /\ \A t \in up : t \notin C => agreed[t].members \cap C = {}
    BY <1>2, ComponentIs
<1>4. /\ v \in View /\ v.members = S /\ Later(v, agreed[s]) /\ v.uuid = agreed[s].uuid
      /\ w \in View /\ w.members = C \ S /\ Later(w, agreed[s]) /\ w.uuid = agreed[s].uuid
    BY <1>3, RemnantIs
<1> HIDE DEF C, v, w
<1>5. GroupTypes'
    BY <1>1, <1>4 DEF Types, GroupTypes
<1>6. Whole'
    BY <1>1, <1>3, <1>4 DEF Whole, Types, GroupTypes
<1>7. Fresh'
  <2>1. \A t \in Servers : agreed'[t].uuid \in {agreed[s].uuid, agreed[t].uuid}
      BY <1>1, <1>4
  <2>2. \A t \in Servers : agreed[t].uuid \in Nat
      BY ViewIs DEF Types, GroupTypes
  <2>3. QED
      BY <1>1, <2>1, <2>2 DEF Fresh
<1>8. ASSUME NEW t \in Servers PROVE Moves(t)
  <2>1. Advance(v) /\ Advance(w)
      BY <1>1, <1>3, <1>4 DEF Advance
  <2>2. CASE t \in S
      BY <1>1, <1>4, <2>1, <2>2 DEF Moves
  <2>3. CASE t \in C \ S
      BY <1>1, <1>4, <2>1, <2>3 DEF Moves
  <2>4. CASE t \notin C
      BY <1>1, <2>4 DEF Moves
  <2>5. QED
      BY <2>2, <2>3, <2>4
<1>9. QED
    BY <1>5, <1>6, <1>7, <1>8 DEF Good

LEMMA StopGood ==
    ASSUME Types, Whole, Fresh, NEW s \in Servers, Stop(s)
    PROVE  Good
<1> DEFINE C == Component(s) \ {s}
           w == Remnant(s, C)
<1>1. /\ s \in up /\ up' = up \ {s} /\ view' = view /\ state' = state
      /\ agreed' = [t \in Servers |-> IF t \in C THEN w ELSE agreed[t]]
      /\ changes' \in 0..MaxChanges /\ changes' = changes + 1 /\ changes \in Nat
    BY Changed DEF Stop
<1>2. /\ C \subseteq Servers /\ C \subseteq up /\ agreed[s] \in View
      /\ \A t \in C : agreed[t] = agreed[s]
      /\ \A t \in up \ {s} : t \notin C => agreed[t].members \cap (C \cup {s}) = {}
    BY <1>1, ComponentIs
<1>3. w \in View /\ w.members = C /\ Later(w, agreed[s]) /\ w.uuid = agreed[s].uuid
    BY <1>2, RemnantIs
<1>4. s \notin C
    OBVIOUS
<1> HIDE DEF C, w
<1>5. GroupTypes'
    BY <1>1, <1>3 DEF Types, GroupTypes
<1>6. Whole'
    BY <1>1, <1>2, <1>3, <1>4 DEF Whole, Types, GroupTypes
<1>7. Fresh'
  <2>1. \A t \in Servers : agreed'[t].uuid \in {agreed[s].uuid, agreed[t].uuid}
      BY <1>1, <1>3
  <2>2. \A t \in Servers : agreed[t].uuid \in Nat
      BY ViewIs DEF Types, GroupTypes
  <2>3. QED
      BY <1>1, <2>1, <2>2 DEF Fresh
<1>8. ASSUME NEW t \in Servers PROVE Moves(t)
  <2>1. Advance(w)
      BY <1>1, <1>2, <1>3 DEF Advance
  <2>2. CASE t \in C
      BY <1>1, <1>3, <2>1, <2>2 DEF Moves
  <2>3. CASE t \notin C
      BY <1>1, <2>3 DEF Moves
  <2>4. QED
      BY <2>2, <2>3
<1>9. QED
    BY <1>5, <1>6, <1>7, <1>8 DEF Good

LEMMA JoinGood ==
    ASSUME Types, Whole, Fresh, NEW s \in Servers, NEW t \in Servers, Join(s, t)
    PROVE  Good
<1> DEFINE C == Component(s)
           D == Component(t)
           w == [uuid |-> agreed[s].uuid, conf |-> 1 + Max({agreed[s].conf, agreed[t].conf}),
                 members |-> C \cup D, primary |-> agreed[s].primary \/ agreed[t].primary]
<1>1. /\ s \in up /\ t \in up /\ up' = up /\ view' = view /\ state' = state
      /\ agreed[t].uuid = agreed[s].uuid
      /\ agreed' = [r \in Servers |-> IF r \in C \cup D THEN w ELSE agreed[r]]
      /\ changes' \in 0..MaxChanges /\ changes' = changes + 1 /\ changes \in Nat
    BY Changed DEF Join
<1>2. /\ C \subseteq Servers /\ C \subseteq up /\ agreed[s] \in View
      /\ \A r \in C : agreed[r] = agreed[s]
      /\ \A r \in up : r \notin C => agreed[r].members \cap C = {}
      /\ D \subseteq Servers /\ D \subseteq up /\ agreed[t] \in View
      /\ \A r \in D : agreed[r] = agreed[t]
      /\ \A r \in up : r \notin D => agreed[r].members \cap D = {}
    BY <1>1, ComponentIs
<1>3. /\ w \in View /\ w.members = C \cup D /\ w.uuid = agreed[s].uuid
      /\ Later(w, agreed[s]) /\ Later(w, agreed[t])
  <2>1. /\ agreed[s].conf \in Nat /\ agreed[t].conf \in Nat /\ agreed[s].uuid \in Nat
        /\ agreed[s].primary \in BOOLEAN /\ agreed[t].primary \in BOOLEAN
      BY <1>2, ViewIs
  <2>2. /\ Max({agreed[s].conf, agreed[t].conf}) \in Nat
        /\ Max({agreed[s].conf, agreed[t].conf}) >= agreed[s].conf
        /\ Max({agreed[s].conf, agreed[t].conf}) >= agreed[t].conf
      BY <2>1, MaxIs
  <2> HIDE DEF C, D
  <2>3. w \in View
      BY <1>2, <2>1, <2>2 DEF View
  <2>4. Later(w, agreed[s]) /\ Later(w, agreed[t])
      BY <1>1, <2>1, <2>2 DEF Later
  <2>5. QED
      BY <2>3, <2>4
<1> HIDE DEF C, D, w
<1>5. GroupTypes'
    BY <1>1, <1>3 DEF Types, GroupTypes
<1>6. Whole'
    BY <1>1, <1>2, <1>3 DEF Whole, Types, GroupTypes
<1>7. Fresh'
  <2>1. \A r \in Servers : agreed'[r].uuid \in {agreed[s].uuid, agreed[r].uuid}
      BY <1>1, <1>3
  <2>2. \A r \in Servers : agreed[r].uuid \in Nat
      BY ViewIs DEF Types, GroupTypes
  <2>3. QED
      BY <1>1, <2>1, <2>2 DEF Fresh
<1>8. ASSUME NEW r \in Servers PROVE Moves(r)
  <2>1. Advance(w)
      BY <1>1, <1>2, <1>3 DEF Advance
  <2>2. CASE r \in C \cup D
      BY <1>1, <1>3, <2>1, <2>2 DEF Moves
  <2>3. CASE r \notin C \cup D
      BY <1>1, <2>3 DEF Moves
  <2>4. QED
      BY <2>2, <2>3
<1>9. QED
    BY <1>5, <1>6, <1>7, <1>8 DEF Good

LEMMA BootstrapGood ==
    ASSUME Types, Whole, Fresh, NEW s \in Servers, Bootstrap(s)
    PROVE  Good
<1> DEFINE C == Component(s)
           w == [agreed[s] EXCEPT !.conf = @ + 1, !.primary = TRUE]
<1>1. /\ s \in up /\ up' = up /\ view' = view /\ state' = state
      /\ agreed' = [r \in Servers |-> IF r \in C THEN w ELSE agreed[r]]
      /\ changes' \in 0..MaxChanges /\ changes' = changes + 1 /\ changes \in Nat
    BY Changed DEF Bootstrap
<1>2. /\ C \subseteq Servers /\ C \subseteq up /\ agreed[s] \in View /\ C = agreed[s].members
      /\ \A r \in C : agreed[r] = agreed[s]
      /\ \A r \in up : r \notin C => agreed[r].members \cap C = {}
    BY <1>1, ComponentIs
<1>3. w \in View /\ w.members = C /\ w.uuid = agreed[s].uuid /\ Later(w, agreed[s])
  <2> DEFINE v == agreed[s]
  <2>1. /\ v = [uuid |-> v.uuid, conf |-> v.conf, members |-> v.members, primary |-> v.primary]
        /\ v.uuid \in Nat /\ v.conf \in Nat /\ v.members \subseteq Servers
      BY <1>2, ViewIs
  <2>2. w = [v EXCEPT !.conf = @ + 1, !.primary = TRUE]
      OBVIOUS
  <2> HIDE DEF v, w
  <2>3. w = [uuid |-> v.uuid, conf |-> v.conf + 1, members |-> v.members, primary |-> TRUE]
      BY <2>1, <2>2
  <2>4. w \in View
      BY <2>1, <2>3 DEF View
  <2>5. w.uuid = v.uuid /\ w.conf = v.conf + 1 /\ w.members = v.members
      BY <2>3
  <2>6. Later(w, v)
      BY <2>1, <2>5 DEF Later
  <2>7. QED
      BY <1>2, <2>4, <2>5, <2>6 DEF v
<1> HIDE DEF C, w
<1>5. GroupTypes'
    BY <1>1, <1>3 DEF Types, GroupTypes
<1>6. Whole'
    BY <1>1, <1>2, <1>3 DEF Whole, Types, GroupTypes
<1>7. Fresh'
  <2>1. \A r \in Servers : agreed'[r].uuid \in {agreed[s].uuid, agreed[r].uuid}
      BY <1>1, <1>3
  <2>2. \A r \in Servers : agreed[r].uuid \in Nat
      BY ViewIs DEF Types, GroupTypes
  <2>3. QED
      BY <1>1, <2>1, <2>2 DEF Fresh
<1>8. ASSUME NEW r \in Servers PROVE Moves(r)
  <2>1. Advance(w)
      BY <1>1, <1>2, <1>3 DEF Advance
  <2>2. CASE r \in C
      BY <1>1, <1>3, <2>1, <2>2 DEF Moves
  <2>3. CASE r \notin C
      BY <1>1, <2>3 DEF Moves
  <2>4. QED
      BY <2>2, <2>3
<1>9. QED
    BY <1>5, <1>6, <1>7, <1>8 DEF Good

LEMMA ComeGood ==
    ASSUME Types, Whole, Fresh, NEW s \in Servers, Come(s)
    PROVE  /\ Good
           /\ \A n \in Nodes : view'[n] \in {view[n], agreed'[s]}
<1> DEFINE alone == [agreed[s] EXCEPT !.members = {s}, !.primary = FALSE]
           new == [uuid |-> 2 + changes, conf |-> 1, members |-> {s}, primary |-> TRUE]
<1>1. PICK v \in {alone, new} :
          /\ agreed' = [agreed EXCEPT ![s] = v]
          /\ view' = [n \in Nodes |-> IF n = s THEN v ELSE view[n]]
    BY DEF Come
<1>2. /\ s \notin up /\ up' = up \cup {s}
      /\ state' = [n \in Nodes |-> IF n = s THEN "Initialized" ELSE state[n]]
      /\ changes' \in 0..MaxChanges /\ changes' = changes + 1 /\ changes \in Nat
    BY Changed DEF Come
<1>3. agreed \in [Servers -> View] /\ agreed[s] \in View /\ up \subseteq Servers
    BY DEF Types, GroupTypes
<1>4. /\ alone \in View /\ alone.members = {s} /\ ~alone.primary
      /\ alone.uuid = agreed[s].uuid /\ alone.conf = agreed[s].conf
    BY <1>3 DEF View
<1>5. new \in View /\ new.members = {s} /\ new.uuid = changes + 2
    BY <1>2 DEF View
<1> HIDE DEF alone, new
<1>6. GroupTypes'
  <2>1. v \in View
      BY <1>1, <1>4, <1>5
  <2>2. state' \in [Nodes -> State]
      BY <1>2 DEF Types, GroupTypes, State
  <2>3. QED
      BY <1>1, <1>2, <1>3, <2>1, <2>2 DEF Types, GroupTypes
<1>7. Whole'
  <2>1. agreed'[s] = v /\ v.members = {s} /\ \A t \in Servers \ {s} : agreed'[t] = agreed[t]
      BY <1>1, <1>3, <1>4, <1>5
  <2>2. QED
      BY <1>2, <1>3, <2>1 DEF Whole
<1>8. Fresh'
  <2>1. \A t \in Servers : agreed[t].uuid \in Nat
      BY ViewIs DEF Types, GroupTypes
  <2>2. v.uuid \in {agreed[s].uuid, changes + 2}
      BY <1>1, <1>4, <1>5
  <2>3. QED
      BY <1>1, <1>2, <1>3, <2>1, <2>2 DEF Fresh
<1>9. ASSUME NEW t \in Servers PROVE Moves(t)
  <2>1. CASE t # s
      BY <1>1, <1>3, <2>1 DEF Moves
  <2>2. CASE t = s /\ v = alone
      BY <1>1, <1>3, <1>4, <2>2 DEF Moves
  <2>3. CASE t = s /\ v = new
    <3>1. agreed'[s] = new
        BY <1>1, <1>3, <2>3
    <3>2. agreed[s].uuid \in Nat /\ agreed[s].uuid <= changes + 1
        BY <1>3, ViewIs DEF Fresh
    <3>3. Later(new, agreed[s])
        BY <1>2, <1>5, <3>2 DEF Later
    <3>4. QED
        BY <1>5, <2>3, <3>1, <3>3 DEF Moves, Advance
  <2>4. QED
      BY <1>1, <2>1, <2>2, <2>3
<1>10. \A n \in Nodes : view'[n] \in {view[n], agreed'[s]}
    BY <1>1, <1>3
<1>11. QED
    BY <1>6, <1>7, <1>8, <1>9, <1>10 DEF Good

\* An action that agrees on nothing.
LEMMA StillGood ==
    ASSUME Types, Whole, Fresh, up' = up, agreed' = agreed, changes' \in changes..MaxChanges,
           view' \in [Nodes -> View], state' \in [Nodes -> State]
    PROVE  Good
<1>1. GroupTypes'
    BY DEF Types, GroupTypes
<1>2. Whole'
    BY DEF Whole
<1>3. Fresh'
  <2>1. \A t \in Servers : agreed[t].uuid \in Nat
      BY ViewIs DEF Types, GroupTypes
  <2>2. changes' \in Nat /\ changes \in Nat /\ changes' >= changes
      BY DEF Types, GroupTypes
  <2>3. QED
      BY <2>1, <2>2 DEF Fresh
<1>4. QED
    BY <1>1, <1>2, <1>3 DEF Good, Moves

-----------------------------------------------------------------------------
(***************************************************************************)
(* A step keeps the types and the order.                                   *)
(***************************************************************************)
Group == Types /\ Whole /\ Fresh /\ Ordered /\ Unique

LEMMA GoodKeeps ==
    ASSUME Group, Good, PassTypes', Held' \subseteq Held \cup {agreed'[s] : s \in Servers}
    PROVE  Group'
<1>1. Kept
    BY DEF Kept, Good, GroupTypes
<1>2. QED
    BY <1>1, KeepsOrder, KeepsUnique DEF Group, Good, Types

\* An action of the group leaves the pass alone, but for its calm.
Outside == /\ calm' = FALSE
           /\ UNCHANGED <<expect, pc, status, members, findings>>

LEMMA GroupStep ==
    ASSUME Group, Environment
    PROVE  Group' /\ Outside
<1> USE DEF Group
<1>1. ASSUME Outside PROVE PassTypes'
    BY <1>1 DEF Types, PassTypes, Outside
<1>2. ASSUME Change PROVE Outside
    BY <1>2 DEF Change, Outside
<1>3. ASSUME NEW s \in Servers, \/ \E S \in SUBSET Servers : Part(s, S)
                               \/ \E t \in Servers : Join(s, t)
                               \/ Stop(s)
                               \/ Bootstrap(s)
      PROVE  Group' /\ Outside
  <2>1. Good
      BY <1>3, PartGood, JoinGood, StopGood, BootstrapGood
  <2>2. Outside /\ view' = view /\ status' = status
      BY <1>2, <1>3 DEF Part, Join, Stop, Bootstrap, Outside
  <2>3. QED
      BY <1>1, <2>1, <2>2, HeldStays, GoodKeeps
<1>4. ASSUME NEW s \in Servers, Come(s) PROVE Group' /\ Outside
  <2>1. Good /\ \A n \in Nodes : view'[n] \in {view[n], agreed'[s]}
      BY <1>4, ComeGood
  <2>2. Outside
      BY <1>2, <1>4 DEF Come
  <2>3. Held' \subseteq Held \cup {agreed'[t] : t \in Servers}
    <3>1. status' = status
        BY <2>2 DEF Outside
    <3>2. QED
        BY <2>1, <3>1 DEF Held, Live
  <2>4. QED
      BY <1>1, <2>1, <2>2, <2>3, GoodKeeps
<1>5. ASSUME NEW n \in Nodes, Install(n) PROVE Group' /\ Outside
  <2>1. /\ Outside /\ up' = up /\ agreed' = agreed /\ changes' = changes
        /\ view' = [view EXCEPT ![n] = agreed[n]]
        /\ state' \in [Nodes -> State]
      BY <1>5 DEF Install, Outside, Types, GroupTypes, State
  <2>2. agreed[n] \in View /\ view \in [Nodes -> View] /\ n \in Servers
        /\ changes \in changes..MaxChanges
      BY DEF Types, GroupTypes, Servers
  <2>3. Good
      BY <2>1, <2>2, StillGood
  <2>4. Held' \subseteq Held \cup {agreed'[t] : t \in Servers}
    <3>1. \A m \in Nodes : view'[m] \in {view[m], agreed'[n]}
        BY <2>1, <2>2
    <3>2. status' = status
        BY <2>1 DEF Outside
    <3>3. QED
        BY <2>2, <3>1, <3>2 DEF Held, Live
  <2>5. QED
      BY <1>1, <2>1, <2>3, <2>4, GoodKeeps
<1>6. ASSUME NEW n \in Nodes, Donate(n) \/ Sync(n) PROVE Group' /\ Outside
  <2>1. /\ Outside /\ up' = up /\ agreed' = agreed /\ changes' \in {changes, changes + 1}
        /\ changes' = changes + 1 => changes < MaxChanges
        /\ view' = view
    <3>1. CASE Donate(n)
        BY <1>2, <3>1 DEF Donate, Change, Types, GroupTypes
    <3>2. CASE Sync(n)
      <4>1. changes \in Nat
          BY DEF Types, GroupTypes
      <4>2. QED
          BY <3>2, <4>1 DEF Sync, Outside
    <3>3. QED
        BY <1>6, <3>1, <3>2
  <2>2. state' \in [Nodes -> State]
      BY <1>6 DEF Donate, Sync, Types, GroupTypes, State
  <2>3. changes' \in changes..MaxChanges /\ view' \in [Nodes -> View]
      BY <2>1 DEF Types, GroupTypes
  <2>4. Good
      BY <2>1, <2>2, <2>3, StillGood
  <2>5. QED
      BY <1>1, <2>1, <2>4, HeldStays, GoodKeeps DEF Outside
<1>7. QED
    BY <1>3, <1>4, <1>5, <1>6 DEF Environment

LEMMA ReadStep ==
    ASSUME Group, Auditor \/ UNCHANGED vars
    PROVE  Group'
<1> USE DEF Group
<1>1. UNCHANGED group
    BY DEF Auditor, Begin, ReadStatus, FailRead, ReadMembers, Audit, vars, group
<1>2. Good
    BY <1>1, StillGood DEF Types, GroupTypes, group
<1>3. PassTypes' /\ Held' \subseteq Held
  <2>1. CASE Begin \/ Audit \/ UNCHANGED vars
      BY <1>1, <2>1 DEF Types, PassTypes, Begin, Audit, vars, Held, Live, group
  <2>2. ASSUME NEW n \in Nodes, ReadStatus(n) PROVE PassTypes' /\ Held' \subseteq Held
    <3>1. PICK off \in FlagSets :
              status' = [status EXCEPT ![n] =
                 [answer |-> "status", view |-> view[n], comment |-> state[n],
                  ready |-> view[n].primary /\ state[n] = "Synced", off |-> off]]
        BY <2>2 DEF ReadStatus
    <3> DEFINE a == [answer |-> "status", view |-> view[n], comment |-> state[n],
                     ready |-> view[n].primary /\ state[n] = "Synced", off |-> off]
    <3>2. view[n] \in View /\ state[n] \in State /\ view[n].primary \in BOOLEAN
        BY ViewIs DEF Types, GroupTypes
    <3>3. a \in Answers /\ a.view = view[n]
        BY <3>2 DEF Answers
    <3> HIDE DEF a
    <3>4. status' = [status EXCEPT ![n] = a]
        BY <3>1 DEF a
    <3>5. PassTypes'
        BY <2>2, <3>3, <3>4 DEF ReadStatus, Types, PassTypes, Statuses
    <3>6. \A m \in Nodes : status'[m] \in {status[m], a}
        BY <3>4 DEF Types, PassTypes
    <3>7. ASSUME NEW m \in Live'
          PROVE  (m \in Nodes /\ status'[m].view = view[n]) \/ (m \in Live /\ status'[m] = status[m])
        BY <3>3, <3>6 DEF Live
    <3>8. QED
        BY <1>1, <3>5, <3>7 DEF Held, group
  <2>3. ASSUME NEW n \in Nodes, FailRead(n) PROVE PassTypes' /\ Held' \subseteq Held
    <3>1. PassTypes'
        BY <2>3 DEF FailRead, Types, PassTypes, Statuses
    <3>2. \A m \in Nodes : status'[m] \in {status[m], [answer |-> "error"]}
        BY <2>3 DEF FailRead, Types, PassTypes
    <3>3. \A m \in Live' : m \in Live /\ status'[m] = status[m]
        BY <3>2 DEF Live
    <3>4. QED
        BY <1>1, <3>1, <3>3 DEF Held, group
  <2>4. ASSUME NEW n \in Nodes, ReadMembers(n) PROVE PassTypes' /\ Held' \subseteq Held
    <3>1. {Own(s) : s \in view[n].members} \in SUBSET Names
        BY ViewIs DEF Types, GroupTypes, Names
    <3>2. PassTypes' /\ status' = status
        BY <2>4, <3>1 DEF ReadMembers, Types, PassTypes
    <3>3. QED
        BY <1>1, <3>2 DEF Held, Live, group
  <2>5. QED
      BY <2>1, <2>2, <2>3, <2>4 DEF Auditor
<1>4. QED
    BY <1>2, <1>3, GoodKeeps

-----------------------------------------------------------------------------
(***************************************************************************)
(* What was read, and what the report is made of.                          *)
(***************************************************************************)
LEMMA NextFaithful ==
    ASSUME Group, Faithful, [Next]_vars
    PROVE  Faithful'
<1> USE DEF Group
<1>1. CASE Environment
    BY <1>1, GroupStep DEF Outside, Faithful, Live, StillSo
<1>2. CASE Begin
    BY <1>2 DEF Begin, Faithful, group, Live, Unasked
<1>3. CASE Audit \/ UNCHANGED vars
    BY <1>3 DEF Audit, vars, Faithful, group, Live, StillSo
<1>4. ASSUME NEW n \in Nodes, ReadStatus(n) PROVE Faithful'
  <2>1. PICK off \in FlagSets :
            status' = [status EXCEPT ![n] =
               [answer |-> "status", view |-> view[n], comment |-> state[n],
                ready |-> view[n].primary /\ state[n] = "Synced", off |-> off]]
      BY <1>4 DEF ReadStatus
  <2> DEFINE a == [answer |-> "status", view |-> view[n], comment |-> state[n],
                   ready |-> view[n].primary /\ state[n] = "Synced", off |-> off]
  <2>2. /\ a.view = view[n] /\ a.comment = state[n]
        /\ a.ready = (view[n].primary /\ state[n] = "Synced")
      OBVIOUS
  <2> HIDE DEF a
  <2>3. status'[n] = a /\ \A m \in Nodes : m # n => status'[m] = status[m]
      BY <2>1 DEF a, Types, PassTypes
  <2>4. /\ calm' = calm /\ members' = members /\ view' = view /\ state' = state
        /\ pc' = "read" /\ pc = "read" /\ status[n] = Unasked
      BY <1>4 DEF ReadStatus, group
  <2>5. n \notin Live /\ members[n] = {}
      BY <2>4 DEF Faithful, Live, Unasked
  <2>6. ASSUME NEW m \in Nodes \ Live' PROVE members'[m] = {}
    <3>1. a.answer = "status"
        BY DEF a
    <3>2. m # n /\ m \in Nodes \ Live
        BY <2>3, <2>6, <3>1 DEF Live
    <3>3. QED
        BY <2>4, <3>2 DEF Faithful
  <2>7. ASSUME calm', NEW m \in Live'
        PROVE  StillSo(m)'
    <3>1. CASE m = n
        BY <2>2, <2>3, <2>4, <2>5, <3>1 DEF StillSo
    <3>2. CASE m # n
      <4>1. m \in Live /\ status'[m] = status[m]
          BY <2>3, <2>7, <3>2 DEF Live
      <4>2. QED
          BY <2>4, <2>7, <4>1 DEF Faithful, StillSo
    <3>3. QED
        BY <3>1, <3>2
  <2>8. QED
      BY <2>4, <2>6, <2>7 DEF Faithful
<1>5. ASSUME NEW n \in Nodes, FailRead(n) PROVE Faithful'
  <2>1. status'[n].answer = "error" /\ \A m \in Nodes : m # n => status'[m] = status[m]
      BY <1>5 DEF FailRead, Types, PassTypes
  <2>2. /\ calm' = calm /\ members' = members /\ view' = view /\ state' = state
        /\ pc' = "read" /\ pc = "read" /\ status[n] = Unasked
      BY <1>5 DEF FailRead, group
  <2>3. n \notin Live /\ members[n] = {}
      BY <2>2 DEF Faithful, Live, Unasked
  <2>4. Live' = Live
      BY <2>1, <2>3 DEF Live
  <2>5. \A m \in Live : status'[m] = status[m]
      BY <2>1, <2>3 DEF Live
  <2>6. ASSUME NEW m \in Nodes \ Live' PROVE members'[m] = {}
      BY <2>2, <2>4 DEF Faithful
  <2>7. ASSUME calm', NEW m \in Live' PROVE StillSo(m)'
      BY <2>2, <2>4, <2>5, <2>7 DEF Faithful, StillSo
  <2>8. pc' # "idle"
      BY <2>2
  <2>9. QED
      BY <2>6, <2>7, <2>8 DEF Faithful
<1>6. ASSUME NEW n \in Nodes, ReadMembers(n) PROVE Faithful'
  <2>1. /\ members'[n] = {Own(s) : s \in view[n].members}
        /\ \A m \in Nodes : m # n => members'[m] = members[m]
      BY <1>6 DEF ReadMembers, Types, PassTypes
  <2>2. /\ calm' = calm /\ status' = status /\ view' = view /\ state' = state
        /\ pc' = "read" /\ pc = "read" /\ n \in Live
      BY <1>6 DEF ReadMembers, group, Live
  <2>3. Live' = Live
      BY <2>2 DEF Live
  <2>4. ASSUME NEW m \in Nodes \ Live' PROVE members'[m] = {}
      BY <2>1, <2>2, <2>3, <2>4 DEF Faithful
  <2>5. ASSUME calm', NEW m \in Live' PROVE StillSo(m)'
    <3>1. StillSo(m) /\ m \in Nodes
        BY <2>2, <2>3, <2>5 DEF Faithful, Live
    <3>2. members'[m] \in {members[m], {Own(s) : s \in view[m].members}}
        BY <2>1, <3>1
    <3>3. QED
        BY <2>2, <3>1, <3>2 DEF StillSo
  <2>6. pc' # "idle"
      BY <2>2
  <2>7. QED
      BY <2>4, <2>5, <2>6 DEF Faithful
<1>7. QED
    BY <1>1, <1>2, <1>3, <1>4, <1>5, <1>6 DEF Next, Auditor

LEMMA ReportStays ==
    ASSUME status' = status, members' = members, expect' = expect
    PROVE  Report' = Report
BY DEF Report, NodesRead, ClusterIdentity, Uuids, Primaries, MembershipSize, NodeState,
       MembershipView, Live, Distinct, Uuid, Conf, Size, Listed, Audited

LEMMA NextReported ==
    ASSUME Group, Reported, [Next]_vars
    PROVE  Reported'
<1>1. CASE Environment
    BY <1>1, GroupStep, ReportStays DEF Outside, Reported
<1>2. CASE UNCHANGED vars
    BY <1>2, ReportStays DEF Reported, vars
<1>3. CASE Audit
    BY <1>3, ReportStays DEF Reported, Audit
<1>4. CASE Auditor /\ ~Audit
    BY <1>4 DEF Reported, Auditor, Begin, ReadStatus, FailRead, ReadMembers
<1>5. QED
    BY <1>1, <1>2, <1>3, <1>4 DEF Next

LEMMA InitInv == Init => IInv
<1> SUFFICES ASSUME Init PROVE IInv
    OBVIOUS
<1> DEFINE v == FirstView(up)
<1>1. /\ up \subseteq Servers /\ agreed = [s \in Servers |-> v] /\ view = [n \in Nodes |-> v]
      /\ state = [n \in Nodes |-> "Synced"] /\ changes = 0
    BY DEF Init
<1>2. /\ expect \in Expects /\ pc = "idle" /\ status = [n \in Nodes |-> Unasked]
      /\ members = [n \in Nodes |-> {}] /\ findings = {} /\ calm = TRUE
    BY DEF Init
<1>3. /\ v \in View /\ v.uuid = 1 /\ v.members = up
    BY <1>1 DEF FirstView, View
<1> HIDE DEF v
<1>4. Live = {}
    BY <1>2 DEF Live, Unasked
<1>5. GroupTypes
    BY <1>1, <1>3, 0 \in 0..MaxChanges DEF GroupTypes, State
<1>6. PassTypes
    BY <1>2 DEF PassTypes, Statuses
<1>7. Whole /\ Fresh
    BY <1>1, <1>3 DEF Whole, Fresh
<1>8. Held \subseteq {v}
    BY <1>1, <1>4 DEF Held
<1>9. Ordered
    BY <1>1, <1>3, <1>8, PastItself DEF Ordered
<1>10. Unique
    BY <1>8 DEF Unique
<1>11. Faithful /\ Reported
    BY <1>2, <1>4 DEF Faithful, Reported
<1>12. QED
    BY <1>5, <1>6, <1>7, <1>9, <1>10, <1>11 DEF IInv, Types

(***************************************************************************)
(* The inductive invariant.                                                *)
(***************************************************************************)
LEMMA Invariant == Spec => []IInv
<1>1. IInv /\ [Next]_vars => IInv'
  <2> SUFFICES ASSUME IInv, [Next]_vars PROVE IInv'
      OBVIOUS
  <2>1. Group
      BY DEF IInv, Group
  <2>2. Group'
      BY <2>1, GroupStep, ReadStep DEF Next
  <2>3. Faithful' /\ Reported'
      BY <2>1, NextFaithful, NextReported DEF IInv
  <2>4. QED
      BY <2>2, <2>3 DEF IInv, Group
<1>2. QED
    BY InitInv, <1>1, PTL DEF Spec

-----------------------------------------------------------------------------
LEMMA FindingIs ==
    ASSUME NEW c, NEW t, NEW st
    PROVE  /\ Finding(c, t, st).check = c /\ Finding(c, t, st).target = t
           /\ Finding(c, t, st).status = st
BY DEF Finding

(***************************************************************************)
(* Type correctness: of every variable, and a target and a status in every *)
(* finding.                                                                *)
(***************************************************************************)
THEOREM TypeCorrect == Spec => []TypeOK
<1> DEFINE Proper(f) == f.target \in Nodes \cup {Cluster} /\ f.status \in Complaints \cup {"OK"}
<1>1. ASSUME IInv, NEW f \in Report PROVE Proper(f)
  <2> USE FindingIs
  <2>1. CASE f \in NodesRead
      BY <2>1 DEF NodesRead, Complaints
  <2>2. CASE f \in {Finding("cluster/membership", Cluster, "ERROR")}
      BY <2>2 DEF Complaints
  <2>3. CASE f \in ClusterIdentity
    <3>1. CASE f \in Primaries
        BY <3>1 DEF Primaries, Complaints, Live
    <3>2. CASE f \in {Finding("cluster/uuid", Cluster, "BAD"), Finding("cluster/conf-id", Cluster, "WARN")}
        BY <3>2 DEF Complaints
    <3>3. QED
        BY <2>3, <3>1, <3>2 DEF ClusterIdentity, Uuids
  <2>4. CASE f \in MembershipSize
      BY <2>4 DEF MembershipSize, Complaints
  <2>5. CASE f \in NodeState
    <3>1. CASE f \in {Finding("node/ready", n, "BAD") : n \in {m \in Live : ~status[m].ready}}
        BY <3>1 DEF Complaints, Live
    <3>2. ASSUME NEW n \in Live, NEW c \in status[n].off, f = Finding(c, n, FlagStatus(c))
          PROVE  Proper(f)
      <4>1. f.target = n /\ f.status = FlagStatus(c)
          BY <3>2
      <4>2. FlagStatus(c) \in Complaints /\ n \in Nodes
          BY DEF FlagStatus, Complaints, Live
      <4>3. QED
          BY <4>1, <4>2
    <3>3. ASSUME NEW n \in Live, f = Finding("node/state", n, StateComment(status[n].comment))
          PROVE  Proper(f)
      <4>1. StateComment(status[n].comment) \in Complaints \cup {"OK"} /\ n \in Nodes
          BY DEF StateComment, Complaints, Live
      <4>2. QED
          BY <3>3, <4>1
    <3>4. QED
        BY <2>5, <3>1, <3>2, <3>3 DEF NodeState
  <2>6. CASE f \in MembershipView
      BY <2>6 DEF MembershipView, Complaints
  <2>7. QED
      BY <2>1, <2>2, <2>3, <2>4, <2>5, <2>6 DEF Report
<1>2. IInv => TypeOK
  <2> SUFFICES ASSUME IInv PROVE TypeOK
      OBVIOUS
  <2>1. \A f \in findings : Proper(f)
      BY <1>1 DEF IInv, Reported
  <2>2. \A n \in Nodes : \/ status[n] \in {Unasked, [answer |-> "error"]}
                         \/ status[n] \in Answers
      BY DEF IInv, Types, PassTypes, Statuses
  <2>3. QED
      BY <2>1, <2>2 DEF TypeOK, IInv, Types, GroupTypes, PassTypes, Answers
<1>3. QED
    BY Invariant, <1>2, PTL

-----------------------------------------------------------------------------
(***************************************************************************)
(* Sets of values that the nodes report.                                   *)
(***************************************************************************)
LEMMA LiveFinite == IsFiniteSet(Live)
<1>1. Live \subseteq Servers
    BY DEF Live, Servers
<1>2. QED
    BY <1>1, FS_Subset

LEMMA DistinctFinite ==
    ASSUME NEW value
    PROVE  IsFiniteSet(Distinct(value))
<1> DEFINE f == [n \in Live |-> value[n]]
<1>1. f \in Surjection(Live, Distinct(value))
    BY DEF Surjection, Distinct
<1> HIDE DEF f
<1>2. QED
    BY <1>1, LiveFinite, FS_Surjection

LEMMA OneValue ==
    ASSUME NEW S, IsFiniteSet(S), S # {}, ~(Cardinality(S) > 1)
    PROVE  Cardinality(S) = 1 /\ \A x, y \in S : x = y
<1>1. Cardinality(S) \in Nat /\ Cardinality(S) # 0
    BY FS_CardinalityType, FS_EmptySet
<1>2. Cardinality(S) = 1
    BY <1>1
<1>3. PICK x : S = {x}
    BY <1>2, FS_Singleton
<1>4. QED
    BY <1>2, <1>3

LEMMA SubsetSmaller ==
    ASSUME NEW S \in SUBSET Servers, NEW s \in Servers, s \notin S
    PROVE  Cardinality(S) # Cardinality(Servers)
BY FS_Subset

\* Two sets, each of more than half of the servers, have one in common.
LEMMA HalvesMeet ==
    ASSUME NEW S \in SUBSET Servers, NEW T \in SUBSET Servers, Cardinality(S) = Cardinality(T),
           2 * Cardinality(S) > Cardinality(Servers)
    PROVE  S \cap T # {}
<1>1. /\ IsFiniteSet(S) /\ IsFiniteSet(T) /\ IsFiniteSet(S \cup T)
      /\ Cardinality(S \cup T) <= Cardinality(Servers)
      /\ Cardinality(S \cup T) \in Nat /\ Cardinality(S) \in Nat /\ Cardinality(Servers) \in Nat
    BY FS_Subset, FS_CardinalityType
<1>2. SUFFICES ASSUME S \cap T = {} PROVE FALSE
    OBVIOUS
<1>3. Cardinality(S \cup T) = Cardinality(S) + Cardinality(T) - Cardinality(S \cap T)
    BY <1>1, FS_Union
<1>4. Cardinality(S \cap T) = 0
    BY <1>2, FS_EmptySet
<1>5. QED
    BY <1>1, <1>3, <1>4

(***************************************************************************)
(* A report without a complaint means one group.                           *)
(***************************************************************************)
THEOREM CleanIsOneGroup == Spec => []CleanMeansOneGroup
<1>1. IInv => CleanMeansOneGroup
  <2> SUFFICES ASSUME IInv, pc = "end", ~Graded(Complaints), 2 * expect > Cardinality(Servers)
               PROVE  /\ Live = Nodes
                      /\ \E v \in {status[n].view : n \in Nodes} :
                            /\ v.primary
                            /\ Cardinality(v.members) = expect
                            /\ \A n \in Nodes : status[n].view = v
      BY DEF CleanMeansOneGroup
  <2>1. \A f \in Report : f.status \notin {"WARN", "BAD", "ERROR"}
      BY DEF IInv, Reported, Graded, Complaints
  <2>2. Live = Nodes
    <3>1. ASSUME NEW n \in Nodes \ Live PROVE FALSE
      <4>1. Finding("node/read", n, "ERROR") \in Report
          BY <3>1 DEF Report, NodesRead
      <4>2. QED
          BY <2>1, <4>1, FindingIs
    <3>2. QED
        BY <3>1 DEF Live
  <2>3. ClusterIdentity \subseteq Report /\ MembershipSize \subseteq Report
      BY <2>2 DEF Report
  <2>4. ASSUME NEW n \in Nodes PROVE status[n].view.primary
    <3>1. Finding("cluster/primary", n, "BAD") \notin Report
        BY <2>1, FindingIs
    <3>2. QED
        BY <2>2, <2>3, <3>1 DEF ClusterIdentity, Primaries
  <2>5. /\ Cardinality(Distinct(Uuid)) = 1
        /\ \A n, m \in Nodes : status[n].view.uuid = status[m].view.uuid
    <3>1. Finding("cluster/uuid", Cluster, "BAD") \notin Report
        BY <2>1, FindingIs
    <3>2. ~(Cardinality(Distinct(Uuid)) > 1)
        BY <2>3, <3>1 DEF ClusterIdentity, Uuids
    <3>3. Distinct(Uuid) # {} /\ \A n \in Nodes : status[n].view.uuid \in Distinct(Uuid)
        BY <2>2 DEF Distinct, Uuid
    <3>4. QED
        BY <3>2, <3>3, DistinctFinite, OneValue
  <2>6. \A n, m \in Nodes : status[n].view.conf = status[m].view.conf
    <3>1. Finding("cluster/conf-id", Cluster, "WARN") \notin Report
        BY <2>1, FindingIs
    <3>2. ~(Cardinality(Distinct(Conf)) > 1)
        BY <2>3, <2>5, <3>1 DEF ClusterIdentity
    <3>3. Distinct(Conf) # {} /\ \A n \in Nodes : status[n].view.conf \in Distinct(Conf)
        BY <2>2 DEF Distinct, Conf
    <3>4. QED
        BY <3>2, <3>3, DistinctFinite, OneValue
  <2>7. \A n \in Nodes : Cardinality(status[n].view.members) = expect
    <3>1. Finding("cluster/size", Cluster, "BAD") \notin Report
        BY <2>1, FindingIs
    <3>2. Distinct(Size) = {expect}
        BY <2>3, <3>1 DEF MembershipSize
    <3>3. \A n \in Nodes : Cardinality(status[n].view.members) \in Distinct(Size)
        BY <2>2 DEF Distinct, Size
    <3>4. QED
        BY <3>2, <3>3
  <2>8. ASSUME NEW n \in Nodes, NEW m \in Nodes PROVE status[n].view = status[m].view
    <3> DEFINE v == status[n].view
               w == status[m].view
    <3>1. v \in Held /\ w \in Held
        BY <2>2 DEF Held
    <3>2. v.members \subseteq Servers /\ w.members \subseteq Servers
        BY <3>1, HeldTypes, ViewIs DEF IInv
    <3>3. v.members \cap w.members # {}
        BY <2>7, <3>2, HalvesMeet
    <3>4. QED
        BY <2>4, <2>5, <2>6, <3>1, <3>3 DEF IInv, Unique
  <2>9. PICK n \in Nodes : TRUE
      OBVIOUS
  <2>10. QED
      BY <2>2, <2>4, <2>7, <2>8, <2>9
<1>2. QED
    BY Invariant, <1>1, PTL

(***************************************************************************)
(* A split is BAD.                                                         *)
(***************************************************************************)
THEOREM SplitIsBad == Spec => []SplitIsGraded
<1>1. IInv => SplitIsGraded
  <2> SUFFICES ASSUME IInv, pc = "end", calm, expect = Cardinality(Servers),
                      NEW n \in Live, NEW m \in Live, n \notin view[m].members
               PROVE  Graded({"BAD"})
      BY DEF SplitIsGraded
  <2>1. /\ status[m].view = view[m] /\ view[m].members \subseteq Servers /\ n \in Servers
      BY ViewIs DEF IInv, Faithful, StillSo, Types, GroupTypes, Live, Servers
  <2>2. Cardinality(view[m].members) # expect
      BY <2>1, SubsetSmaller
  <2>3. Cardinality(view[m].members) \in Distinct(Size)
      BY <2>1 DEF Distinct, Size
  <2>4. Finding("cluster/size", Cluster, "BAD") \in MembershipSize
      BY <2>2, <2>3 DEF MembershipSize
  <2>5. Finding("cluster/size", Cluster, "BAD") \in findings
      BY <2>4 DEF IInv, Reported, Report
  <2>6. QED
      BY <2>5, FindingIs DEF Graded
<1>2. QED
    BY Invariant, <1>1, PTL

(***************************************************************************)
(* A healthy group is left alone.                                          *)
(***************************************************************************)
THEOREM QuietIsQuiet == Spec => []QuietIsClean
<1>1. IInv => QuietIsClean
  <2> DEFINE Named == Finding("cluster/membership-view", Cluster, "WARN")
  <2> SUFFICES ASSUME IInv, pc = "end", calm, Live = Nodes,
                      \A n \in Nodes : state[n] = "Synced" /\ status[n].off = {} /\ view[n].primary,
                      \A n, m \in Nodes : view[n] = view[m] /\ m \in view[n].members,
                      \A n \in Nodes : Cardinality(view[n].members) = expect,
                      NEW f \in findings, f.status # "OK"
               PROVE  f = Named /\ Listed \ {Own(n) : n \in Nodes} # {}
      BY DEF QuietIsClean
  <2>1. /\ f \in Report /\ Live # {}
        /\ \A n \in Nodes : /\ status[n].view = view[n] /\ status[n].comment = "Synced"
                             /\ status[n].ready
                             /\ members[n] \in {{}, {Own(s) : s \in view[n].members}}
    <3>1. f \in Report /\ Live # {}
        BY DEF IInv, Reported
    <3>2. \A n \in Nodes : StillSo(n)
        BY DEF IInv, Faithful
    <3>3. QED
        BY <3>1, <3>2 DEF StillSo
  <2>2. PICK n \in Nodes : TRUE
      OBVIOUS
  <2>3. /\ Distinct(Uuid) = {view[n].uuid} /\ Distinct(Conf) = {view[n].conf}
        /\ Distinct(Size) = {expect}
    <3>1. \A m \in Nodes : status[m].view = view[n]
        BY <2>1
    <3>2. QED
        BY <2>1, <3>1 DEF Distinct, Uuid, Conf, Size
  <2>4. f \notin ClusterIdentity
    <3>1. Cardinality(Distinct(Uuid)) = 1 /\ Cardinality(Distinct(Conf)) = 1
        BY <2>3, FS_Singleton
    <3>2. QED
        BY <2>1, <3>1 DEF ClusterIdentity, Uuids, Primaries
  <2>5. f \notin MembershipSize
      BY <2>3, FindingIs DEF MembershipSize
  <2>6. f \notin NodeState
      BY <2>1, FindingIs DEF NodeState, StateComment
  <2>7. f \in MembershipView
      BY <2>1, <2>4, <2>5, <2>6 DEF Report, NodesRead
  <2>8. ASSUME NEW m \in Live, Listed # {} PROVE Addresses(m) \cap Listed # {}
    <3>1. PICK k \in Live : members[k] # {}
        BY <2>8 DEF Listed
    <3>2. Own(m) \in members[k]
        BY <2>1, <3>1
    <3>3. QED
        BY <3>1, <3>2 DEF Listed, Addresses
  <2>9. f = Named /\ Listed \ Audited # {}
      BY <2>7, <2>8 DEF MembershipView
  <2>10. {Own(m) : m \in Nodes} \subseteq Audited
      BY DEF Audited, Addresses
  <2>11. QED
      BY <2>9, <2>10
<1>2. QED
    BY Invariant, <1>1, PTL

(***************************************************************************)
(* A member that the run did not audit is named.                           *)
(***************************************************************************)
THEOREM UnauditedNamed == Spec => []UnauditedIsNamed
<1>1. IInv => UnauditedIsNamed
  <2> SUFFICES ASSUME IInv, pc = "end", calm, NEW n \in Live, members[n] # {},
                      NEW s \in view[n].members, s \notin Live
               PROVE  Finding("cluster/membership-view", Cluster, "WARN") \in findings
      BY DEF UnauditedIsNamed
  <2>1. members[n] = {Own(t) : t \in view[n].members}
      BY DEF IInv, Faithful, StillSo
  <2>2. Own(s) \in Listed
      BY <2>1 DEF Listed
  <2>3. ASSUME NEW m \in Live PROVE Own(s) \notin Addresses(m)
    <3>1. s # m
        OBVIOUS
    <3>2. QED
        BY <3>1 DEF Addresses, Own, Configured
  <2>4. Own(s) \notin Audited
      BY <2>3 DEF Audited
  <2>5. Finding("cluster/membership-view", Cluster, "WARN") \in MembershipView
      BY <2>2, <2>4 DEF MembershipView
  <2>6. QED
      BY <2>5 DEF IInv, Reported, Report
<1>2. QED
    BY Invariant, <1>1, PTL
=============================================================================
