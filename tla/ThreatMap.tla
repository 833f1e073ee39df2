------------------------------ MODULE ThreatMap ------------------------------
(***************************************************************************)
(* The threat map of CircuitAI (terrain/ThreatMap.cpp): a grid of cells,   *)
(* each holding THREAT_VAL_BASE plus the threat of every hostile enemy     *)
(* whose range covers it.  The engine's enemy events (EnemyEnterLOS,       *)
(* EnemyLeaveLOS, EnemyEnterRadar, EnemyLeaveRadar, EnemyDamaged,          *)
(* EnemyDestroyed) and the periodic Update move an enemy's contribution:  *)
(* every change of its position, range or threat is bracketed by          *)
(* DelEnemyUnit and AddEnemyUnit, and an enemy that is hidden (believed    *)
(* gone from its last position) or peaceful contributes nothing.          *)
(*                                                                         *)
(* Data: a cell is a pair <<x, z>> of a Width x Height grid, a position is *)
(* the cell it falls in, and threats are small integers, so that the      *)
(* float sums of the code are exact.  CEnemyUnit is outside the sources;  *)
(* its flags, position, range and threat are the variables below, and its *)
(* GetDPS is the type's DPS once the enemy has been seen in LOS, an       *)
(* estimate (UnknownDps) while it is only a radar blip.                   *)
(***************************************************************************)
EXTENDS Integers, FiniteSets, SequencesExt

CONSTANTS
  Width, Height,  \* the grid: terrain width and height / squareSize
  Enemies,        \* enemy units that appear in the game
  EnemyOrder,     \* the order Update visits hostileUnits (by unit id)
  DefDps,         \* the DPS of each enemy's type
  UnknownDps,     \* GetDPS of an enemy whose type is not known yet
  DpsCap,         \* the 2000.0f cap of GetEnemyUnitThreat
  Healths,        \* what GetUnit()->GetHealth() can return
  LosRange,       \* ((int)GetMaxRange() + SQUARE_SIZE * THREAT_RES * 2) / squareSize
  RadarRange,     \* (SQUARE_SIZE * THREAT_RES * 4) / squareSize
  LongRange       \* 2000 / squareSize

Base == 1   \* THREAT_VAL_BASE

ASSUME ThreatAssumptions ==
  /\ Width \in Nat \ {0} /\ Height \in Nat \ {0}
  /\ EnemyOrder \in Seq(Enemies) /\ Range(EnemyOrder) = Enemies
  /\ DefDps \in [Enemies -> Nat] /\ UnknownDps \in Nat \ {0}
  /\ DpsCap \in Nat /\ Healths \subseteq Int
  /\ LosRange \in [Enemies -> Nat] /\ RadarRange \in Nat /\ LongRange \in Nat

Cells == (0 .. Width - 1) \X (0 .. Height - 1)

MaxOf(a, b) == IF a >= b THEN a ELSE b
MinOf(a, b) == IF a <= b THEN a ELSE b

VARIABLES
  threatCells,   \* threatCells, indexed by cell
  currSumThreat, \* threat summed over all cells
  currMaxThreat, \* the largest threat seen by the last Update
  hostileUnits,  \* ids in hostileUnits
  peaceUnits,    \* ids in peaceUnits
  hidden,        \* CEnemyUnit::IsHidden
  inLOS,         \* CEnemyUnit::IsInLOS
  inRadar,       \* CEnemyUnit::IsInRadar
  known,         \* the enemy's type is known (it has been in LOS)
  pos,           \* CEnemyUnit::GetPos, the last known position
  range,         \* CEnemyUnit::GetRange
  threat,        \* CEnemyUnit::GetThreat
  alive,         \* engine: the unit exists
  upos,          \* engine: GetUnit()->GetPos(), where the unit really is
  losMap         \* engine: the cells in our line of sight

enemyVars == <<hidden, inLOS, inRadar, known, pos, range, threat>>
mapVars == <<threatCells, currSumThreat, currMaxThreat, hostileUnits, peaceUnits>>
engineVars == <<alive, upos, losMap>>
vars == <<mapVars, enemyVars, engineVars>>

TypeOK ==
  /\ threatCells \in [Cells -> Int]
  /\ currSumThreat \in Int /\ currMaxThreat \in Int
  /\ hostileUnits \subseteq Enemies /\ peaceUnits \subseteq Enemies
  /\ hidden \subseteq Enemies /\ inLOS \subseteq Enemies
  /\ inRadar \subseteq Enemies /\ known \subseteq Enemies
  /\ pos \in [Enemies -> Cells] /\ range \in [Enemies -> Nat]
  /\ threat \in [Enemies -> Nat]
  /\ alive \subseteq Enemies /\ upos \in [Enemies -> Cells]
  /\ losMap \subseteq Cells

\* The constructor: every cell at THREAT_VAL_BASE, no enemy known.
Init ==
  /\ threatCells = [c \in Cells |-> Base]
  /\ currSumThreat = 0 /\ currMaxThreat = 0
  /\ hostileUnits = {} /\ peaceUnits = {}
  /\ hidden = {} /\ inLOS = {} /\ inRadar = {} /\ known = {}
  /\ upos \in [Enemies -> Cells] /\ pos = upos
  /\ range = [e \in Enemies |-> 0] /\ threat = [e \in Enemies |-> 0]
  /\ alive = Enemies /\ losMap \in SUBSET Cells

-----------------------------------------------------------------------------
(***************************************************************************)
(* Cell arithmetic.                                                        *)
(***************************************************************************)
\* The cells AddEnemyUnit visits: the box [pos - range, pos + range]
\* clipped to the grid, and within it the disc dx^2 + dz^2 <= range^2.
Footprint(p, r) ==
  LET beginX == MaxOf(p[1] - r, 0)
      endX == MinOf(p[1] + r + 1, Width)
      beginZ == MaxOf(p[2] - r, 0)
      endZ == MinOf(p[2] + r + 1, Height)
  IN {c \in (beginX .. endX - 1) \X (beginZ .. endZ - 1) :
        (p[1] - c[1]) * (p[1] - c[1]) + (p[2] - c[2]) * (p[2] - c[2]) <= r * r}

\* Bug variant of AddAt (mutant): the sum is raised once per call
\* instead of once per covered cell.
AddAtSumOnce(m, p, r, t, scale) ==
  LET fp == Footprint(p, r)
  IN [cells |-> [c \in Cells |->
                   IF c \in fp THEN MaxOf(m.cells[c] + t * scale, Base)
                   ELSE m.cells[c]],
      sum |-> m.sum + t * scale]

\* AddEnemyUnit(e, scale) on a map m = [cells, sum]: every covered cell
\* gets threat * scale, floored at THREAT_VAL_BASE, and the sum gets
\* threat * scale per covered cell.  DelEnemyUnit is scale -1.
AddAt(m, p, r, t, scale) ==
  LET fp == Footprint(p, r)
  IN [cells |-> [c \in Cells |->
                   IF c \in fp THEN MaxOf(m.cells[c] + t * scale, Base)
                   ELSE m.cells[c]],
      sum |-> m.sum + t * scale * Cardinality(fp)]

\* Bug variant of EnemyUnitThreat (mutant): a negative health not floored.
EnemyUnitThreatNoFloor(r, d, h) ==
  IF r > LongRange THEN Base ELSE MinOf(d, DpsCap) * h

\* GetEnemyUnitThreat, for an enemy with range r, DPS d and health h.
EnemyUnitThreat(r, d, h) ==
  IF r > LongRange THEN Base ELSE MinOf(d, DpsCap) * MaxOf(h, 0)

\* CEnemyUnit::GetDPS
GetDPS(e) == IF e \in known THEN DefDps[e] ELSE UnknownDps

\* The threat map as a record, and the map with e added or removed.
Map == [cells |-> threatCells, sum |-> currSumThreat]
AddEnemyUnit(e, scale) == AddAt(Map, pos[e], range[e], threat[e], scale)

-----------------------------------------------------------------------------
(***************************************************************************)
(* Event handlers.  The guards on the engine side say when the engine     *)
(* raises the event; the rest is the handler.                              *)
(***************************************************************************)
\* EnemyEnterLOS.  A type that shows no DPS makes the enemy peaceful: a
\* threat predicted while it was a radar blip is taken off the map (unless
\* hidden, when it is off already) and the enemy leaves hostileUnits.
\* Otherwise the enemy is added (case 1), un-hidden (2) or taken off (3),
\* and put back with its LOS range and its threat from DPS and health.
EnemyEnterLOS(e) ==
  /\ e \in alive /\ e \notin inLOS
  /\ inLOS' = inLOS \cup {e}
  /\ known' = known \cup {e}
  /\ pos' = [pos EXCEPT ![e] = upos[e]]
  /\ \/ /\ DefDps[e] = 0
        /\ IF threat[e] > 0
             THEN LET m == IF e \notin hidden THEN AddEnemyUnit(e, -1) ELSE Map
                  IN /\ threatCells' = m.cells /\ currSumThreat' = m.sum
                     /\ threat' = [threat EXCEPT ![e] = 0]
                     /\ range' = [range EXCEPT ![e] = 0]
                     /\ hostileUnits' = hostileUnits \ {e}
             ELSE UNCHANGED <<threatCells, currSumThreat, threat, range, hostileUnits>>
        /\ peaceUnits' = peaceUnits \cup {e}
        /\ hidden' = hidden \ {e}
     \/ /\ DefDps[e] > 0
        /\ \E h \in Healths :
             LET m0 == IF e \in hostileUnits /\ e \notin hidden
                         THEN AddEnemyUnit(e, -1) ELSE Map
                 t == EnemyUnitThreat(LosRange[e], DefDps[e], h)
                 m == AddAt(m0, upos[e], LosRange[e], t, 1)
             IN /\ threatCells' = m.cells /\ currSumThreat' = m.sum
                /\ threat' = [threat EXCEPT ![e] = t]
        /\ range' = [range EXCEPT ![e] = LosRange[e]]
        /\ hidden' = IF e \in hostileUnits THEN hidden \ {e} ELSE hidden
        /\ hostileUnits' = hostileUnits \cup {e}
        /\ UNCHANGED peaceUnits
  /\ UNCHANGED <<currMaxThreat, inRadar, engineVars>>

\* EnemyLeaveLOS and EnemyLeaveRadar only clear the flag.
EnemyLeaveLOS(e) ==
  /\ e \in alive /\ e \in inLOS
  /\ inLOS' = inLOS \ {e}
  /\ UNCHANGED <<mapVars, hidden, inRadar, known, pos, range, threat, engineVars>>

EnemyLeaveRadar(e) ==
  /\ e \in alive /\ e \in inRadar
  /\ inRadar' = inRadar \ {e}
  /\ UNCHANGED <<mapVars, hidden, inLOS, known, pos, range, threat, engineVars>>

\* EnemyEnterRadar.  Nothing more while in LOS (case 3).  An enemy that
\* shows no DPS only gets its position (2).  Otherwise the blip is added
\* with its DPS as threat and the radar range (1), or un-hidden, or taken
\* off, and put back at its new position.
EnemyEnterRadar(e) ==
  /\ e \in alive /\ e \notin inRadar
  /\ inRadar' = inRadar \cup {e}
  /\ \/ /\ e \in inLOS
        /\ UNCHANGED <<mapVars, hidden, pos, range, threat>>
     \/ /\ e \notin inLOS /\ GetDPS(e) = 0
        /\ pos' = [pos EXCEPT ![e] = upos[e]]
        /\ hidden' = hidden \ {e}
        /\ UNCHANGED <<mapVars, range, threat>>
     \/ /\ e \notin inLOS /\ GetDPS(e) > 0
        /\ LET isNew == e \notin hostileUnits
               m0 == IF ~isNew /\ e \notin hidden THEN AddEnemyUnit(e, -1) ELSE Map
               r == IF isNew THEN RadarRange ELSE range[e]
               t == IF isNew THEN GetDPS(e) ELSE threat[e]
               m == AddAt(m0, upos[e], r, t, 1)
           IN /\ threatCells' = m.cells /\ currSumThreat' = m.sum
              /\ range' = [range EXCEPT ![e] = r]
              /\ threat' = [threat EXCEPT ![e] = t]
              /\ hidden' = IF isNew THEN hidden ELSE hidden \ {e}
        /\ pos' = [pos EXCEPT ![e] = upos[e]]
        /\ hostileUnits' = hostileUnits \cup {e}
        /\ UNCHANGED <<currMaxThreat, peaceUnits>>
  /\ UNCHANGED <<inLOS, known, engineVars>>

\* Bug variant of EnemyDamaged (mutant): the new threat is added without
\* taking the old one off.
EnemyDamagedNoDel(e) ==
  /\ e \in alive /\ e \in hostileUnits /\ e \in inLOS
  /\ \E h \in Healths :
       LET t == EnemyUnitThreat(range[e], GetDPS(e), h)
           m == AddAt(Map, pos[e], range[e], t, 1)
       IN /\ threatCells' = m.cells /\ currSumThreat' = m.sum
          /\ threat' = [threat EXCEPT ![e] = t]
  /\ UNCHANGED <<currMaxThreat, hostileUnits, peaceUnits, hidden, inLOS,
                 inRadar, known, pos, range, engineVars>>

\* EnemyDamaged: a hostile enemy in LOS is taken off and put back with the
\* threat of its new health; other enemies are ignored.
EnemyDamaged(e) ==
  /\ e \in alive /\ e \in hostileUnits /\ e \in inLOS
  /\ \E h \in Healths :
       LET t == EnemyUnitThreat(range[e], GetDPS(e), h)
           m == AddAt(AddEnemyUnit(e, -1), pos[e], range[e], t, 1)
       IN /\ threatCells' = m.cells /\ currSumThreat' = m.sum
          /\ threat' = [threat EXCEPT ![e] = t]
  /\ UNCHANGED <<currMaxThreat, hostileUnits, peaceUnits, hidden, inLOS,
                 inRadar, known, pos, range, engineVars>>

\* EnemyDestroyed, raised when a unit we see or have on radar dies: a
\* peaceful enemy is forgotten; a hostile one is taken off the map unless
\* hidden, and forgotten.
EnemyDestroyed(e) ==
  /\ e \in alive /\ e \in inLOS \cup inRadar
  /\ alive' = alive \ {e}
  /\ IF e \notin hostileUnits
       THEN /\ peaceUnits' = peaceUnits \ {e}
            /\ UNCHANGED <<threatCells, currSumThreat, hostileUnits>>
       ELSE LET m == IF e \notin hidden THEN AddEnemyUnit(e, -1) ELSE Map
            IN /\ threatCells' = m.cells /\ currSumThreat' = m.sum
               /\ hostileUnits' = hostileUnits \ {e}
               /\ UNCHANGED peaceUnits
  /\ UNCHANGED <<currMaxThreat, enemyVars, upos, losMap>>

(***************************************************************************)
(* Update, the periodic refresh.  It reads the LOS map afresh, then visits *)
(* hostileUnits in id order: a hidden enemy is skipped; any other is taken *)
(* off the map; an enemy neither in radar nor in LOS whose last position   *)
(* we now see is not there any more and becomes hidden; any other gets its *)
(* current position (if seen) or a decayed threat (if not), a fresh        *)
(* threat in LOS, and is put back.  Peaceful enemies get the same hiding  *)
(* and position updates.  The state of the loop is a record st.           *)
(***************************************************************************)
\* Bug variant of IsLost (mutant): the LOS test inverted.
IsLostInverted(e, p) == e \notin inLOS /\ e \notin inRadar /\ p \notin losMap

\* NotInRadarAndLOS() && IsInLOS(GetPos())
IsLost(e, p) == e \notin inLOS /\ e \notin inRadar /\ p \in losMap

\* DecayThreat(0.99f): the float product stays in (0, t]; threats are
\* coarse levels here, so the decayed level is any level in 1 .. t.
Decayed(t) == IF t = 0 THEN {0} ELSE 1 .. t

UpdateHostile(st, e, h, d) ==
  IF e \notin hostileUnits \/ e \in st.hidden THEN st
  ELSE LET m1 == AddAt(st.m, st.pos[e], range[e], st.threat[e], -1)
       IN IF IsLost(e, st.pos[e])
            THEN [st EXCEPT !.m = m1, !.hidden = @ \cup {e}]
            ELSE LET seen == e \in inLOS \cup inRadar
                     p == IF seen THEN upos[e] ELSE st.pos[e]
                     t == IF e \in inLOS THEN EnemyUnitThreat(range[e], GetDPS(e), h)
                          ELSE IF seen THEN st.threat[e] ELSE d
                 IN [st EXCEPT !.m = AddAt(m1, p, range[e], t, 1),
                               !.max = MaxOf(@, t),
                               !.pos[e] = p, !.threat[e] = t]

UpdatePeace(st, e) ==
  IF e \notin peaceUnits \/ e \in st.hidden THEN st
  ELSE IF IsLost(e, st.pos[e]) THEN [st EXCEPT !.hidden = @ \cup {e}]
  ELSE IF e \in inLOS \cup inRadar THEN [st EXCEPT !.pos[e] = upos[e]]
  ELSE st

Update ==
  \E h \in [Enemies -> Healths] :
  \E d \in {f \in [Enemies -> UNION {Decayed(threat[x]) : x \in Enemies}] :
              \A e \in Enemies : f[e] \in Decayed(threat[e])} :
    LET st0 == [m |-> Map, max |-> 0, hidden |-> hidden, pos |-> pos, threat |-> threat]
        st1 == FoldLeft(LAMBDA st, e : UpdateHostile(st, e, h[e], d[e]), st0, EnemyOrder)
        st2 == FoldLeft(LAMBDA st, e : UpdatePeace(st, e), st1, EnemyOrder)
    IN /\ threatCells' = st2.m.cells /\ currSumThreat' = st2.m.sum
       /\ currMaxThreat' = st2.max
       /\ hidden' = st2.hidden /\ pos' = st2.pos /\ threat' = st2.threat
       /\ UNCHANGED <<hostileUnits, peaceUnits, inLOS, inRadar, known, range,
                      engineVars>>

(***************************************************************************)
(* The engine: units move, die unseen (no event is raised for a unit out  *)
(* of LOS and radar), and our line of sight changes.                      *)
(***************************************************************************)
EnemyMoves(e) ==
  /\ e \in alive
  /\ \E c \in Cells : upos' = [upos EXCEPT ![e] = c]
  /\ UNCHANGED <<mapVars, enemyVars, alive, losMap>>

EnemyDiesUnseen(e) ==
  /\ e \in alive /\ e \notin inLOS \cup inRadar
  /\ alive' = alive \ {e}
  /\ UNCHANGED <<mapVars, enemyVars, upos, losMap>>

LosChange ==
  /\ \E l \in SUBSET Cells : losMap' = l
  /\ UNCHANGED <<mapVars, enemyVars, alive, upos>>

Next ==
  \/ Update
  \/ LosChange
  \/ \E e \in Enemies :
       \/ EnemyEnterLOS(e) \/ EnemyLeaveLOS(e)
       \/ EnemyEnterRadar(e) \/ EnemyLeaveRadar(e)
       \/ EnemyDamaged(e) \/ EnemyDestroyed(e)
       \/ EnemyMoves(e) \/ EnemyDiesUnseen(e)

\* Update runs from the AI's periodic job, so it is weakly fair.
Spec == Init /\ [][Next]_vars /\ WF_vars(Update)

-----------------------------------------------------------------------------
(***************************************************************************)
(* Properties.                                                             *)
(***************************************************************************)
\* Enemies whose threat the map should carry.
OnMap == hostileUnits \ hidden

\* Every cell holds THREAT_VAL_BASE plus the threat of each hostile,
\* not hidden enemy whose range covers it, at the position and range the
\* enemy has now: no handler moves an enemy's threat without taking the old
\* one off first, none takes it off twice, and peaceful or hidden enemies
\* leave no residue.
ThreatAccounting ==
  \A c \in Cells :
    threatCells[c] =
      Base + MapThenSumSet(LAMBDA e : threat[e],
                           {e \in OnMap : c \in Footprint(pos[e], range[e])})

\* currSumThreat, the numerator of currAvgThreat, is the threat summed
\* over the cells the enemies on the map cover.
SumAccounting ==
  currSumThreat =
    MapThenSumSet(LAMBDA e : threat[e] * Cardinality(Footprint(pos[e], range[e])), OnMap)

\* A dead enemy's threat, left on the map because it died out of sight,
\* is taken off by Update once our LOS covers its last position (unless
\* the LOS has moved away again first).
PhantomCleared ==
  \A e \in Enemies :
    (e \notin alive /\ e \in OnMap /\ pos[e] \in losMap)
      ~> (e \notin OnMap \/ pos[e] \notin losMap)
=============================================================================
