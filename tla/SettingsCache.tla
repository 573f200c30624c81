---------------------------- MODULE SettingsCache ----------------------------
(***************************************************************************)
(* A setting that is kept in the database (conf/settings.py). Processes    *)
(* read it through a memory of their own and through the redis of their    *)
(* node; whoever changes it removes it from the redis, within the          *)
(* transaction that changes it (conf/signals.py), and, once that is        *)
(* committed, from the redis of every node (clear_setting_cache). Time is  *)
(* counted in multiples of SETTING_MEMORY_TTL.                             *)
(***************************************************************************)
EXTENDS Naturals, FiniteSets

CONSTANTS
  Readers,     \* processes
  Site,        \* the node of a process
  CacheTTL,    \* SETTING_CACHE_TIMEOUT
  MemoryTTL,   \* SETTING_MEMORY_TTL
  MaxHeld,     \* bound: how long a process has a value that it has read and not yet put
  MaxChanges   \* bound: transactions that change the setting

Sites == {Site[p] : p \in Readers}

ASSUME SettingAssumption ==
  /\ DOMAIN Site = Readers /\ CacheTTL \in Nat \ {0} /\ MemoryTTL \in Nat \ {0}
  /\ MaxHeld \in Nat /\ MaxChanges \in Nat

VARIABLES
  stored,   \* the committed value; 0 is the default, and each change has a new value
  change,   \* the transaction that changes it: whose, and whether it has written
  shared,   \* the value in the redis of a node, or none
  memory,   \* the value in the memory of a process, or none
  reading,  \* of each process: where it is in _get_local
  clears,   \* nodes where clear_setting_cache is still to run
  missing,  \* nodes that have missed one
  changes,
  since     \* time since the last commit or rollback, as far as it matters

settingVars == <<stored, change, shared, memory, reading, clears, missing, changes, since>>

None == [value |-> 0, left |-> 0, odd |-> FALSE]
Idle0 == [at |-> "off", value |-> 0, held |-> 0]
NoChange == [by |-> {}, value |-> 0]
Settled == MaxHeld + CacheTTL + MemoryTTL + 1

SettingInit ==
  /\ stored = 0 /\ change = NoChange /\ changes = 0 /\ since = 0
  /\ shared = [n \in Sites |-> None] /\ memory = [p \in Readers |-> None]
  /\ reading = [p \in Readers |-> Idle0] /\ clears = {} /\ missing = {}

Seen(p) == IF p \in change.by THEN change.value ELSE stored

-----------------------------------------------------------------------------
(* Reading.                                                                 *)

\* What a process finds in its memory it has for the rest of the entry's time; what
\* it finds in the redis it keeps in its memory.
Kept_renewing(p) == shared' = [shared EXCEPT ![Site[p]].left = CacheTTL]
Kept(p) == UNCHANGED shared

LookUp(p) ==
  /\ reading[p].at = "off" /\ memory[p].left = 0
  /\ IF shared[Site[p]].left > 0
       THEN /\ memory' = [memory EXCEPT ![p] = [shared[Site[p]] EXCEPT !.left = MemoryTTL]]
            /\ Kept(p) /\ UNCHANGED reading
       ELSE /\ reading' = [reading EXCEPT ![p].at = "fetch"]
            /\ UNCHANGED <<memory, shared>>
  /\ UNCHANGED <<stored, change, clears, missing, changes, since>>

\* A request begins with an empty memory (middleware.py).
BeginRequest(p) ==
  /\ reading[p].at = "off" /\ memory[p].left > 0
  /\ memory' = [memory EXCEPT ![p] = None]
  /\ UNCHANGED <<stored, change, shared, reading, clears, missing, changes, since>>

\* _preload_cache, when the timers of the process and of its redis are over, reads
\* whatever the redis holds.
Preload(p) ==
  /\ reading[p].at = "off" /\ memory[p].left = 0
  /\ reading' = [reading EXCEPT ![p].at = "fetch"]
  /\ UNCHANGED <<stored, change, shared, memory, clears, missing, changes, since>>

Fetch(p) ==
  /\ reading[p].at = "fetch"
  /\ reading' = [reading EXCEPT ![p] = [at |-> "put", value |-> Seen(p), held |-> 0]]
  /\ UNCHANGED <<stored, change, shared, memory, clears, missing, changes, since>>

Put(p) ==
  LET entry == [value |-> reading[p].value, left |-> CacheTTL, odd |-> reading[p].value # stored]
  IN /\ reading[p].at = "put"
     /\ shared' = [shared EXCEPT ![Site[p]] = entry]
     /\ memory' = [memory EXCEPT ![p] = [entry EXCEPT !.left = MemoryTTL]]
     /\ reading' = [reading EXCEPT ![p] = Idle0]
     /\ UNCHANGED <<stored, change, clears, missing, changes, since>>

-----------------------------------------------------------------------------
(* Changing.                                                                *)

\* The row is saved, and handle_setting_change empties the redis and the memory and
\* then reads the new value, while nobody else sees it.
Write(p) ==
  /\ change.by = {} /\ reading[p].at = "off" /\ changes < MaxChanges
  /\ changes' = changes + 1 /\ change' = [by |-> {p}, value |-> changes + 1]
  /\ shared' = [shared EXCEPT ![Site[p]] = None]
  /\ memory' = [memory EXCEPT ![p] = None]
  /\ reading' = [reading EXCEPT ![p].at = "fetch"]
  /\ UNCHANGED <<stored, clears, missing, since>>

Commit(p) ==
  /\ p \in change.by /\ reading[p].at = "off"
  /\ stored' = change.value /\ change' = NoChange
  /\ clears' = Sites /\ missing' = {} /\ since' = 0
  /\ UNCHANGED <<shared, memory, reading, changes>>

RollBack(p) ==
  /\ p \in change.by
  /\ change' = NoChange /\ since' = 0
  /\ reading' = [reading EXCEPT ![p] = Idle0]
  /\ UNCHANGED <<stored, shared, memory, clears, missing, changes>>

Emptied_not(n) == shared[n]
Emptied(n) == None

Clear(n) ==
  /\ n \in clears /\ clears' = clears \ {n}
  /\ shared' = [shared EXCEPT ![n] = Emptied(n)]
  /\ UNCHANGED <<stored, change, memory, reading, missing, changes, since>>

MissClear(n) ==
  /\ n \in clears /\ clears' = clears \ {n} /\ missing' = missing \cup {n}
  /\ UNCHANGED <<stored, change, shared, memory, reading, changes, since>>

-----------------------------------------------------------------------------
Aged(entry) == IF entry.left > 1 THEN [entry EXCEPT !.left = @ - 1] ELSE None

TimeGoesBy ==
  /\ \A p \in Readers : reading[p].at = "put" => reading[p].held < MaxHeld
  /\ shared' = [n \in Sites |-> Aged(shared[n])]
  /\ memory' = [p \in Readers |-> Aged(memory[p])]
  /\ reading' = [p \in Readers |->
                   IF reading[p].at = "put" THEN [reading[p] EXCEPT !.held = @ + 1] ELSE reading[p]]
  /\ since' = IF since < Settled THEN since + 1 ELSE since
  /\ UNCHANGED <<stored, change, clears, missing, changes>>

SettingNext ==
  \/ \E p \in Readers : \/ LookUp(p) \/ BeginRequest(p) \/ Preload(p) \/ Fetch(p)
                        \/ Put(p) \/ Write(p) \/ Commit(p) \/ RollBack(p)
  \/ \E n \in Sites : Clear(n) \/ MissClear(n)
  \/ TimeGoesBy

SettingSpec == SettingInit /\ [][SettingNext]_settingVars

-----------------------------------------------------------------------------
(* Properties.                                                              *)

SettingTypeOK ==
  /\ stored \in 0 .. MaxChanges /\ changes \in 0 .. MaxChanges /\ since \in 0 .. Settled
  /\ \A n \in Sites : shared[n].left \in 0 .. CacheTTL
  /\ \A p \in Readers : /\ memory[p].left \in 0 .. MemoryTTL
                        /\ reading[p].at \in {"off", "fetch", "put"}
  /\ clears \subseteq Sites /\ missing \subseteq Sites

\* However slowly a reader put it into the redis, and though another process took it
\* from there at the last moment.
StaleForAWhile ==
  since = Settled /\ change.by = {} =>
    /\ \A n \in Sites : shared[n].left > 0 => shared[n].value = stored
    /\ \A p \in Readers : memory[p].left > 0 => memory[p].value = stored

ClearedForGood ==
  \A n \in Sites \ (clears \cup missing) :
    shared[n].left > 0 /\ ~shared[n].odd => shared[n].value = stored

(* Whatever is read while a change is made, rolled back or announced in vain, no
   value but the committed one outlives the two timeouts; and where
   clear_setting_cache has run, the redis has another value only if it was outdated,
   or not yet committed, when it was put there (conf/settings.py 391-393 and 421-428;
   conf/signals.py 20-36; conf/views.py 121-122; system.py 295-305). *)
SettingsFresh == StaleForAWhile /\ ClearedForGood
=============================================================================
