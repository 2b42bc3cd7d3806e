------------------------------ MODULE Settings ------------------------------
(***************************************************************************)
(* Settings, feature flags and aliases, and the copies that the API and    *)
(* the worker keep of them.  A setting is a key with numbered versions of  *)
(* which one is active; a flag and an alias are rows that are overwritten. *)
(* A copy is loaded by several statements, each of which sees the tables   *)
(* of its own moment, and is served until it is older than its TTL; only   *)
(* the API drops its copies when it changes something, and a load that is  *)
(* on its way then stores what it has read.                                *)
(***************************************************************************)
EXTENDS Naturals, Sequences, FiniteSets

CONSTANTS
    Admins,       \* requests that change settings
    Copies,       \* of "apiSettings", "apiTaxonomy", "workerSettings", "workerTaxonomy"
    Ttl,          \* copy -> how long it is served
    LoadTime,     \* what a load may take: the statement timeout
    Loaders,      \* loads of a copy at a time: they are not joined
    MaxTime, MaxEdits, MaxSettingFaults, MaxEvents   \* bounds

ASSUME SettingsAssumption ==
    /\ Copies \subseteq {"apiSettings", "apiTaxonomy", "workerSettings", "workerTaxonomy"}
    /\ Ttl \in [Copies -> Nat \ {0}]
    /\ {LoadTime, MaxTime, MaxEdits, MaxSettingFaults, MaxEvents} \subseteq Nat

VARIABLES
    versions,   \* the versions of the setting: is it active?
    plain,      \* the rows that are overwritten
    edit,       \* admin -> how far the change of the setting is, from which version
    copy,       \* copy -> when it was stored, and what
    load,       \* copy, loader -> when it began, and what it has read
    tick,       \* Date.now()
    lastIn,     \* history: key -> value -> when it was last in force
    edits, settingFaults

tableVars == <<versions, plain>>
copyVars == <<copy, load>>
settingsVars == <<versions, plain, edit, copy, load, tick, lastIn, edits, settingFaults>>

Plain == {"flag", "aliases"}
Api == {"apiSettings", "apiTaxonomy"} \cap Copies

(* What a copy holds: matching.thresholds and its like, and the flags; the  *)
(* aliases and taxonomy.version, a setting.                                *)
Keys(c) == {"setting", IF c \in {"apiSettings", "workerSettings"} THEN "flag" ELSE "aliases"}

NotEditing == [at |-> "idle", from |-> 0]
Empty == [at |-> 0, got |-> <<>>]      \* nothing is stored at 0
NotLoading == [began |-> 0, got |-> <<>>]

SettingsInit ==
    /\ versions = <<TRUE>> /\ plain = [k \in Plain |-> 1]
    /\ edit = [a \in Admins |-> NotEditing]
    /\ copy = [c \in Copies |-> Empty]
    /\ load = [c \in Copies |-> [i \in Loaders |-> NotLoading]]
    /\ tick = 1
    /\ lastIn = [k \in Plain \cup {"setting"} |-> [v \in {1} |-> 1]]
    /\ edits = 0 /\ settingFaults = 0

(* The active version, or 0: the defaults of the code.                     *)
ActiveVersion(vs) ==
    IF \E v \in DOMAIN vs : vs[v] THEN CHOOSE v \in DOMAIN vs : vs[v] ELSE 0

InForce(k) == IF k = "setting" THEN ActiveVersion(versions) ELSE plain[k]

(* The history: v is in force of k from now on.                            *)
Comes(k, v) ==
    lastIn' = [lastIn EXCEPT ![k] =
                  [w \in DOMAIN @ \cup {v} |-> IF w = v THEN tick ELSE @[w]]]

(* Bound: the more is changed or fails, the shorter the history.            *)
Room == tick + edits + settingFaults < MaxEvents

SettingFault == settingFaults < MaxSettingFaults /\ Room /\ settingFaults' = settingFaults + 1

-----------------------------------------------------------------------------
(* PUT /settings/:key                                                      *)

(* The active version is read; a critical setting also wants an admin and  *)
(* a golden evaluation that has passed within fourteen days, or nothing    *)
(* happens.                                                                *)
ReadActive(a) ==
    /\ edit[a].at = "idle" /\ edits < MaxEdits /\ Room /\ edits' = edits + 1
    /\ ActiveVersion(versions) # 0        \* else UNKNOWN_SETTING
    /\ edit' = [edit EXCEPT ![a] = [at |-> "deactivate", from |-> ActiveVersion(versions)]]
    /\ UNCHANGED <<tableVars, copyVars, tick, lastIn, settingFaults>>

Deactivate(a) ==
    /\ edit[a].at = "deactivate"
    /\ edit' = [edit EXCEPT ![a].at = "insert"]
    /\ versions' = [v \in DOMAIN versions |-> FALSE]
    /\ Comes("setting", 0)
    /\ UNCHANGED <<plain, copyVars, tick, edits, settingFaults>>

(* (key, version) is the key of the table: whoever has read the same       *)
(* version gets an error, after its own UPDATE has taken the other's away. *)
InsertVersion(a) ==
    /\ edit[a].at = "insert"
    /\ edit' = [edit EXCEPT ![a] = NotEditing]
    /\ IF Len(versions) = edit[a].from /\ ActiveVersion(versions) = 0
       THEN /\ versions' = Append(versions, TRUE)
            /\ Comes("setting", Len(versions) + 1)
            /\ copy' = [c \in Copies |-> IF c = "apiSettings" THEN Empty ELSE copy[c]]
       ELSE UNCHANGED <<versions, copy, lastIn>>
    /\ UNCHANGED <<plain, load, tick, edits, settingFaults>>

(* A statement fails, or the API stops, between the two.                   *)
EditFails(a) ==
    /\ edit[a].at # "idle" /\ SettingFault
    /\ edit' = [edit EXCEPT ![a] = NotEditing]
    /\ UNCHANGED <<tableVars, copyVars, tick, lastIn, edits>>

-----------------------------------------------------------------------------
(* PUT /feature-flags/:key; POST and DELETE of aliases, negative aliases   *)
Overwrite(k) ==
    /\ edits < MaxEdits /\ Room /\ edits' = edits + 1
    /\ plain' = [plain EXCEPT ![k] = @ + 1]
    /\ Comes(k, plain[k] + 1)
    /\ copy' = [c \in Copies |-> IF c \in Api /\ k \in Keys(c) THEN Empty ELSE copy[c]]
    /\ UNCHANGED <<versions, edit, load, tick, settingFaults>>

-----------------------------------------------------------------------------
(* loadSettings, loadTaxonomy; getSettings, getTaxonomy                    *)

(* Mutant: a copy is served until it is dropped.                           *)
ServedUntilDropped(c) == copy[c] # Empty

InTime(c) == copy[c] # Empty /\ tick - copy[c].at < Ttl[c]

(* Whoever finds no fresh copy loads one, also while others do.            *)
BeginLoad(c, i) ==
    /\ ~InTime(c) /\ load[c][i] = NotLoading
    /\ load' = [load EXCEPT ![c][i].began = tick]
    /\ UNCHANGED <<tableVars, edit, copy, tick, lastIn, edits, settingFaults>>

(* One statement.  The API's settings are read before its flags; the        *)
(* version of the taxonomy it takes from its copy of the settings.         *)
ReadKey(c, i, k) ==
    /\ load[c][i].began # 0 /\ k \notin DOMAIN load[c][i].got
    /\ c = "apiSettings" /\ k = "flag" => "setting" \in DOMAIN load[c][i].got
    /\ LET byCopy == c = "apiTaxonomy" /\ k = "setting" /\ "apiSettings" \in Copies
           v == IF byCopy THEN copy["apiSettings"].got[k] ELSE InForce(k)
       IN /\ byCopy => InTime("apiSettings")
          /\ load' = [load EXCEPT ![c][i].got =
                         [x \in DOMAIN @ \cup {k} |-> IF x = k THEN v ELSE @[x]]]
    /\ UNCHANGED <<tableVars, edit, copy, tick, lastIn, edits, settingFaults>>

(* The age of a copy counts from here, not from when it was read.          *)
StoreCopy(c, i) ==
    /\ load[c][i].began # 0 /\ DOMAIN load[c][i].got = Keys(c)
    /\ copy' = [copy EXCEPT ![c] = [at |-> tick, got |-> load[c][i].got]]
    /\ load' = [load EXCEPT ![c][i] = NotLoading]
    /\ UNCHANGED <<tableVars, edit, tick, lastIn, edits, settingFaults>>

LoadFails(c, i) ==
    /\ load[c][i].began # 0 /\ SettingFault
    /\ load' = [load EXCEPT ![c][i] = NotLoading]
    /\ UNCHANGED <<tableVars, edit, copy, tick, lastIn, edits>>

(* Time passes, while no load is at its timeout; what is in force stays so. *)
TimePasses ==
    /\ tick < MaxTime /\ Room /\ tick' = tick + 1
    /\ \A c \in Copies, i \in Loaders :
          load[c][i].began # 0 => tick - load[c][i].began < LoadTime
    /\ lastIn' = [k \in DOMAIN lastIn |->
                     [lastIn[k] EXCEPT ![InForce(k)] = tick + 1]]
    /\ UNCHANGED <<tableVars, edit, copyVars, edits, settingFaults>>

SettingsNext ==
    \/ \E a \in Admins : ReadActive(a) \/ Deactivate(a) \/ InsertVersion(a) \/ EditFails(a)
    \/ \E k \in Plain : Overwrite(k)
    \/ \E c \in Copies, i \in Loaders :
         \/ BeginLoad(c, i) \/ StoreCopy(c, i) \/ LoadFails(c, i)
         \/ \E k \in Keys(c) : ReadKey(c, i, k)
    \/ TimePasses

SettingsSpec == SettingsInit /\ [][SettingsNext]_settingsVars

-----------------------------------------------------------------------------
SettingsTypeOK ==
    /\ Cardinality({v \in DOMAIN versions : versions[v]}) <= 1
    /\ plain \in [Plain -> Nat \ {0}]
    /\ \A a \in Admins : edit[a] \in [at : {"idle", "deactivate", "insert"}, from : Nat]
    /\ \A c \in Copies : copy[c] # Empty => DOMAIN copy[c].got = Keys(c)
    /\ \A c \in Copies, i \in Loaders : DOMAIN load[c][i].got \subseteq Keys(c)

(* How old what a copy serves can be: its TTL, the load that made it, and  *)
(* for the taxonomy's version the same of the settings it was taken from.  *)
Lag(c, k) ==
    Ttl[c] - 1 + LoadTime
      + IF c = "apiTaxonomy" /\ k = "setting" /\ "apiSettings" \in Copies
        THEN Ttl["apiSettings"] - 1 + LoadTime ELSE 0

(* A change reaches every process: what the API or the worker works by was *)
(* in force not longer ago than the TTLs and loads allow, whatever changes, *)
(* overlapping loads, late stores and failures there have been.            *)
ServedWasInForce ==
    \A c \in Copies :
        InTime(c) => \A k \in Keys(c) : tick - lastIn[k][copy[c].got[k]] <= Lag(c, k)
=============================================================================
