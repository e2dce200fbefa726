------------------------- MODULE CapabilitySettings -------------------------
(***************************************************************************)
(* The installation's capabilities, which administrators switch on and off *)
(* from the settings page: the provider that shows a switch at once and    *)
(* takes it back when the server refuses it                                *)
(* (experience-profile-context.tsx), its cache in localStorage, and the    *)
(* service that compares versions (CapabilitySettingsService::update).     *)
(*                                                                         *)
(* A value is the number of the write that made it.  The experience        *)
(* settings that the provider keeps beside the capabilities have no        *)
(* versions to compare and are left out, and so is signing out.            *)
(***************************************************************************)
EXTENDS Naturals

CONSTANTS
    Admins,                     \* administrators, each in one tab
    Capabilities,               \* the keys
    MaxWrites, MaxFetches       \* bounds: switches, loads of the capabilities

ASSUME CapabilityAssumption == MaxWrites \in Nat /\ MaxFetches \in Nat

VARIABLES
    setting,    \* capability_settings: the stored value and version of each key
    screen,     \* capabilities, as the provider holds them
    ready,      \* status = "ready": the load has answered
    cache,      \* what localStorage holds, if anything
    load,       \* the answer of the load under way, if any
    write,      \* the write under way of each row; a saving row is disabled
    writes, fetches,
    told,       \* every value and version that the server has told a tab
    replaced,   \* what each accepted write has replaced
    raced       \* two transactions on a key have overlapped

capabilityVars == <<setting, screen, ready, cache, load, write, writes, fetches, told, replaced, raced>>
tabVars == <<screen, ready, cache, load>>
ghostVars == <<told, replaced, raced>>

Entries == [value : 0..MaxWrites, version : 0..MaxWrites]
Tables == [Capabilities -> Entries]

\* DEFAULT_CAPABILITIES, which is what the server has before anyone writes.
Default == [k \in Capabilities |-> [value |-> 0, version |-> 0]]

\* A row in the table of pending writes: the provider's state before it, and
\* the request: the version expected, the one the transaction found, the answer.
\* left: the page has been left since, and nobody hears the answer.
NoWrite == [stage |-> "none", value |-> 0, expected |-> 0, found |-> 0,
            previous |-> Default, answer |-> Default, left |-> FALSE]
Writes == [stage : {"none", "sent", "checked", "written", "ok", "conflict", "failed"},
           value : 0..MaxWrites, expected : 0..MaxWrites, found : 0..MaxWrites,
           previous : Tables, answer : Tables, left : BOOLEAN]

Facts(table) == {<<k, table[k]>> : k \in Capabilities}

CapabilityInit ==
    /\ setting = Default
    /\ screen = [a \in Admins |-> Default]
    /\ ready = [a \in Admins |-> FALSE]
    /\ cache = [a \in Admins |-> {}]
    /\ load = [a \in Admins |-> {}]
    /\ write = [a \in Admins |-> [k \in Capabilities |-> NoWrite]]
    /\ writes = 0 /\ fetches = 0
    /\ told = [a \in Admins |-> {}]
    /\ replaced = {} /\ raced = FALSE

-----------------------------------------------------------------------------
(* The provider.                                                           *)

\* Every render of a ready provider writes what it shows to the cache.
Cached(a, table, isReady) == IF isReady THEN {table} ELSE cache[a]

Show(a, table, isReady) ==
    /\ screen' = [screen EXCEPT ![a] = table]
    /\ ready' = [ready EXCEPT ![a] = isReady]
    /\ cache' = [cache EXCEPT ![a] = Cached(a, table, isReady)]

Tell(a, table) == told' = [told EXCEPT ![a] = @ \cup Facts(table)]

\* The server answers the load the provider starts when it mounts and at
\* every new access token.
StartLoad(a) ==
    /\ load[a] = {} /\ fetches < MaxFetches
    /\ fetches' = fetches + 1
    /\ load' = [load EXCEPT ![a] = {setting}]
    /\ Show(a, screen[a], FALSE)
    /\ UNCHANGED <<setting, write, writes, ghostVars>>

Loaded(a) ==
    \E table \in load[a] :
        /\ load' = [load EXCEPT ![a] = {}]
        /\ Show(a, table, TRUE)
        /\ Tell(a, table)
        /\ UNCHANGED <<setting, write, writes, fetches, replaced, raced>>

\* The load fails: the provider falls back to what it shows.
LoadFails(a) ==
    /\ load[a] /= {}
    /\ load' = [load EXCEPT ![a] = {}]
    /\ UNCHANGED <<setting, screen, ready, cache, write, writes, fetches, ghostVars>>

\* The page is loaded again and painted from the cache.  A write under way
\* goes on at the server; its row waits for it, so that a row has one write
\* at a time.
ReloadPage(a) ==
    /\ screen' = [screen EXCEPT ![a] = IF cache[a] = {} THEN Default ELSE CHOOSE t \in cache[a] : TRUE]
    /\ ready' = [ready EXCEPT ![a] = FALSE]
    /\ load' = [load EXCEPT ![a] = {}]
    /\ write' = [write EXCEPT ![a] = [k \in Capabilities |->
          IF @[k].stage = "none" THEN NoWrite
          ELSE [@[k] EXCEPT !.left = TRUE, !.previous = Default]]]
    /\ UNCHANGED <<setting, cache, writes, fetches, ghostVars>>

\* Mutant: the optimistic value takes the version it will have.
Optimistic_NextVersion(table, k, v) ==
    [table EXCEPT ![k] = [value |-> v, version |-> @.version + 1]]

\* applyOptimisticCapabilities
Optimistic(table, k, v) == [table EXCEPT ![k].value = v]

\* updateCapabilities, with the version the screen has.
Switch(a, k) ==
    /\ cache[a] /= {} \/ ready[a]       \* else no row is editable
    /\ write[a][k].stage = "none" /\ writes < MaxWrites
    /\ writes' = writes + 1
    /\ write' = [write EXCEPT ![a][k] = [NoWrite EXCEPT
                   !.stage = "sent", !.value = writes + 1,
                   !.expected = screen[a][k].version, !.previous = screen[a]]]
    /\ Show(a, Optimistic(screen[a], k, writes + 1), ready[a])
    /\ UNCHANGED <<setting, load, fetches, ghostVars>>

-----------------------------------------------------------------------------
(* PATCH /system/capabilities                                              *)

At(a, k, stage) == write[a][k].stage = stage
To(a, k, stage) == write' = [write EXCEPT ![a][k].stage = stage]

VersionMatches(expected, stored) == expected = stored

\* The transaction reads the row, without a lock, and compares.
CheckVersion(a, k) ==
    /\ At(a, k, "sent")
    /\ write' = [write EXCEPT ![a][k] =
          IF VersionMatches(@.expected, setting[k].version)
          THEN [@ EXCEPT !.stage = "checked", !.expected = 0, !.found = setting[k].version]
          ELSE [@ EXCEPT !.stage = "conflict", !.expected = 0, !.answer = setting]]
    /\ UNCHANGED <<setting, tabVars, writes, fetches, ghostVars>>

\* updateOrCreate, from the version it has read.
StoreValue(a, k) ==
    /\ At(a, k, "checked")
    /\ setting' = [setting EXCEPT ![k] = [value |-> write[a][k].value,
                                          version |-> write[a][k].found + 1]]
    /\ replaced' = replaced \cup {<<a, k, setting[k]>>}
    /\ raced' = (raced \/ setting[k].version /= write[a][k].found)
    /\ To(a, k, "written")
    /\ UNCHANGED <<tabVars, writes, fetches, told>>

\* After the commit the answer is read, other administrators' writes included.
ReadAnswer(a, k) ==
    /\ At(a, k, "written")
    /\ write' = [write EXCEPT ![a][k] = [@ EXCEPT !.stage = "ok", !.found = 0, !.answer = setting]]
    /\ UNCHANGED <<setting, tabVars, writes, fetches, ghostVars>>

\* The request does not reach the server, or its answer is lost.
WriteFails(a, k) ==
    /\ write[a][k].stage \in {"sent", "ok", "conflict"}
    /\ write' = [write EXCEPT ![a][k] = [@ EXCEPT !.stage = "failed", !.expected = 0, !.answer = Default]]
    /\ UNCHANGED <<setting, tabVars, writes, fetches, ghostVars>>

\* What the provider shows once it has heard: the server's answer, or what it
\* showed before.
After(a, k) == IF At(a, k, "failed") THEN write[a][k].previous ELSE write[a][k].answer

HearWrite(a, k) ==
    /\ write[a][k].stage \in {"ok", "conflict", "failed"} /\ ~write[a][k].left
    /\ Show(a, After(a, k), ready[a])
    /\ IF At(a, k, "failed") THEN UNCHANGED told ELSE Tell(a, write[a][k].answer)
    /\ write' = [write EXCEPT ![a][k] = NoWrite]
    /\ UNCHANGED <<setting, load, writes, fetches, replaced, raced>>

\* The answer to a page that was left.
Unheard(a, k) ==
    /\ write[a][k].stage \in {"ok", "conflict", "failed"} /\ write[a][k].left
    /\ write' = [write EXCEPT ![a][k] = NoWrite]
    /\ UNCHANGED <<setting, tabVars, writes, fetches, ghostVars>>

CapabilityNext == \E a \in Admins :
    \/ StartLoad(a) \/ Loaded(a) \/ LoadFails(a) \/ ReloadPage(a)
    \/ \E k \in Capabilities :
          \/ Switch(a, k)
          \/ CheckVersion(a, k) \/ StoreValue(a, k) \/ ReadAnswer(a, k)
          \/ WriteFails(a, k) \/ HearWrite(a, k) \/ Unheard(a, k)

CapabilitySpec == CapabilityInit /\ [][CapabilityNext]_capabilityVars

-----------------------------------------------------------------------------
(* Properties                                                              *)

\* The types; and the screen of a ready provider is what the cache holds.
CapabilityTypeOK ==
    /\ setting \in Tables /\ screen \in [Admins -> Tables]
    /\ ready \in [Admins -> BOOLEAN]
    /\ write \in [Admins -> [Capabilities -> Writes]]
    /\ \A a \in Admins : /\ cache[a] \subseteq Tables /\ load[a] \subseteq Tables
                         /\ ready[a] => cache[a] = {screen[a]}
    /\ writes \in 0..MaxWrites /\ fetches \in 0..MaxFetches
    /\ raced \in BOOLEAN

\* An administrator overwrites only what the server has told that
\* administrator, whatever was switched, taken back, loaded late or painted
\* from the cache in between: every accepted write has replaced a value and
\* version that its tab had been told of ("so every write is
\* concurrency-checked").  The exception are transactions that overlap on a
\* key, which the service does not keep apart.
OverwritesTheKnown ==
    ~raced => \A r \in replaced : <<r[2], r[3]>> \in told[r[1]]

\* "Cache every authoritative (server-confirmed) snapshot, never an optimistic
\* one, so a reload never resurrects an unconfirmed write."
CacheIsConfirmed == \A a \in Admins : \A table \in cache[a] : Facts(table) \subseteq told[a]

=============================================================================
