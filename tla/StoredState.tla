----------------------------- MODULE StoredState -----------------------------
(***************************************************************************)
(* What the program remembers: one state file (internal/profiles/store.go), the *)
(* files of the resolver lists beside it, backups (internal/profiles/backup.go), *)
(* what another application left (import_legacy.go) and the reset (reset.go).   *)
(*                                                                          *)
(* Of the state there are the configs in the order shown and the one chosen, the *)
(* rows of the lists, the source selected, and the filter chosen in it, with the  *)
(* filters parked for the other sources (internal/model/whitevpn_settings.go).  *)
(* A filter is known by the source it was chosen in.  One resolver list stands   *)
(* for all: kept inline, too large for that, or in a file.                      *)
(*                                                                          *)
(* An operation holds App.mu to its end, but for a reset and a backup, which let   *)
(* others in.  What interleaves otherwise are failures: of the write of either     *)
(* file, of a removal, and a crash, which is a write that failed and a start.  A   *)
(* temporary file that is not renamed is never read.                             *)
(***************************************************************************)
EXTENDS FiniteSets, Naturals, Sequences, SequencesExt

CONSTANTS
    Configs,     \* identifiers of configs, ...
    Owner,       \* ... the source each belongs to ...
    Key,         \* ... and what makes two the same server, None if incomplete
    Lists, Home, Manual, All,
    Automatic,   \* the filter that filters nothing
    Large, Text, \* a resolver list over the inline limit, and one inside a backup
    Paths,       \* names in the directory of resolver lists: a bound
    Broken,      \* a state file that does not parse
    None,
    Old,         \* the state a file of an older build holds
    Legacy,      \* what WhiteDNS Desktop has to import
    MaxActs      \* how many operations there are

Sources == Lists \cup {Home, Manual, All}

ASSUME StoredStateAssumption ==
    /\ Owner \in [Configs -> Sources] /\ DOMAIN Key = Configs
    /\ MaxActs \in Nat
    /\ Lists \cap {Home, Manual, All} = {} /\ Home \notin {Manual, All} /\ Manual # All
    /\ Paths # {} /\ Paths \cap {None, Large, Text} = {} /\ None \notin {Large, Text}
    /\ Legacy.configs \in Seq(Configs) /\ IsInjective(Legacy.configs)
    /\ Legacy.rows \subseteq Lists \cup {All}

VARIABLES
    mem,      \* App.state
    disk,     \* state.json
    files,    \* the resolver lists on disk
    backup,   \* the last backup the user exported
    copy,     \* what ExportBackup copied under App.mu of the state it is writing
    offer,    \* legacyImport.Available
    page,     \* what the interface holds since it last asked
    runtime,  \* Runtime.Status, as far as the guards tell it apart
    reset,    \* where ResetAppData stands: it deletes without App.mu
    standing, \* memory against the disk: "saved", "ahead", or "unread", when the program runs on the
              \* defaults because the start could not use the file
    strayed,  \* a filter may have got into another source: see FiltersStayHome
    spoiled,  \* a reset has stopped half way
    acts

vars == <<mem, disk, files, backup, copy, offer, page, runtime, reset, standing, strayed, spoiled, acts>>
still == <<backup, copy, offer, page, runtime, reset, spoiled>>
aside == <<still, strayed>>

Ids(s) == ToSet(s.configs)
Of(c, source) == Owner[c] = source
HasManual(s) == \E c \in Ids(s) : Of(c, Manual)

\* What there is of a list in a set, in the list's order.
Keeping(list, set) ==
    LET kept[n \in 0 .. Len(list)] ==
            IF n = 0 THEN <<>>
            ELSE IF list[n] \in set THEN Append(kept[n - 1], list[n]) ELSE kept[n - 1]
    IN  kept[Len(list)]

NotOf(source) == {c \in Configs : ~Of(c, source)}

States ==
    [configs : Seq(Configs), chosen : Configs \cup {None}, rows : SUBSET (Lists \cup {All}),
     selected : Sources, choice : Sources \cup {Automatic},
     parked : [Sources -> Sources \cup {Automatic}], resolver : {None, Large, Text} \cup Paths]

\* An older build knew no parked filters, and kept its resolvers in the state.
ASSUME OldAssumption ==
    /\ None \notin States /\ Broken \notin States
    /\ Old \in States /\ IsInjective(Old.configs) /\ Old.resolver \notin Paths
    /\ Old.choice \in {Automatic, Old.selected} /\ Old.parked = [s \in Sources |-> Automatic]

TypeOK ==
    /\ mem \in States /\ IsInjective(mem.configs) /\ mem.resolver # Text
    /\ disk \in States \cup {None, Broken}
    /\ files \subseteq Paths
    /\ {backup, copy} \subseteq States \cup {None}
    /\ page \in [ids : Seq(Configs), of : Sources, choice : Sources \cup {Automatic}]
    /\ runtime \in {"off", "connecting", "on"}
    /\ reset \in {"off", "checked", "removed"}
    /\ standing \in {"saved", "ahead", "unread"}
    /\ {offer, strayed, spoiled} \subseteq BOOLEAN
    /\ acts \in 0 .. MaxActs

-----------------------------------------------------------------------------
(* Normalising: what every load and every save does                           *)

Default ==
    [configs |-> <<>>, chosen |-> None, rows |-> {}, selected |-> Home, choice |-> Automatic,
     parked |-> [s \in Sources |-> Automatic], resolver |-> None]

\* SwapSubscriptionSelection: the filter of the source that is left is parked, that of the
\* next is brought out.
Swap(s, to) ==
    IF s.selected = to THEN s
    ELSE [s EXCEPT !.parked = [@ EXCEPT ![s.selected] = s.choice, ![to] = Automatic],
                   !.choice = s.parked[to], !.selected = to]

\* normalizeSelectedSubscription.  With two catalogues built in there is always more than one row.
SelectedIn(s) ==
    IF s.selected \in {Home, All} \cup s.rows \/ (s.selected = Manual /\ HasManual(s))
    THEN s.selected ELSE Home

ChosenIn(s) ==
    IF s.configs = <<>> THEN None ELSE IF s.chosen \in Ids(s) THEN s.chosen ELSE Head(s.configs)

\* keepSelectionsForKnownSubscriptions
KeptParked(s, source) ==
    IF source \in {Home, Manual, All} \cup s.rows THEN s.parked[source] ELSE Automatic

NormalizedUnswapped(s) ==  \* mutant: a corrected selection leaves the filter where it is
    [s EXCEPT !.selected = SelectedIn(s), !.chosen = ChosenIn(s), !.parked = [x \in Sources |-> KeptParked(s, x)]]

NormalizedDropFirst(s) ==  \* mutant: what is parked is tidied before the selection is corrected
    Swap([s EXCEPT !.chosen = ChosenIn(s), !.parked = [x \in Sources |-> KeptParked(s, x)]], SelectedIn(s))

\* NormalizeState; no two configs of a state have one identifier, so that none is dropped here.
Normalized(s) ==
    LET swapped == Swap(s, SelectedIn(s)) IN
    [swapped EXCEPT !.chosen = ChosenIn(s), !.parked = [x \in Sources |-> KeptParked(swapped, x)]]

-----------------------------------------------------------------------------
(* Saving: the resolver list to a file of its own, then the state              *)

Unfiled(s) == s.resolver \in {Large, Text}
Room(s) == Unfiled(s) => files # Paths

\* uniqueManagedResolverPathLocked
FreshPath(present) == CHOOSE p \in Paths : p \notin present

WrittenLate(s) == files  \* mutant: the state is saved before the file it names

\* migrateLargeInlineResolversLocked
Filed(s, present) == IF Unfiled(s) THEN [s EXCEPT !.resolver = FreshPath(present)] ELSE s
Written(s) == IF Unfiled(s) THEN files \cup {FreshPath(files)} ELSE files

\* Where memory stands when it was changed and the disk was not.
Behind == IF standing = "unread" THEN "unread" ELSE "ahead"

Save(s) ==  \* saveLocked: when a write fails, memory keeps the change
    LET next == Normalized(s) IN
    /\ Room(next)
    /\ \/ mem' = Filed(next, files) /\ disk' = mem' /\ files' = Written(next) /\ standing' = "saved"
       \/ mem' = next /\ standing' = Behind /\ files' \in {files, Written(next)} /\ UNCHANGED disk

Acts == acts < MaxActs /\ acts' = acts + 1

-----------------------------------------------------------------------------
(* Starting                                                                   *)

Loaded(file) == IF file \in {None, Broken} THEN Default ELSE Normalized(file)

\* forgetBuiltInCatalogueProfiles
WithoutCatalogue(s) == [s EXCEPT !.configs = Keeping(@, NotOf(Home))]

\* ensureAllSubscriptionRowLocked: with a list of the user's own there are always two to merge.  The
\* selection leaves the row that goes, and nothing is swapped.
WithAllRow(s) ==
    IF s.rows \cap Lists # {} \/ HasManual(s) THEN [s EXCEPT !.rows = @ \cup {All}]
    ELSE [s EXCEPT !.rows = @ \ {All},
                   !.selected = IF @ = All /\ All \in s.rows THEN Home ELSE @]

Opened(s) == WithAllRow(WithoutCatalogue(s))

\* The selection leaves All with a filter, or comes to one that is parked.
Displaces(s) == Opened(s).selected # s.selected /\ ~(s.choice = Automatic /\ s.parked[Home] = Automatic)

\* NewApp: what a start may find itself with.  It runs on the defaults when the file does not parse
\* and when a resolver list cannot be moved to a file of its own; what it corrects stays unsaved.
Starts(file, present) ==
    LET s == Loaded(file)
        t == Filed(s, present)
        started == [mem |-> Opened(t), disk |-> file, files |-> present, standing |-> "saved",
                    strays |-> Displaces(t)]
        moved == [started EXCEPT !.files = @ \cup {FreshPath(present)}]
    IN  IF ~Unfiled(s) THEN {started}
        ELSE {[moved EXCEPT !.disk = t], [moved EXCEPT !.standing = "ahead"],
              [started EXCEPT !.mem = Opened(Default), !.standing = "unread", !.strays = FALSE]}

PageOf(s) == [ids |-> s.configs, of |-> s.selected, choice |-> s.choice]

Init ==
    /\ \E file \in {None, Broken, Old} : \E start \in Starts(file, {}) :
          /\ mem = start.mem /\ disk = start.disk /\ files = start.files
          /\ standing = start.standing /\ strayed = start.strays /\ offer = (file = None)
    /\ backup = None /\ copy = None /\ spoiled = FALSE /\ page = PageOf(mem)
    /\ runtime = "off" /\ reset = "off" /\ acts = 0

Restart ==
    /\ Acts
    /\ Room(Loaded(disk))
    /\ \E start \in Starts(disk, files) :
          /\ mem' = start.mem /\ disk' = start.disk /\ files' = start.files
          /\ standing' = start.standing /\ strayed' = (strayed \/ start.strays)
    /\ offer' = (disk = None) /\ copy' = None
    /\ page' = PageOf(mem') /\ runtime' = "off" /\ reset' = "off"
    /\ spoiled' = (spoiled \/ reset = "removed")
    /\ UNCHANGED backup

-----------------------------------------------------------------------------
(* The configs                                                                *)

Locked == runtime # "off"  \* connectionSelectionLockedLocked

ChosenAfter(c) == IF Locked THEN mem.chosen ELSE c

Holding(configs, chosen) == [mem EXCEPT !.configs = configs, !.chosen = chosen]

\* SaveManualNode comes here too, with a config that is pasted.
SaveV2RayProfile ==
    \E c \in Configs :
        /\ Acts /\ Of(c, Manual)
        /\ Save(Holding(IF c \in Ids(mem) THEN mem.configs ELSE Append(mem.configs, c), ChosenAfter(c)))
        /\ UNCHANGED aside

\* ImportV2RayProfiles and ImportV2RayWhiteIPProfiles
ImportV2RayProfiles ==
    \E c \in Configs \ Ids(mem) :
        /\ Acts /\ Of(c, Manual)
        /\ Save(Holding(<<c>> \o mem.configs, ChosenAfter(c)))
        /\ UNCHANGED aside

DeleteV2RayProfiles ==
    \E gone \in SUBSET Ids(mem) \ {{}} :
        /\ Acts
        /\ Save(Holding(Keeping(mem.configs, Ids(mem) \ gone), mem.chosen))
        /\ UNCHANGED aside

Position(s, c) == CHOOSE i \in DOMAIN s.configs : s.configs[i] = c
SameServer(s, c) == {d \in Ids(s) : Key[d] = Key[c]}

FirstKept(s, c) ==  \* mutant: the first of the same server is kept, chosen or not
    Key[c] = None \/ \A d \in SameServer(s, c) : Position(s, c) <= Position(s, d)

\* duplicateV2RayProfileIndexes: the chosen one of the same server scores highest, then the first.
IsKept(s, c) ==
    \/ Key[c] = None \/ c = s.chosen
    \/ s.chosen \notin SameServer(s, c) /\ \A d \in SameServer(s, c) : Position(s, c) <= Position(s, d)

DeleteDuplicateV2RayProfiles ==
    /\ Acts
    /\ \E c \in Ids(mem) : ~IsKept(mem, c)
    /\ Save(Holding(Keeping(mem.configs, {c \in Ids(mem) : IsKept(mem, c)}), mem.chosen))
    /\ UNCHANGED aside

SelectV2RayProfile ==
    \E c \in Ids(mem) :
        /\ Acts /\ ~Locked
        /\ Save([mem EXCEPT !.chosen = c])
        /\ UNCHANGED aside

\* reorderProfiles: exactly the ones there are.
Reorderable(ids) == Len(ids) = Len(mem.configs) /\ ToSet(ids) \subseteq Ids(mem)

\* The page sends the order it shows with a row moved; reversing stands for any move.
ReorderV2RayProfiles ==
    /\ Acts
    /\ Len(page.ids) > 1 /\ Reorderable(page.ids)
    /\ Save([mem EXCEPT !.configs = Reverse(page.ids)])
    /\ UNCHANGED aside

-----------------------------------------------------------------------------
(* The sources and their filters                                              *)

SaveV2RaySubscription ==
    \E l \in Lists :
        /\ Acts /\ Save([mem EXCEPT !.rows = @ \cup {l}])
        /\ UNCHANGED aside

\* RefreshV2RaySubscription, where it lands: every config of the list gets a new identifier.
RefreshV2RaySubscription ==
    \E l \in mem.rows \cap Lists, c \in Configs \ Ids(mem) :
        /\ Acts /\ Of(c, l)
        /\ Save(Holding(Append(Keeping(mem.configs, NotOf(l)), c), ChosenAfter(c)))
        /\ UNCHANGED aside

DeleteV2RaySubscription ==
    \E l \in mem.rows \cap Lists :
        /\ Acts
        /\ Save([mem EXCEPT !.rows = @ \ {l}, !.parked[l] = Automatic,
                            !.configs = Keeping(@, NotOf(l))])
        /\ UNCHANGED aside

\* SelectSubscription, for what the page lists; the session is the engine that runs.
SelectSubscription ==
    \E s \in ({Home} \cup mem.rows \cup (IF HasManual(mem) THEN {Manual} ELSE {})) \ {mem.selected} :
        /\ Acts /\ runtime # "on"
        /\ Save(Swap(mem, s))
        /\ UNCHANGED aside

\* SaveWhiteVPNSettings, and SaveWhiteVPNSelection, which reads the settings, lists the nodes and
\* then saves: a filter picked in the source the page shows, or the one it read, with the rest.
SaveWhiteVPNSettings ==
    \E choice \in {Automatic, page.of, page.choice} :
        /\ Acts
        /\ Save([mem EXCEPT !.choice = choice])
        /\ strayed' = (strayed \/ choice \notin {Automatic, mem.selected})
        /\ UNCHANGED still

ReadPage ==
    /\ page # PageOf(mem) /\ page' = PageOf(mem)
    /\ UNCHANGED <<mem, disk, files, backup, copy, offer, runtime, reset, standing, strayed, spoiled, acts>>

\* ResetWhiteVPNSettings
ResetSettings(s) == [s EXCEPT !.choice = Automatic, !.parked = Default.parked, !.selected = Home]

ResetWhiteVPNSettings ==
    /\ Acts
    /\ Save(ResetSettings(mem))
    /\ UNCHANGED aside

-----------------------------------------------------------------------------
(* Backup, inheritance and reset                                              *)

\* App.ExportBackup copies the state under App.mu; its lists and the map of filters stay memory's own.
ExportBackup ==
    /\ Acts
    /\ copy = None /\ copy' = mem
    /\ UNCHANGED <<mem, disk, files, backup, offer, page, runtime, reset, standing, strayed, spoiled>>

\* What is left of the copied configs: DeleteFunc shifts them in place, and the room at the end reads
\* as a config without a name or an address.
TornConfigs ==
    {copy.configs}
    \cup {Append(Keeping(copy.configs, Ids(mem)), blank) :
              blank \in {c \in Configs \ (Ids(copy) \cup Ids(mem)) :
                           Of(c, Manual) /\ Key[c] = None /\ ~(Ids(copy) \subseteq Ids(mem))}}

\* The copy as it is read later, with memory's map of filters unless an operation has given memory another.
Torn(shared, rows, configs) ==
    [copy EXCEPT !.rows = rows, !.configs = configs, !.parked = IF shared THEN mem.parked ELSE @]

\* Store.ExportBackup normalises the copy outside App.mu, and a map it shares with memory in place.  A
\* resolver file that is gone fails it.
WriteBackup ==
    /\ copy # None /\ copy' = None
    /\ \E shared \in BOOLEAN, rows \in {copy.rows, copy.rows \cap mem.rows}, configs \in TornConfigs :
          LET next == Normalized(Torn(shared, rows, configs))
          IN  /\ backup' = IF next.resolver \in Paths \ files THEN backup
                           ELSE [next EXCEPT !.resolver = IF @ \in Paths THEN Text ELSE @]
              /\ mem' = IF shared THEN [mem EXCEPT !.parked = next.parked] ELSE mem
              /\ strayed' = (strayed \/ (shared /\ {copy.selected, next.selected} # {mem.selected}))
    /\ standing' = IF mem' = mem THEN standing ELSE Behind
    /\ UNCHANGED <<disk, files, offer, page, runtime, reset, spoiled, acts>>

\* restoreBackupResolverFilesLocked: a path of its own, whatever the backup's machine had.
Restored(s, present) == Filed(s, present)

\* Nothing is taken into memory unless all of it could be written.
ImportBackup ==
    /\ Acts
    /\ ~Locked /\ backup # None
    /\ Room(backup)
    /\ \/ /\ disk' = Normalized(Restored(backup, files)) /\ files' = Written(backup) /\ standing' = "saved"
          /\ mem' = WithoutCatalogue(disk')
       \/ files' \in {files, Written(backup)} /\ UNCHANGED <<mem, disk, standing>>
    /\ UNCHANGED aside

\* LegacyImport.Apply: what is there already wins.
Apply(s) ==
    [s EXCEPT !.configs = @ \o Keeping(Legacy.configs, Configs \ Ids(s)),
              !.rows = @ \cup Legacy.rows]

\* ImportLegacyProfiles, and DismissLegacyImportOffer.
ImportLegacyProfiles ==
    /\ Acts
    /\ offer /\ offer' = FALSE
    /\ Save(WithoutCatalogue(Apply(mem))) \/ UNCHANGED <<mem, disk, files, standing>>
    /\ UNCHANGED <<backup, copy, page, runtime, reset, strayed, spoiled>>

\* ResetAppData looks at what runs, deletes what it can, and stops if something is left.
ResetCheck ==
    /\ Acts
    /\ reset = "off" /\ ~Locked
    /\ reset' = "checked"
    /\ UNCHANGED <<mem, disk, files, backup, copy, offer, page, runtime, standing, strayed, spoiled>>

RemoveConfigDirContents ==
    /\ reset = "checked"
    /\ \/ disk' = None /\ files' = {} /\ reset' = "removed" /\ UNCHANGED spoiled
       \/ /\ disk' \in {disk, None} /\ files' \in SUBSET files
          /\ reset' = "off" /\ spoiled' = TRUE
    /\ standing' = Behind
    /\ UNCHANGED <<mem, backup, copy, offer, page, runtime, strayed, acts>>

ResetAppData ==
    /\ reset = "removed" /\ reset' = "off"
    /\ Save(WithAllRow(Default))
    /\ offer' = TRUE /\ spoiled' = (spoiled \/ standing' # "saved")
    /\ UNCHANGED <<backup, copy, page, runtime, strayed, acts>>

\* A connect begins, succeeds and ends.
SetRuntime ==
    /\ Acts
    /\ runtime' = IF runtime = "off" THEN "connecting" ELSE IF runtime = "connecting" THEN "on" ELSE "off"
    /\ UNCHANGED <<mem, disk, files, backup, copy, offer, page, reset, standing, strayed, spoiled>>

-----------------------------------------------------------------------------

Removals == DeleteV2RayProfiles \/ DeleteDuplicateV2RayProfiles \/ DeleteV2RaySubscription
            \/ RefreshV2RaySubscription \/ ImportBackup \/ RemoveConfigDirContents \/ ResetAppData

Next ==
    \/ Removals \/ Restart \/ SaveV2RayProfile \/ ImportV2RayProfiles \/ SelectV2RayProfile
    \/ ReorderV2RayProfiles \/ SaveV2RaySubscription \/ SelectSubscription \/ SaveWhiteVPNSettings
    \/ ReadPage \/ ResetWhiteVPNSettings \/ ExportBackup \/ WriteBackup \/ ImportLegacyProfiles \/ ResetCheck
    \/ SetRuntime

Spec == Init /\ [][Next]_vars

-----------------------------------------------------------------------------
(* Properties                                                                 *)

SavedStates == {s \in {disk, backup} : s \notin {None, Broken, Old}}

\* What is chosen exists, in memory and in all that is saved, whatever is removed; only a config of
\* an older build's catalogue, which a start drops, is named until the next save.
ChosenExists ==
    /\ mem.chosen \in Ids(mem) \cup {None} \/ Of(mem.chosen, Home)
    /\ \A s \in SavedStates : s.chosen \in Ids(s) \/ (s.configs = <<>> /\ s.chosen = None)

\* A resolver list in a file is there, for memory and for the next start: the file is written
\* before the state that names it, whichever write fails, and a restored one gets its own.
FilesExist == ~spoiled /\ reset # "removed" =>
    \A s \in {mem, disk} \ {None, Broken} : s.resolver \in Paths => s.resolver \in files

\* A start brings back what was in memory when the last save succeeded: loading corrects nothing that
\* saving had left, but for the row All, which it adds or takes away, with a selection of it.
RestartChangesNothing == standing = "saved" => Opened(Loaded(disk)) = WithAllRow(mem)

\* whitevpn_settings.go:141: "Absent for the selected subscription: ... storing it twice would
\* leave two answers to disagree."
ParkedOnce == mem.parked[mem.selected] = Automatic

\* A filter is in force only in the source it was chosen in, and parked only for it.
FilterOfItsSource ==
    /\ mem.choice \in {Automatic, mem.selected}
    /\ \A s \in Sources : mem.parked[s] \in {Automatic, s}

\* Nothing is parked for a list that is gone: one added again starts without a filter.
NoFilterOfTheGone == \A l \in Lists \ mem.rows : mem.parked[l] = Automatic

Servers(s) == {Key[c] : c \in Ids(s)}

\* Removing duplicates leaves one config of every server, and leaves what is chosen.
DuplicatesLoseNothing ==
    [][DeleteDuplicateV2RayProfiles =>
          /\ Servers(mem') = Servers(mem)
          /\ mem.chosen \in Ids(mem) => mem'.chosen = mem.chosen
          /\ \A c, d \in Ids(mem') : Key[c] = Key[d] /\ Key[c] # None => c = d]_vars

NotHome(s) == {c \in Ids(s) : ~Of(c, Home)}

\* A config goes, of memory or of the disk, by an operation that removes and by no other: not by a
\* page that orders a list it read earlier, nor by an import or a save that fails; and a start takes
\* all there is on disk.  One start does not: it runs on the defaults when the file does not parse or
\* its resolvers cannot be moved (store.go:51-57), and the next save writes those over the file.
LossIsAsked ==
    [][/\ Ids(mem) \subseteq Ids(mem') \/ Removals \/ Restart
       /\ disk \notin {None, Broken} =>
             /\ NotHome(disk) \subseteq Ids(mem') \/ ~Restart \/ standing' = "unread"
             /\ disk' # None => NotHome(disk) \subseteq Ids(disk') \/ Removals \/ standing # "saved"]_vars

\* While a connection is being made or used, the choice stays as long as its config does.
LockedChoiceStays ==
    [][Locked /\ runtime' = runtime /\ mem.chosen \in Ids(mem') /\ ~ResetAppData
          => mem'.chosen = mem.chosen]_vars

\* What a state names is there: the config it chose and the file of its resolvers.
WhatIsNamedExists == TypeOK /\ ChosenExists /\ FilesExist

\* The filter of a source is in one place, and in no other source's, until one of three strays:
\* a start takes All away from under a selection with a filter (whitedns_vpn.go:837-841), the page
\* saves the settings of a source it has left, or a backup is written while another is selected.
FiltersStayHome == strayed \/ (ParkedOnce /\ FilterOfItsSource /\ NoFilterOfTheGone)

\* Nothing goes that the user did not ask to go: no server, no config, no choice.
NothingGoesUnasked == DuplicatesLoseNothing /\ LossIsAsked /\ LockedChoiceStays
=============================================================================
