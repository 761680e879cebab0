----------------------------- MODULE MemoryConfig -----------------------------
(***************************************************************************)
(* memory.toml and the two services that are configured by it, the         *)
(* activity journal and the consolidation, together with the registry they *)
(* take their models from.                                                 *)
(*                                                                         *)
(* A save validates the model and writes one section of the file; the      *)
(* services see it when the watcher's action reloads them, the journal     *)
(* first. A model that is not registered at that moment fails the action,  *)
(* and nothing tries it again.                                             *)
(***************************************************************************)
EXTENDS ModelRegistry

Services == {"activity", "consolidation"}

\* A reference fits every model whose id ends with it: the empty one, None,
\* fits all.
Refs == IDs \cup Names

\* A section of the file: what else is in it goes where its model goes.
Section == Refs
Model == [id : IDs, url : Urls]

\* What a SaveConfig has validated, and the file it has read.
Saving == [section : Section, dto : {None} \cup [Services -> Section \cup {None}]]

ASSUME MemoryAssumption ==
  None \notin Services \cup {"between"} \cup Model \cup Saving \cup [Services -> Section \cup {None}]

VARIABLES
  memory,   \* memory.toml: its two sections
  fileMu,   \* MemoryFile.mu: the save that holds it
  saving,   \* what the SaveConfig of a service has validated, and read
  reading,  \* the service the watcher's action reloads, and the section it read
  services, \* modelName and model of the services
  written,  \* history: what was last saved, or edited, of a section
  clash,    \* history: the file was edited by hand in the middle of a save
  torn      \* history: the sections that a failed write took out of the file

configVars == <<memory, fileMu, saving, reading, services, written, clash, torn>>
vars == <<registryVars, configVars>>

NotReading == [of |-> None, section |-> None]

ConfigTypeOK ==
  /\ memory \in [Services -> Section \cup {None}]
  /\ fileMu \in Services \cup {None}
  /\ saving \in [Services -> Saving \cup {None}]
  /\ reading \in [of : Services \cup {"between", None}, section : Section \cup {None}]
  /\ services \in [Services -> [ref : Refs \cup {None}, model : Model \cup {None}]]
  /\ written \in [Services -> Section \cup {None}]
  /\ clash \in BOOLEAN /\ torn \subseteq Services

TypeOK == RegistryTypeOK /\ ConfigTypeOK

\* ModelService.Get: any of the registered models that the name fits.
Fits(ref) == {id \in IDs : registry[id] # None /\ (ref = None \/ id = ref \/ id[2] = ref)}

Get(ref) == {[id |-> id, url |-> registry[id]] : id \in Fits(ref)}

Off == [s \in Services |-> [ref |-> None, model |-> None]]

\* There is no memory.toml but the placeholder before the first save.
Init ==
  /\ RegistryInit
  /\ memory = [s \in Services |-> None]
  /\ fileMu = None
  /\ saving = [s \in Services |-> None]
  /\ reading = NotReading
  /\ services = Off
  /\ written = memory
  /\ clash = FALSE /\ torn = {}

othersUnchanged == UNCHANGED <<up, fileVars, serviceVars, excuse>>

-----------------------------------------------------------------------------
(***************************************************************************)
(* The file                                                                *)
(***************************************************************************)

\* memory.toml is edited by hand.
EditMemory ==
  /\ Change
  /\ \E s \in Services, section \in Section \cup {None} :
       /\ section # memory[s]
       /\ memory' = [memory EXCEPT ![s] = section]
       /\ written' = [written EXCEPT ![s] = section]
       /\ torn' = torn \ {s}
  /\ clash' = (clash \/ fileMu # None)
  /\ Notify("memory")
  /\ othersUnchanged /\ UNCHANGED <<fileMu, saving, reading, services>>

\* ConsolidationService.mu, which its SaveConfig and its Reload hold.
ConsolidatorIsFree == saving["consolidation"] = None /\ reading.of # "consolidation"

\* SaveConfig: the consolidation validates the model it is given, the journal the
\* one it has.
Validate(s) ==
  /\ up /\ Change /\ saving[s] = None
  /\ s = "consolidation" => ConsolidatorIsFree
  /\ \E section \in Section :
       /\ Fits(IF s = "activity" THEN services[s].ref ELSE section) # {}
       /\ saving' = [saving EXCEPT ![s] = [section |-> section, dto |-> None]]
  /\ othersUnchanged /\ UNCHANGED <<watchVars, memory, fileMu, reading, services, written, clash, torn>>

\* A save that reads without the mutex.
ReadUnlocked(s) ==
  /\ saving[s] # None /\ saving[s].dto = None
  /\ saving' = [saving EXCEPT ![s].dto = memory]
  /\ UNCHANGED <<registryVars, memory, fileMu, reading, services, written, clash, torn>>

\* MemoryFile.Save reads the file, with the mutex of the file.
ReadForSave(s) ==
  /\ saving[s] # None /\ saving[s].dto = None /\ fileMu = None
  /\ fileMu' = s
  /\ saving' = [saving EXCEPT ![s].dto = memory]
  /\ UNCHANGED <<registryVars, memory, reading, services, written, clash, torn>>

\* MemoryFile.Save writes back both sections, one of them new.
WriteSection(s) ==
  /\ saving[s] # None /\ saving[s].dto # None
  /\ memory' = [saving[s].dto EXCEPT ![s] = saving[s].section]
  /\ written' = [written EXCEPT ![s] = saving[s].section]
  /\ torn' = torn \ {s}
  /\ saving' = [saving EXCEPT ![s] = None]
  /\ fileMu' = IF fileMu = s THEN None ELSE fileMu
  /\ Notify("memory")
  /\ othersUnchanged /\ UNCHANGED <<changes, reading, services, clash>>

\* A save fails: before it writes, and the file is as it was, or in the middle of
\* the write, which has truncated the file: both sections may be lost.
SaveSectionFails(s) ==
  /\ saving[s] # None /\ saving[s].dto # None
  /\ \/ UNCHANGED <<memory, written, torn, watchVars>>
     \/ \E kept \in SUBSET Services :
          /\ memory' = Torn([saving[s].dto EXCEPT ![s] = saving[s].section], kept)
          /\ written' = [written EXCEPT ![s] = IF s \in kept THEN saving[s].section ELSE @]
          /\ torn' = (torn \ (kept \cap {s})) \cup (Services \ kept)
          /\ Notify("memory")
  /\ saving' = [saving EXCEPT ![s] = None]
  /\ fileMu' = IF fileMu = s THEN None ELSE fileMu
  /\ othersUnchanged /\ UNCHANGED <<changes, reading, services, clash>>

-----------------------------------------------------------------------------
(***************************************************************************)
(* The watcher's action on memory.toml (files.NewMemoReloader)             *)
(***************************************************************************)

\* ActivityService.Reload reads its section.
ReadActivity ==
  /\ Begin("memory") /\ fileMu = None
  /\ reading' = [of |-> "activity", section |-> memory["activity"]]
  /\ othersUnchanged /\ UNCHANGED <<changes, memory, fileMu, saving, services, written, clash, torn>>

\* The file cannot be read or parsed: the consolidation is not reloaded.
ReadActivityFails ==
  /\ Fail("memory") /\ fileMu = None
  /\ othersUnchanged /\ UNCHANGED <<changes, configVars>>

\* The action ends with an error: it does not read the file again.
ActionFails ==
  /\ reading' = NotReading
  /\ phase' = [phase EXCEPT !["memory"] = "idle"]
  /\ missed' = missed \cup {"memory"}
  /\ UNCHANGED <<events, services>>

Configure(s, model) ==
  services' = [services EXCEPT ![s] = [ref |-> reading.section, model |-> model]]

\* ActivityService.applyConfig: a section that is absent changes nothing; the
\* model is that of the name it had before.
ApplyActivity ==
  /\ reading.of = "activity"
  /\ \/ /\ reading.section = None
        /\ reading' = [of |-> "between", section |-> None]
        /\ UNCHANGED <<services, watchVars>>
     \/ /\ reading.section # None
        /\ \E model \in Get(services["activity"].ref) : Configure("activity", model)
        /\ reading' = [of |-> "between", section |-> None]
        /\ UNCHANGED watchVars
     \/ /\ reading.section # None /\ Get(services["activity"].ref) = {}
        /\ ActionFails
  /\ othersUnchanged /\ UNCHANGED <<changes, memory, fileMu, saving, written, clash, torn>>

\* ConsolidationService.Reload reads its section, with its own mutex.
ReadConsolidation ==
  /\ reading.of = "between" /\ ConsolidatorIsFree /\ fileMu = None
  /\ reading' = [of |-> "consolidation", section |-> memory["consolidation"]]
  /\ UNCHANGED <<registryVars, memory, fileMu, saving, services, written, clash, torn>>

\* A load that looks up the name it had before, as the journal's does.
ApplyByOldName ==
  /\ reading.of = "consolidation" /\ reading.section # None
  /\ \E model \in Get(services["consolidation"].ref) : Configure("consolidation", model)
  /\ reading' = NotReading
  /\ Finish("memory")
  /\ othersUnchanged /\ UNCHANGED <<changes, memory, fileMu, saving, written, clash, torn>>

\* ConsolidationService.load
ApplyConsolidation ==
  /\ reading.of = "consolidation"
  /\ \/ /\ reading.section = None
        /\ reading' = NotReading
        /\ Finish("memory")
        /\ UNCHANGED services
     \/ /\ reading.section # None
        /\ \E model \in Get(reading.section) : Configure("consolidation", model)
        /\ reading' = NotReading
        /\ Finish("memory")
     \/ /\ reading.section # None /\ Get(reading.section) = {}
        /\ ActionFails
  /\ othersUnchanged /\ UNCHANGED <<changes, memory, fileMu, saving, written, clash, torn>>

ConfigNext ==
  \/ EditMemory
  \/ \E s \in Services : Validate(s) \/ ReadForSave(s) \/ WriteSection(s) \/ SaveSectionFails(s)
  \/ ReadActivity \/ ReadActivityFails \/ ApplyActivity
  \/ ReadConsolidation \/ ApplyConsolidation

-----------------------------------------------------------------------------
(***************************************************************************)
(* The process                                                             *)
(***************************************************************************)

\* The panic of a Reload of models.toml ends the memory services as well.
Stopped ==
  /\ \E p \in Providers : LoadPanics(p)
  /\ fileMu' = None
  /\ saving' = [s \in Services |-> None]
  /\ reading' = NotReading
  /\ services' = Off
  /\ UNCHANGED <<memory, written, clash, torn>>

\* The services a constructor may make of a section, for a name it looks up in
\* the registry; when it fails, the service is off until the file changes.
Configured(s, ref) ==
  LET fit == {id \in IDs : Loaded[id] # None /\ (ref = None \/ id = ref \/ id[2] = ref)} IN
  IF memory[s] = None \/ fit = {} THEN {Off[s]}
  ELSE {[ref |-> memory[s], model |-> [id |-> id, url |-> Loaded[id]]] : id \in fit}

Started ==
  \E a \in Configured("activity", None),
     c \in Configured("consolidation", memory["consolidation"]) :
    /\ services' = [Off EXCEPT !["activity"] = a, !["consolidation"] = c]
    /\ Start(IF \E s \in Services : memory[s] # None /\ services'[s] = Off[s]
             THEN {"memory"} ELSE {})
    /\ UNCHANGED <<memory, fileMu, saving, reading, written, clash, torn>>

Next ==
  \/ RegistryStep /\ UNCHANGED configVars
  \/ ConfigNext
  \/ Stopped \/ Started

Spec == Init /\ [][Next]_vars

-----------------------------------------------------------------------------
(***************************************************************************)
(* Properties                                                              *)
(***************************************************************************)

\* A section of memory.toml is what was last saved of it, or edited: a save of
\* the one service takes nothing away from the other, unless the file was edited
\* by hand in the middle of it, or its write failed and the section has not been
\* saved or edited since.
SectionsSurvive ==
  ~clash => \A s \in Services : memory[s] = written[s] \/ (s \in torn /\ memory[s] = None)

\* Once nothing is under way, the consolidation is configured by its section of
\* the file, and the model it has is one its name fits: unless the section is
\* absent, the watcher dropped the last change, or the action on it failed, of
\* which the journal's model may be the reason.
ConsolidatorFollowsFile ==
  LET c == services["consolidation"] section == memory["consolidation"] IN
  up /\ Quiet("memory") /\ "memory" \notin missed /\ section # None =>
    c.ref = section /\ c.model # None /\ section \in {c.model.id, c.model.id[2]}
=============================================================================
