------------------------------ MODULE ClientsProofs ------------------------------
(***************************************************************************)
(* Proofs about the clients and about what the program hands to the        *)
(* outside, and about all of them together as MCClients composes them: for *)
(* every number of collections, samples, changes and starts, every         *)
(* capacity, limit and search path.                                        *)
(***************************************************************************)
EXTENDS MCClients, MonitorDataProofs, Integers, FiniteSetTheorems, SequenceTheorems, TLAPS

(* Serve *)

(* No response has had a snapshot newer than the one in the cache.         *)
ServeInv ==
    /\ ServeTypeOK
    /\ response.body <= cache
    /\ response.newest <= cache

(* The responses that a connection can end with. *)
LEMMA ResponseGrows ==
  ASSUME ServeInv, Respond
  PROVE  /\ server \in {"line", "no line"} /\ server' = "accepting" /\ line' \in Line
         /\ UNCHANGED <<refreshVars, received>>
         /\ response' \in [status : Statuses, body : 0 .. Refreshes, newest : 0 .. Refreshes]
         /\ response'.body <= cache /\ response'.newest <= cache
         /\ response'.status = "200" =>
              /\ server = "line" /\ Classify(line) = "200"
              /\ response'.body = cache
  <1> DEFINE status == IF server = "line" THEN Classify(line) ELSE "400"
             highest == IF response.body > response.newest THEN response.body
                        ELSE response.newest
  <1>1. /\ response \in [status : Statuses, body : 0 .. Refreshes, newest : 0 .. Refreshes]
        /\ response.body \in 0 .. Refreshes /\ response.newest \in 0 .. Refreshes
        /\ captured \in 0 .. Refreshes /\ cache \in 0 .. captured
        /\ response.body <= cache /\ response.newest <= cache
    BY DEF ServeInv, ServeTypeOK
  <1>2. cache \in 0 .. Refreshes /\ highest \in 0 .. Refreshes /\ highest <= cache
    BY <1>1, ServeAssumption DEF ServeAssumption
  <1>3. status \in Statuses
    BY DEF Classify, Statuses
  <1>4. response' = IF status = "200"
                    THEN [status |-> status, body |-> cache, newest |-> highest]
                    ELSE [response EXCEPT !.status = status]
    BY DEF Respond
  <1>5. CASE status = "200"
    <2>1. response' = [status |-> status, body |-> cache, newest |-> highest]
      BY <1>4, <1>5
    <2>2. server = "line" /\ Classify(line) = "200"
      BY <1>5
    <2> HIDE DEF status, highest
    <2> QED BY <1>1, <1>2, <1>3, <2>1, <2>2 DEF Respond, Unread, Line
  <1>6. CASE status # "200"
    <2>1. response' = [response EXCEPT !.status = status]
      BY <1>4, <1>6
    <2> HIDE DEF status, highest
    <2>2. /\ response' \in [status : Statuses, body : 0 .. Refreshes, newest : 0 .. Refreshes]
          /\ response'.status = status
          /\ response'.body = response.body /\ response'.newest = response.newest
      BY <1>1, <1>3, <2>1
    <2> QED BY <1>1, <1>6, <2>2 DEF Respond, Unread, Line
  <1> QED BY <1>5, <1>6

(* The cache never goes back to an older snapshot, nor past what was       *)
(* collected.                                                              *)
LEMMA CacheGrows ==
  ASSUME ServeInv, [ServeNext]_serveVars
  PROVE  /\ refresher' \in {"sleeping", "collected", "ended"}
         /\ captured' \in 0 .. Refreshes
         /\ cache' \in 0 .. captured' /\ cache' >= cache
  <1>1. /\ refresher \in {"sleeping", "collected", "ended"}
        /\ captured \in Nat /\ cache \in Nat
        /\ captured <= Refreshes /\ cache <= captured
        /\ Refreshes \in Nat
    <2>1. /\ refresher \in {"sleeping", "collected", "ended"}
          /\ captured \in 0 .. Refreshes /\ cache \in 0 .. captured
      BY DEF ServeInv, ServeTypeOK
    <2> QED BY <2>1, ServeAssumption DEF ServeAssumption
  <1>2. CASE CollectSnapshot
    <2>1. /\ cache' = cache
          /\ captured' \in Nat /\ captured' >= captured /\ captured' <= Refreshes
      BY <1>1, <1>2 DEF CollectSnapshot
    <2>2. refresher' \in {"collected", "ended"}
      BY <1>2 DEF CollectSnapshot
    <2> QED BY <1>1, <2>1, <2>2
  <1>3. CASE PublishSnapshot
    <2>1. /\ captured' = captured /\ refresher' = "sleeping"
          /\ cache' = captured \/ cache' = cache
      BY <1>3 DEF PublishSnapshot
    <2> QED BY <1>1, <2>1
  <1>4. CASE UNCHANGED refreshVars
    BY <1>1, <1>4 DEF refreshVars
  <1> QED BY <1>2, <1>3, <1>4 DEF ServeNext, Refresher, Connection, serveVars,
             AcceptConnection, ReadBytes, ReadEndOfFile, ConnectionFails, Respond,
             refreshVars

LEMMA ServeInductive ==
  ASSUME ServeInv, [ServeNext]_serveVars
  PROVE  ServeInv'
  <1>1. /\ refresher \in {"sleeping", "collected", "ended"}
        /\ captured \in 0 .. Refreshes /\ cache \in 0 .. captured
        /\ server \in {"accepting", "reading", "line", "no line"}
        /\ line \in Line
        /\ received \in 0 .. LineLimit
        /\ response \in [status : Statuses, body : 0 .. Refreshes, newest : 0 .. Refreshes]
        /\ response.body <= cache /\ response.newest <= cache
    BY DEF ServeInv, ServeTypeOK
  <1>2. /\ response.body \in 0 .. Refreshes /\ response.newest \in 0 .. Refreshes
        /\ response.body <= cache /\ response.newest <= cache
    BY <1>1
  <1>3. LineLimit \in Nat \ {0} /\ received \in 0 .. LineLimit
    BY <1>1, ServeAssumption DEF ServeAssumption
  <1>4. /\ refresher' \in {"sleeping", "collected", "ended"}
        /\ captured' \in 0 .. Refreshes
        /\ cache' \in 0 .. captured' /\ cache' >= cache
    BY CacheGrows
  <1>5. CASE Refresher
    <2>1. UNCHANGED <<server, line, received, response>>
      BY <1>5 DEF Refresher, CollectSnapshot, PublishSnapshot, connectionVars
    <2>2. cache \in Nat /\ cache' \in Nat
      <3>1. /\ captured \in 0 .. Refreshes /\ cache \in 0 .. captured
            /\ Refreshes \in Nat
        BY <1>1, ServeAssumption DEF ServeAssumption
      <3> QED BY <1>4, <3>1
    <2>3. response.body <= cache' /\ response.newest <= cache'
      BY <1>2, <1>4, <2>2
    <2> QED BY <1>1, <1>4, <2>1, <2>3 DEF ServeInv, ServeTypeOK
  <1>6. CASE AcceptConnection
    BY <1>1, <1>3, <1>6 DEF AcceptConnection, refreshVars, ServeInv, ServeTypeOK
  <1>7. CASE ReadBytes
    <2>1. /\ received' \in 0 .. LineLimit
          /\ server' \in {"line", "no line", "reading"} /\ line' \in Line
      <3>1. PICK n \in 1 .. LineLimit - received :
              /\ received' = received + n
              /\ \/ server' = "line" /\ line' \in Line
                 \/ /\ server' = IF received + n = LineLimit THEN "no line" ELSE "reading"
                    /\ UNCHANGED line
        BY <1>7 DEF ReadBytes
      <3>2. received' \in 0 .. LineLimit
        <4>1. received' = received + n
          BY <3>1
        <4>2. received \in Nat /\ LineLimit \in Nat /\ n \in Nat /\ n <= LineLimit - received
          BY <1>3
        <4> QED BY <4>1, <4>2
      <3> QED BY <1>1, <3>1, <3>2
    <2> QED BY <1>1, <1>7, <2>1 DEF ReadBytes, refreshVars, ServeInv, ServeTypeOK
  <1>8. CASE ReadEndOfFile
    BY <1>1, <1>8 DEF ReadEndOfFile, refreshVars, ServeInv, ServeTypeOK
  <1>9. CASE ConnectionFails
    BY <1>1, <1>9 DEF ConnectionFails, refreshVars, Unread, Line, ServeInv, ServeTypeOK
  <1>10. CASE Respond
    BY <1>1, <1>10, ResponseGrows DEF refreshVars, ServeInv, ServeTypeOK
  <1>11. CASE UNCHANGED serveVars
    BY <1>1, <1>11 DEF serveVars, ServeInv, ServeTypeOK
  <1> QED BY <1>5, <1>6, <1>7, <1>8, <1>9, <1>10, <1>11 DEF ServeNext, Connection

LEMMA ServeStarts == ServeInit => ServeInv
  BY ServeAssumption DEF ServeAssumption, ServeInit, ServeInv, ServeTypeOK, Unread, Line,
     Statuses

(* A response with the snapshot answers a whole request for it, and is not *)
(* older than one before.                                                  *)
InOrder ==
    response' # response /\ response'.status = "200" =>
        /\ server = "line" /\ line.parts = 3 /\ line.get /\ line.root /\ line.http1
        /\ response'.body >= response'.newest

LEMMA ServedStep ==
  ASSUME ServeInv, [ServeNext]_serveVars
  PROVE  InOrder
  <1> SUFFICES ASSUME response' # response, response'.status = "200"
               PROVE  /\ server = "line" /\ line.parts = 3
                      /\ line.get /\ line.root /\ line.http1
                      /\ response'.body >= response'.newest
    BY DEF InOrder
  <1>1. Respond
    BY DEF ServeNext, Refresher, Connection, serveVars, CollectSnapshot, PublishSnapshot,
           AcceptConnection, ReadBytes, ReadEndOfFile, ConnectionFails, connectionVars
  <1>2. /\ server = "line" /\ Classify(line) = "200"
        /\ response'.body = cache /\ response'.newest <= cache
        /\ response'.newest \in 0 .. Refreshes
    BY <1>1, ResponseGrows
  <1>3. line \in Line /\ cache \in 0 .. captured /\ captured \in 0 .. Refreshes
    BY DEF ServeInv, ServeTypeOK
  <1>4. line.parts = 3 /\ line.get /\ line.root /\ line.http1
    BY <1>2, <1>3 DEF Classify, Line
  <1> QED
    BY <1>2, <1>3, <1>4

(* handle_connection answers with the snapshot only a whole request line   *)
(* that asks for it, and no client gets an older snapshot than a client    *)
(* before it, whatever the collecting thread and the clients do.           *)
THEOREM ServesInOrder == ServeSpec => ServedInOrder
  <1>1. ServeInv /\ [ServeNext]_serveVars => [InOrder]_serveVars
    BY ServedStep
  <1>2. ServeInv /\ [ServeNext]_serveVars => ServeInv'
    BY ServeInductive
  <1> QED
    BY <1>1, <1>2, ServeStarts, PTL DEF ServeSpec, ServedInOrder, InOrder

-----------------------------------------------------------------------------
(* SettingsStore *)

(* What is renamed over the settings is what the save wrote; a program     *)
(* that is not running saves nothing, and one that was reset only leaves.  *)
SettingsInv ==
    /\ SettingsTypeOK
    /\ SettingsSurvive
    /\ ResetStays
    /\ saving.at = "rename" => disk.temporary = {settings}
    /\ saving.at = "unlink" => disk.temporary = {}
    /\ gui.loop = "off" => saving.at = "no" /\ ~gui.resetPending
    /\ gui.resetPending => gui.loop = "quitting"
    /\ saving.at \in {"reset", "unlink"} => gui.loop = "running" /\ saving.then = "quitting"
    /\ saving.at \in {"write", "rename"} =>
          saving.then \in {"running", "off"} /\ (gui.resetPending => saving.then = "off")
    /\ gui.resetPending /\ ~gui.trayQuit => saving.at = "no"
    /\ gui.loop = "quitting" => gui.resetPending

(* The files, the program and a save in their types, field by field.       *)
LEMMA SettingsFields ==
  ASSUME SettingsTypeOK
  PROVE  /\ disk = [file |-> disk.file, temporary |-> disk.temporary]
         /\ gui = [loop |-> gui.loop, resetPending |-> gui.resetPending,
                   trayQuit |-> gui.trayQuit]
         /\ saving = [at |-> saving.at, then |-> saving.then]
         /\ used = [versions |-> used.versions, runs |-> used.runs]
         /\ used.versions \in 0 .. MaxVersion /\ used.runs \in 0 .. MaxRuns
         /\ gui.loop \in {"off", "running", "quitting"}
         /\ gui.resetPending \in BOOLEAN /\ gui.trayQuit \in BOOLEAN
         /\ saving.at \in {"no", "write", "rename", "reset", "unlink"}
         /\ saving.then \in {"running", "quitting", "off"}
  BY DEF SettingsTypeOK

LEMMA SettingsStart == SettingsInit => SettingsInv
  <1> SUFFICES ASSUME SettingsInit PROVE SettingsInv
    OBVIOUS
  <1>1. MaxVersion \in Nat /\ MaxRuns \in Nat
    BY SettingsAssumption DEF SettingsAssumption
  <1>2. SettingsTypeOK
    <2>1. disk \in [file : {{}} \cup { {c} : c \in Contents },
                   temporary : {{}} \cup { {c} : c \in Contents }]
      BY DEF SettingsInit
    <2>2. saved \in {{}} \cup { {v} : v \in 0 .. MaxVersion }
      BY DEF SettingsInit
    <2>3. used \in [versions : 0 .. MaxVersion, runs : 0 .. MaxRuns]
      BY <1>1 DEF SettingsInit
    <2> QED BY <1>1, <2>1, <2>2, <2>3 DEF SettingsInit, SettingsTypeOK, GuiOff, NotSaving, Defaults
  <1>3. SettingsSurvive /\ ResetStays
    BY DEF SettingsInit, SettingsSurvive, ResetStays, GuiOff
  <1> QED BY <1>2, <1>3 DEF SettingsInit, SettingsInv, GuiOff, NotSaving

(* The end of a save or of its failure leaves the program running or off.  *)
LEMMA AfterSave ==
  ASSUME SettingsInv, saving.at \in {"write", "rename"}, Afterwards
  PROVE  /\ saving' = NotSaving
         /\ gui' = [loop |-> gui'.loop, resetPending |-> gui'.resetPending,
                    trayQuit |-> gui'.trayQuit]
         /\ gui'.loop \in {"off", "running", "quitting"}
         /\ gui'.resetPending \in BOOLEAN /\ gui'.trayQuit \in BOOLEAN
         /\ gui'.loop = "off" => ~gui'.resetPending
         /\ gui'.resetPending => gui'.loop = "quitting"
         /\ gui'.resetPending => gui.resetPending /\ gui'.trayQuit = gui.trayQuit
         /\ gui'.loop = "quitting" => gui'.resetPending
  <1> QED BY SettingsFields DEF Afterwards, SettingsInv, GuiOff

(* The settings that are loaded are settings.                              *)
LEMMA LoadedSettings ==
  ASSUME SettingsTypeOK
  PROVE  Loaded \in 0 .. MaxVersion
  <1>1. MaxVersion \in Nat
    BY SettingsAssumption DEF SettingsAssumption
  <1>2. disk.file \in {{}} \cup { {c} : c \in Contents }
    BY DEF SettingsTypeOK
  <1>3. CASE disk.file \in {{}, {Broken}}
    BY <1>1, <1>3 DEF Loaded, Defaults
  <1>4. CASE disk.file \notin {{}, {Broken}}
    <2>1. PICK c \in Contents : disk.file = {c}
      BY <1>2, <1>4
    <2>2. Loaded = c
      BY <1>4, <2>1 DEF Loaded
    <2>3. c # Broken
      BY <1>4, <2>1
    <2> QED BY <1>1, <2>2, <2>3 DEF Contents, Broken
  <1> QED BY <1>3, <1>4

LEMMA SettingsInductive ==
  ASSUME SettingsInv, [SettingsNext]_settingsVars
  PROVE  SettingsInv'
  <1>1. /\ SettingsTypeOK /\ SettingsSurvive /\ ResetStays
        /\ MaxVersion \in Nat /\ MaxRuns \in Nat
    BY SettingsAssumption DEF SettingsInv, SettingsAssumption
  <1> USE <1>1
  <1>2. CASE Launch
    <2>1. SettingsTypeOK'
      <3>1. settings' \in 0 .. MaxVersion
        BY <1>2, LoadedSettings DEF Launch
      <3>2. used' = [versions |-> used.versions, runs |-> used.runs + 1]
        BY <1>2, SettingsFields DEF Launch
      <3>3. used.versions \in 0 .. MaxVersion /\ used.runs + 1 \in 0 .. MaxRuns
        BY <1>2, SettingsFields DEF Launch
      <3>4. used' \in [versions : 0 .. MaxVersion, runs : 0 .. MaxRuns]
        BY <3>2, <3>3
      <3>5. gui' \in [loop : {"off", "running", "quitting"}, resetPending : BOOLEAN,
                     trayQuit : BOOLEAN]
        BY <1>2 DEF Launch, GuiOff
      <3>6. UNCHANGED <<disk, saving, saved, edited>>
        BY <1>2 DEF Launch
      <3> QED BY <3>1, <3>4, <3>5, <3>6 DEF SettingsTypeOK
    <2>2. SettingsSurvive' /\ ResetStays'
      BY <1>2, SettingsFields, LoadedSettings DEF Launch, GuiOff, Loaded, Defaults, SettingsInv, SettingsSurvive, ResetStays
    <2> QED BY <1>2, <2>1, <2>2, SettingsFields, LoadedSettings DEF Launch, GuiOff, Loaded, Defaults, SettingsInv
  <1>3. CASE ChangeSettings
    <2>1. SettingsTypeOK'
      BY <1>3, SettingsFields DEF ChangeSettings, Idle, BeginSave, SettingsTypeOK
    <2>2. SettingsSurvive' /\ ResetStays'
      BY <1>3, SettingsFields DEF ChangeSettings, Idle, BeginSave, SettingsInv, SettingsSurvive, ResetStays
    <2> QED BY <1>3, <2>1, <2>2, SettingsFields DEF ChangeSettings, Idle, BeginSave, SettingsInv
  <1>4. CASE CloseRequest
    <2>1. SettingsTypeOK'
      <3>1. gui' \in [loop : {"off", "running", "quitting"}, resetPending : BOOLEAN,
                     trayQuit : BOOLEAN]
        <4>1. gui' = GuiOff \/ gui' = gui
          BY <1>4 DEF CloseRequest
        <4>2. CASE gui' = GuiOff
          BY <4>2 DEF GuiOff
        <4>3. CASE gui' = gui
          BY <4>3 DEF SettingsTypeOK
        <4> QED BY <4>1, <4>2, <4>3
      <3>2. saving' \in [at : {"no", "write", "rename", "reset", "unlink"},
                      then : {"running", "quitting", "off"}]
        BY <1>4, SettingsFields DEF CloseRequest, BeginSave
      <3> QED BY <1>4, <3>1, <3>2 DEF CloseRequest, SettingsTypeOK
    <2>2. SettingsSurvive' /\ ResetStays'
      BY <1>4, SettingsFields DEF CloseRequest, Idle, BeginSave, GuiOff, SettingsInv, SettingsSurvive, ResetStays
    <2> QED BY <1>4, <2>1, <2>2, SettingsFields DEF CloseRequest, Idle, BeginSave, GuiOff, SettingsInv
  <1>5. CASE TrayQuits
    <2>1. SettingsTypeOK'
      BY <1>5, SettingsFields DEF TrayQuits, Idle, BeginSave, SettingsTypeOK
    <2>2. SettingsSurvive' /\ ResetStays'
      BY <1>5, SettingsFields DEF TrayQuits, Idle, BeginSave, SettingsInv, SettingsSurvive, ResetStays
    <2> QED BY <1>5, <2>1, <2>2, SettingsFields DEF TrayQuits, Idle, BeginSave, SettingsInv
  <1>6. CASE LoopEnds
    <2>1. SettingsTypeOK'
      BY <1>6, SettingsFields DEF LoopEnds, Idle, GuiOff, SettingsTypeOK
    <2>2. SettingsSurvive' /\ ResetStays'
      BY <1>6, SettingsFields DEF LoopEnds, Idle, GuiOff, SettingsInv, SettingsSurvive, ResetStays
    <2> QED BY <1>6, <2>1, <2>2, SettingsFields DEF LoopEnds, Idle, GuiOff, SettingsInv
  <1>7. CASE WriteTemporary
    <2>1. SettingsTypeOK'
      BY <1>7, SettingsFields, AfterSave DEF WriteTemporary, NotSaving, Contents, Broken, SettingsTypeOK
    <2>2. SettingsSurvive' /\ ResetStays'
      BY <1>7, SettingsFields, AfterSave DEF WriteTemporary, NotSaving, Contents, Broken, SettingsInv, SettingsSurvive, ResetStays
    <2> QED BY <1>7, <2>1, <2>2, SettingsFields, AfterSave DEF WriteTemporary, NotSaving, Contents, Broken, SettingsInv
  <1>8. CASE RenameTemporary
    <2>1. SettingsTypeOK'
      <3>1. disk' \in [file : {{}} \cup { {c} : c \in Contents },
                    temporary : {{}} \cup { {c} : c \in Contents }]
        BY <1>8, SettingsFields DEF RenameTemporary, SettingsTypeOK
      <3>2. saved' \in {{}} \cup { {v} : v \in 0 .. MaxVersion } /\ edited' \in BOOLEAN
        BY <1>8 DEF RenameTemporary, SettingsTypeOK
      <3>3. gui' \in [loop : {"off", "running", "quitting"}, resetPending : BOOLEAN,
                     trayQuit : BOOLEAN]
        BY <1>8, AfterSave DEF RenameTemporary
      <3>4. saving' \in [at : {"no", "write", "rename", "reset", "unlink"},
                      then : {"running", "quitting", "off"}]
        BY <1>8, AfterSave DEF RenameTemporary, NotSaving
      <3> QED BY <1>8, <3>1, <3>2, <3>3, <3>4 DEF RenameTemporary, SettingsTypeOK
    <2>2. SettingsSurvive' /\ ResetStays'
      BY <1>8, SettingsFields, AfterSave DEF RenameTemporary, NotSaving, SettingsInv, SettingsSurvive, ResetStays
    <2> QED BY <1>8, <2>1, <2>2, SettingsFields, AfterSave DEF RenameTemporary, NotSaving, SettingsInv
  <1>9. CASE BeginReset
    <2>1. SettingsTypeOK'
      BY <1>9, SettingsFields DEF BeginReset, Idle, SettingsTypeOK
    <2>2. SettingsSurvive' /\ ResetStays'
      BY <1>9, SettingsFields DEF BeginReset, Idle, SettingsInv, SettingsSurvive, ResetStays
    <2> QED BY <1>9, <2>1, <2>2, SettingsFields DEF BeginReset, Idle, SettingsInv
  <1>10. CASE RemoveTemporary
    <2>1. SettingsTypeOK'
      BY <1>10, SettingsFields DEF RemoveTemporary, ResetFails, NotSaving, SettingsTypeOK
    <2>2. SettingsSurvive' /\ ResetStays'
      BY <1>10, SettingsFields DEF RemoveTemporary, ResetFails, NotSaving, SettingsInv, SettingsSurvive, ResetStays
    <2> QED BY <1>10, <2>1, <2>2, SettingsFields DEF RemoveTemporary, ResetFails, NotSaving, SettingsInv
  <1>11. CASE RemoveFile
    <2>1. CASE ResetFails
      <3>1. saving' \in [at : {"no", "write", "rename", "reset", "unlink"},
                      then : {"running", "quitting", "off"}]
        BY <2>1 DEF ResetFails, NotSaving
      <3>2. SettingsTypeOK'
        BY <1>11, <2>1, <3>1 DEF RemoveFile, ResetFails, SettingsTypeOK
      <3> QED BY <1>11, <2>1, <3>2
              DEF RemoveFile, ResetFails, NotSaving, SettingsInv, SettingsSurvive, ResetStays
    <2>2. CASE ~ResetFails
      <3>1. /\ disk' = [file |-> {}, temporary |-> {}]
            /\ gui' = [loop |-> "quitting", resetPending |-> TRUE, trayQuit |-> gui.trayQuit]
            /\ saved' = {} /\ edited' = FALSE /\ saving' = NotSaving
            /\ UNCHANGED <<settings, used>>
        BY <1>11, <2>2, SettingsFields DEF RemoveFile, SettingsInv
      <3>2. SettingsTypeOK'
        <4>1. disk' \in [file : {{}} \cup { {c} : c \in Contents },
                    temporary : {{}} \cup { {c} : c \in Contents }]
          BY <3>1
        <4>2. saved' \in {{}} \cup { {v} : v \in 0 .. MaxVersion }
          BY <3>1
        <4> QED BY <3>1, <4>1, <4>2, SettingsFields DEF SettingsTypeOK, NotSaving
      <3>3. SettingsSurvive' /\ ResetStays'
        BY <3>1 DEF SettingsSurvive, ResetStays
      <3> QED BY <3>1, <3>2, <3>3 DEF SettingsInv, NotSaving
    <2> QED BY <2>1, <2>2
  <1>12. CASE Killed
    <2>1. SettingsTypeOK'
      BY <1>12, SettingsFields DEF Killed, GuiOff, NotSaving, Contents, Broken, SettingsTypeOK
    <2>2. SettingsSurvive' /\ ResetStays'
      BY <1>12, SettingsFields DEF Killed, GuiOff, NotSaving, Contents, Broken, SettingsInv, SettingsSurvive, ResetStays
    <2> QED BY <1>12, <2>1, <2>2, SettingsFields DEF Killed, GuiOff, NotSaving, Contents, Broken, SettingsInv
  <1>13. CASE EditedByHand
    <2>1. SettingsTypeOK'
      BY <1>13, SettingsFields DEF EditedByHand, Contents, Broken, SettingsTypeOK
    <2>2. SettingsSurvive' /\ ResetStays'
      BY <1>13, SettingsFields DEF EditedByHand, Contents, Broken, SettingsInv, SettingsSurvive, ResetStays
    <2> QED BY <1>13, <2>1, <2>2, SettingsFields DEF EditedByHand, Contents, Broken, SettingsInv
  <1>14. CASE UNCHANGED settingsVars
    BY <1>14 DEF settingsVars, SettingsInv, SettingsTypeOK, SettingsSurvive, ResetStays
  <1> QED BY <1>2, <1>3, <1>4, <1>5, <1>6, <1>7, <1>8, <1>9, <1>10, <1>11, <1>12, <1>13, <1>14 DEF SettingsNext

(* Wherever a save or a reset fails or the program is killed, the settings *)
(* file is that of the last finished save, and closing the window after a  *)
(* reset does not bring the settings back.                                 *)
THEOREM SettingsAreKept == SettingsSpec => []SettingsKept
  <1>1. SettingsInv => SettingsKept
    BY DEF SettingsInv, SettingsKept
  <1> QED BY <1>1, SettingsStart, SettingsInductive, PTL DEF SettingsSpec

-----------------------------------------------------------------------------
(* LogWorker *)

(* The samples that wait in the channel: all of it but the Stop, which is  *)
(* sent last and once only.                                                *)
Waiting == IF logger.at = "joining" THEN Len(logQueue) - 1 ELSE Len(logQueue)

(* While the thread lives, what was accepted is what is in the file and    *)
(* then what waits, in that order.                                         *)
AcceptedIsKept ==
    LogAlive =>
        /\ logger.at # "idle"
        /\ Waiting >= 0 /\ Len(logFile) + Waiting = Len(accepted)
        /\ \A i \in 1 .. Waiting : logQueue[i] = accepted[Len(logFile) + i]
        /\ logger.at = "joining" => logQueue[Len(logQueue)] = LogStop

LogInv ==
    /\ LogTypeOK
    /\ Len(logFile) <= Len(accepted)
    /\ \A i \in 1 .. Len(logFile) : logFile[i] = accepted[i]
    /\ AcceptedIsKept
    /\ logThread = "none" => logger.at = "idle"
    /\ logThread \in {"none", "ended"} =>
          logger.at \in {"idle", "joining"} /\ Len(logFile) = Len(accepted)

LEMMA LogTypes ==
  ASSUME LogTypeOK
  PROVE  /\ logger.at \in {"idle", "logging", "sending stop", "joining"}
         /\ logger = [at |-> logger.at, notice |-> logger.notice]
         /\ logger.notice \in {"none", "started", "stopped", "busy", "error"}
         /\ logQueue \in Seq(0 .. MaxSamples) /\ Len(logQueue) \in Nat
         /\ logFile \in Seq(1 .. MaxSamples) /\ Len(logFile) \in Nat
         /\ accepted \in Seq(1 .. MaxSamples) /\ Len(accepted) \in Nat
         /\ logCount.samples \in 0 .. MaxSamples /\ logCount.logs \in 0 .. MaxLogs
         /\ logCount = [samples |-> logCount.samples, logs |-> logCount.logs]
         /\ MaxSamples \in Nat /\ MaxLogs \in Nat /\ LogCapacity \in Nat \ {0}
  <1>1. /\ logQueue \in Seq(0 .. MaxSamples)
        /\ logFile \in Seq(1 .. MaxSamples) /\ accepted \in Seq(1 .. MaxSamples)
    BY DEF LogTypeOK
  <1>2. Len(logQueue) \in Nat /\ Len(logFile) \in Nat /\ Len(accepted) \in Nat
    BY <1>1, LenProperties
  <1>3. MaxSamples \in Nat /\ MaxLogs \in Nat /\ LogCapacity \in Nat \ {0}
    BY LogAssumption DEF LogAssumption
  <1>4. /\ logger.at \in {"idle", "logging", "sending stop", "joining"}
        /\ logger = [at |-> logger.at, notice |-> logger.notice]
        /\ logger.notice \in {"none", "started", "stopped", "busy", "error"}
    BY DEF LogTypeOK
  <1>5. /\ logCount.samples \in 0 .. MaxSamples /\ logCount.logs \in 0 .. MaxLogs
        /\ logCount = [samples |-> logCount.samples, logs |-> logCount.logs]
    BY DEF LogTypeOK
  <1> QED BY <1>1, <1>2, <1>3, <1>4, <1>5

LEMMA LogStart == LogInit => LogInv
  <1> SUFFICES ASSUME LogInit PROVE LogInv
    OBVIOUS
  <1>1. MaxSamples \in Nat /\ MaxLogs \in Nat /\ LogCapacity \in Nat
    BY LogAssumption DEF LogAssumption
  <1>2. /\ <<>> \in Seq(0 .. MaxSamples) /\ <<>> \in Seq(1 .. MaxSamples)
        /\ Len(<<>>) = 0
    BY EmptySeq
  <1>3. LogTypeOK
    <2>1. logger \in [at : {"idle", "logging", "sending stop", "joining"},
                       notice : {"none", "started", "stopped", "busy", "error"}]
      BY DEF LogInit
    <2>2. logCount \in [samples : 0 .. MaxSamples, logs : 0 .. MaxLogs]
      BY <1>1 DEF LogInit
    <2>3. /\ logQueue = <<>> /\ logFile = <<>> /\ accepted = <<>>
          /\ logThread = "none" /\ logError = FALSE
      BY DEF LogInit
    <2>4. logQueue \in Seq(0 .. MaxSamples) /\ Len(logQueue) <= LogCapacity
      BY <1>1, <1>2, <2>3
    <2>5. {logFile, accepted} \subseteq Seq(1 .. MaxSamples)
      BY <1>2, <2>3
    <2> QED BY <2>1, <2>2, <2>3, <2>4, <2>5 DEF LogTypeOK
  <1> QED BY <1>2, <1>3 DEF LogInit, LogInv, AcceptedIsKept, LogAlive

(* What the main loop has sent is in the channel behind what was there.    *)
LEMMA StartLoggingKeeps ==
  ASSUME LogInv, StartLogging
  PROVE  LogInv'
  <1>1. CASE UNCHANGED <<logQueue, logThread, logFile, accepted, logError, logCount>>
             /\ logger' = [logger EXCEPT !.notice = "error"]
    <2>1. logger' = [at |-> logger.at, notice |-> "error"]
      BY <1>1, LogTypes DEF LogInv
    <2>2. logger' \in [at : {"idle", "logging", "sending stop", "joining"},
                       notice : {"none", "started", "stopped", "busy", "error"}]
      BY <2>1, LogTypes DEF LogInv
    <2> QED BY <1>1, <2>1, <2>2 DEF LogInv, LogTypeOK, AcceptedIsKept, LogAlive, Waiting
  <1>2. CASE ~ (UNCHANGED <<logQueue, logThread, logFile, accepted, logError, logCount>>
                /\ logger' = [logger EXCEPT !.notice = "error"])
    <2> DEFINE n == logCount.samples + 1
    <2>1. /\ logger' = [at |-> "logging", notice |-> "started"]
          /\ logThread' = "opening"
          /\ logCount' = [samples |-> n, logs |-> logCount.logs + 1]
          /\ logQueue' = <<n>> /\ accepted' = <<n>>
          /\ logFile' = <<>> /\ logError' = FALSE
          /\ logCount.logs < MaxLogs /\ logCount.samples < MaxSamples
      BY <1>2 DEF StartLogging
    <2>2. n \in 1 .. MaxSamples /\ logCount.logs + 1 \in 0 .. MaxLogs /\ LogCapacity >= 1
      <3>1. /\ logCount.samples \in 0 .. MaxSamples /\ logCount.logs \in 0 .. MaxLogs
            /\ MaxSamples \in Nat /\ MaxLogs \in Nat /\ LogCapacity \in Nat \ {0}
        BY LogTypes DEF LogInv
      <3>2. logCount.logs < MaxLogs /\ logCount.samples < MaxSamples
        BY <2>1
      <3> QED BY <3>1, <3>2
    <2> HIDE DEF n
    <2>3. /\ <<n>> \in Seq(0 .. MaxSamples) /\ <<n>> \in Seq(1 .. MaxSamples)
          /\ Len(<<n>>) = 1 /\ <<n>>[1] = n
          /\ <<>> \in Seq(1 .. MaxSamples) /\ Len(<<>>) = 0
      BY <2>2, EmptySeq
    <2>4. LogTypeOK'
      <3>1. logger' \in [at : {"idle", "logging", "sending stop", "joining"},
                       notice : {"none", "started", "stopped", "busy", "error"}]
        BY <2>1
      <3>2. logCount' \in [samples : 0 .. MaxSamples, logs : 0 .. MaxLogs]
        <4>1. n \in 0 .. MaxSamples
          BY <2>2
        <4> QED BY <2>1, <2>2, <4>1
      <3>3. /\ logQueue' = <<n>> /\ accepted' = <<n>> /\ logFile' = <<>>
            /\ logThread' = "opening" /\ logError' = FALSE
        BY <2>1
      <3> QED BY <2>2, <2>3, <3>1, <3>2, <3>3 DEF LogTypeOK
    <2>5. Waiting' = 1 /\ AcceptedIsKept'
      BY <2>1, <2>3 DEF Waiting, AcceptedIsKept
    <2> QED BY <2>1, <2>3, <2>4, <2>5 DEF LogInv
  <1> QED BY <1>1, <1>2

LEMMA LogSampleKeeps ==
  ASSUME LogInv, LogSample
  PROVE  LogInv'
  <1> DEFINE n == logCount.samples + 1
  <1>1. /\ logger.at = "logging"
        /\ logCount' = [samples |-> n, logs |-> logCount.logs]
        /\ UNCHANGED <<logThread, logFile, logError>>
    BY LogTypes DEF LogSample, LogInv
  <1>2. n \in 1 .. MaxSamples
    <2>1. logCount.samples \in 0 .. MaxSamples /\ MaxSamples \in Nat
      BY LogTypes DEF LogInv
    <2>2. logCount.samples < MaxSamples
      BY DEF LogSample
    <2> QED BY <2>1, <2>2
  <1>3. logCount' \in [samples : 0 .. MaxSamples, logs : 0 .. MaxLogs]
    <2>1. logCount.logs \in 0 .. MaxLogs
      BY LogTypes DEF LogInv
    <2>2. n \in 0 .. MaxSamples
      <3> HIDE DEF n
      <3> QED BY <1>2
    <2> HIDE DEF n
    <2> QED BY <1>1, <2>1, <2>2
  <1>4. logCount'.samples = n
    BY <1>1
  <1> HIDE DEF n
  <1>5. CASE Accept(n) /\ accepted' = Append(accepted, n) /\ UNCHANGED logger
    <2>1. /\ LogAlive /\ Len(logQueue) < LogCapacity
          /\ logQueue' = Append(logQueue, n) /\ accepted' = Append(accepted, n)
          /\ logger' = logger
      BY <1>5 DEF Accept
    <2>2. /\ logQueue \in Seq(0 .. MaxSamples) /\ Len(logQueue) \in Nat
          /\ accepted \in Seq(1 .. MaxSamples) /\ Len(accepted) \in Nat
          /\ Len(logFile) \in Nat /\ LogCapacity \in Nat
          /\ n \in 0 .. MaxSamples
      <3>1. LogTypeOK
        BY DEF LogInv
      <3>2. n \in 0 .. MaxSamples
        BY <1>2
      <3>3. LogCapacity \in Nat
        BY LogAssumption DEF LogAssumption
      <3> QED BY <3>1, <3>2, <3>3, LogTypes
    <2>3. /\ logQueue' \in Seq(0 .. MaxSamples) /\ Len(logQueue') = Len(logQueue) + 1
          /\ \A i \in 1 .. Len(logQueue) : logQueue'[i] = logQueue[i]
          /\ logQueue'[Len(logQueue) + 1] = n
      BY <2>1, <2>2, AppendProperties
    <2>4. /\ accepted' \in Seq(1 .. MaxSamples) /\ Len(accepted') = Len(accepted) + 1
          /\ \A i \in 1 .. Len(accepted) : accepted'[i] = accepted[i]
          /\ accepted'[Len(accepted) + 1] = n
      BY <1>2, <2>1, <2>2, AppendProperties
    <2>5. LogTypeOK'
      <3>1. Len(logQueue') <= LogCapacity
        BY <2>1, <2>2, <2>3
      <3> QED BY <1>1, <1>3, <2>1, <2>3, <2>4, <3>1 DEF LogInv, LogTypeOK
    <2>6. /\ Len(logFile) + Len(logQueue) = Len(accepted)
          /\ \A i \in 1 .. Len(logQueue) : logQueue[i] = accepted[Len(logFile) + i]
          /\ \A i \in 1 .. Len(logFile) : logFile[i] = accepted[i]
      BY <1>1, <2>1 DEF LogInv, AcceptedIsKept, Waiting
    <2>7. AcceptedIsKept'
      <3>1. Waiting' = Len(logQueue) + 1
        BY <1>1, <2>1, <2>3 DEF Waiting
      <3>2. /\ Waiting' >= 0 /\ Len(logFile') + Waiting' = Len(accepted')
        BY <1>1, <2>2, <2>4, <2>6, <3>1
      <3>3. ASSUME NEW i \in 1 .. Len(logQueue) + 1
            PROVE  logQueue'[i] = accepted'[Len(logFile) + i]
        <4>1. CASE i = Len(logQueue) + 1
          <5>1. Len(logFile) + i = Len(accepted) + 1
            <6>1. /\ Len(logQueue) \in Nat /\ Len(accepted) \in Nat /\ Len(logFile) \in Nat
                  /\ Len(logFile) + Len(logQueue) = Len(accepted)
              BY <2>2, <2>6
            <6> QED BY <4>1, <6>1
          <5> QED BY <2>3, <2>4, <4>1, <5>1
        <4>2. CASE i \in 1 .. Len(logQueue)
          <5>1. Len(logFile) + i \in 1 .. Len(accepted)
            BY <2>2, <2>6, <4>2
          <5> QED BY <2>3, <2>4, <2>6, <4>2, <5>1
        <4> QED BY <2>2, <4>1, <4>2
      <3> QED BY <1>1, <2>1, <3>1, <3>2, <3>3 DEF AcceptedIsKept
    <2>8. /\ Len(logFile) <= Len(accepted')
          /\ \A i \in 1 .. Len(logFile) : logFile[i] = accepted'[i]
      <3>1. Len(logFile) <= Len(accepted) /\ Len(logFile) <= Len(accepted')
        BY <2>2, <2>4, <2>6
      <3>2. \A i \in 1 .. Len(logFile) : i \in 1 .. Len(accepted)
        BY <2>2, <3>1
      <3> QED BY <2>4, <2>6, <3>1, <3>2
    <2> QED BY <1>1, <2>1, <2>5, <2>7, <2>8 DEF LogInv, LogAlive
  <1>6. CASE logger' = [logger EXCEPT !.notice = "busy"] /\ UNCHANGED <<logQueue, accepted>>
    <2>1. logger' = [at |-> logger.at, notice |-> "busy"]
      BY <1>6, LogTypes DEF LogInv
    <2>2. logger' \in [at : {"idle", "logging", "sending stop", "joining"},
                       notice : {"none", "started", "stopped", "busy", "error"}]
      BY <2>1, LogTypes DEF LogInv
    <2> QED BY <1>1, <1>3, <1>6, <2>1, <2>2
            DEF LogInv, LogTypeOK, AcceptedIsKept, LogAlive, Waiting
  <1> QED BY <1>4, <1>5, <1>6 DEF LogSample

(* The Stop is behind every sample.                                        *)
LEMMA SendLogStopKeeps ==
  ASSUME LogInv, SendLogStop
  PROVE  LogInv'
  <1>1. /\ logger.at = "sending stop"
        /\ logger' = [at |-> "joining", notice |-> logger.notice]
        /\ UNCHANGED <<logThread, logFile, accepted, logError, logCount>>
    BY LogTypes DEF SendLogStop, LogInv
  <1>2. logger' \in [at : {"idle", "logging", "sending stop", "joining"},
                        notice : {"none", "started", "stopped", "busy", "error"}]
    BY <1>1, LogTypes DEF LogInv
  <1>3. CASE LogAlive
    <2>1. Len(logQueue) < LogCapacity /\ logQueue' = Append(logQueue, LogStop)
      BY <1>3 DEF SendLogStop
    <2>2. /\ logQueue \in Seq(0 .. MaxSamples) /\ Len(logQueue) \in Nat
          /\ LogStop \in 0 .. MaxSamples /\ LogCapacity \in Nat
      <3>1. MaxSamples \in Nat /\ LogCapacity \in Nat
        BY LogAssumption DEF LogAssumption
      <3>2. LogTypeOK
        BY DEF LogInv
      <3>3. LogStop \in 0 .. MaxSamples
        BY <3>1 DEF LogStop
      <3> QED BY <3>1, <3>2, <3>3, LogTypes
    <2>3. /\ logQueue' \in Seq(0 .. MaxSamples) /\ Len(logQueue') = Len(logQueue) + 1
          /\ \A i \in 1 .. Len(logQueue) : logQueue'[i] = logQueue[i]
          /\ logQueue'[Len(logQueue) + 1] = LogStop
      BY <2>1, <2>2, AppendProperties
    <2>4. Len(logQueue') <= LogCapacity
      BY <2>1, <2>2, <2>3
    <2>5. LogTypeOK'
      BY <1>1, <1>2, <2>3, <2>4 DEF LogInv, LogTypeOK
    <2>6. Waiting' = Len(logQueue) /\ Waiting = Len(logQueue)
      <3>1. logger'.at = "joining" /\ logger.at # "joining"
        BY <1>1
      <3>2. Len(logQueue) \in Nat /\ Len(logQueue') = Len(logQueue) + 1
        BY <2>2, <2>3
      <3> QED BY <3>1, <3>2 DEF Waiting
    <2>7. AcceptedIsKept'
      BY <1>1, <1>3, <2>3, <2>6 DEF LogInv, AcceptedIsKept
    <2> QED BY <1>1, <1>3, <2>5, <2>7 DEF LogInv, LogAlive
  <1>4. CASE ~LogAlive
    <2>1. UNCHANGED logQueue
      BY <1>4 DEF SendLogStop
    <2> QED BY <1>1, <1>2, <1>4, <2>1 DEF LogInv, LogTypeOK, AcceptedIsKept, LogAlive
  <1> QED BY <1>3, <1>4

(* The head of what waits goes to the end of the file.                     *)
LEMMA WriteSampleKeeps ==
  ASSUME LogInv, WriteSample, ~LogThreadFails
  PROVE  LogInv'
  <1> DEFINE n == Head(logQueue)
  <1>1. /\ logThread = "running"
        /\ logQueue # <<>> /\ n # LogStop
        /\ logFile' = Append(logFile, n) /\ logQueue' = Tail(logQueue)
        /\ UNCHANGED <<logger, logThread, accepted, logError, logCount>>
    BY DEF WriteSample
  <1>2. /\ logQueue \in Seq(0 .. MaxSamples) /\ Len(logQueue) \in Nat
        /\ logFile \in Seq(1 .. MaxSamples) /\ Len(logFile) \in Nat
        /\ accepted \in Seq(1 .. MaxSamples) /\ Len(accepted) \in Nat
    <2>1. LogTypeOK
      BY DEF LogInv
    <2> QED BY <2>1, LogTypes
  <1>3. MaxSamples \in Nat /\ LogCapacity \in Nat
    BY LogAssumption DEF LogAssumption
  <1>4. Len(logQueue) >= 1 /\ n = logQueue[1]
    <2>1. Len(logQueue) \in Nat \ {0}
      BY <1>1, <1>2, EmptySeq
    <2> QED BY <1>2, <2>1
  <1>5. /\ logQueue' \in Seq(0 .. MaxSamples) /\ Len(logQueue') = Len(logQueue) - 1
        /\ \A i \in 1 .. Len(logQueue) - 1 : logQueue'[i] = logQueue[i + 1]
        /\ n \in 0 .. MaxSamples
    BY <1>1, <1>2, HeadTailProperties
  <1>6. n \in 1 .. MaxSamples
    <2> HIDE DEF n
    <2> QED BY <1>1, <1>3, <1>5 DEF LogStop
  <1>7. /\ logFile' \in Seq(1 .. MaxSamples) /\ Len(logFile') = Len(logFile) + 1
        /\ \A i \in 1 .. Len(logFile) : logFile'[i] = logFile[i]
        /\ logFile'[Len(logFile) + 1] = n
    BY <1>1, <1>2, <1>6, AppendProperties
  <1> HIDE DEF n
  <1>8. /\ logger.at # "idle"
        /\ Waiting >= 0 /\ Len(logFile) + Waiting = Len(accepted)
        /\ \A i \in 1 .. Waiting : logQueue[i] = accepted[Len(logFile) + i]
        /\ logger.at = "joining" => logQueue[Len(logQueue)] = LogStop
        /\ \A i \in 1 .. Len(logFile) : logFile[i] = accepted[i]
    BY <1>1 DEF LogInv, AcceptedIsKept, LogAlive
  <1>9. Waiting \in Nat /\ Waiting' = Waiting - 1
    BY <1>1, <1>2, <1>5, <1>8 DEF Waiting
  <1>10. Waiting >= 1
    <2>1. CASE logger.at = "joining"
      <3>1. Len(logQueue) # 1
        BY <1>1, <1>4, <1>8, <2>1
      <3>2. Len(logQueue) \in Nat /\ Len(logQueue) >= 1
        BY <1>2, <1>4
      <3>3. Waiting = Len(logQueue) - 1
        BY <2>1 DEF Waiting
      <3> QED BY <3>1, <3>2, <3>3
    <2>2. CASE logger.at # "joining"
      BY <1>4, <2>2 DEF Waiting
    <2> QED BY <2>1, <2>2
  <1>11. LogTypeOK'
    <2>1. Len(logQueue) <= LogCapacity
      BY DEF LogInv, LogTypeOK
    <2>2. Len(logQueue') <= LogCapacity
      BY <1>2, <1>3, <1>5, <2>1
    <2> QED BY <1>1, <1>5, <1>7, <2>2 DEF LogInv, LogTypeOK
  <1>12. Len(logFile') <= Len(accepted)
    BY <1>2, <1>7, <1>8, <1>9, <1>10
  <1>13. \A i \in 1 .. Len(logFile') : logFile'[i] = accepted[i]
    <2>1. n = accepted[Len(logFile) + 1]
      <3>1. 1 \in 1 .. Waiting
        BY <1>9, <1>10
      <3> QED BY <1>4, <1>8, <3>1
    <2>2. SUFFICES ASSUME NEW i \in 1 .. Len(logFile) + 1
                   PROVE  logFile'[i] = accepted[i]
      BY <1>7
    <2>3. CASE i = Len(logFile) + 1
      BY <1>7, <2>1, <2>3
    <2>4. CASE i \in 1 .. Len(logFile)
      BY <1>7, <1>8, <2>4
    <2> QED BY <1>2, <2>3, <2>4
  <1>14. AcceptedIsKept'
    <2>1. /\ Waiting' >= 0 /\ Len(logFile') + Waiting' = Len(accepted)
      BY <1>2, <1>7, <1>8, <1>9, <1>10
    <2>2. ASSUME NEW i \in 1 .. Waiting'
          PROVE  logQueue'[i] = accepted[Len(logFile') + i]
      <3>1. i \in 1 .. Len(logQueue) - 1 /\ i + 1 \in 1 .. Waiting
        <4>1. Waiting <= Len(logQueue)
          BY <1>2 DEF Waiting
        <4> QED BY <1>2, <1>9, <4>1
      <3>2. logQueue'[i] = accepted[Len(logFile) + (i + 1)]
        BY <1>5, <1>8, <3>1
      <3>3. Len(logFile') + i = Len(logFile) + (i + 1)
        BY <1>2, <1>7, <3>1
      <3> QED BY <3>2, <3>3
    <2>3. ASSUME logger.at = "joining"
          PROVE  logQueue'[Len(logQueue')] = LogStop
      <3>1. Len(logQueue) - 1 \in 1 .. Len(logQueue) - 1
        BY <1>2, <1>10, <2>3 DEF Waiting
      <3>2. (Len(logQueue) - 1) + 1 = Len(logQueue)
        BY <1>2
      <3>3. logQueue'[Len(logQueue) - 1] = logQueue[(Len(logQueue) - 1) + 1]
        BY <1>5, <3>1
      <3> QED BY <1>5, <1>8, <2>3, <3>2, <3>3
    <2> QED BY <1>1, <1>8, <2>1, <2>2, <2>3 DEF AcceptedIsKept
  <1> QED BY <1>1, <1>11, <1>12, <1>13, <1>14 DEF LogInv

(* Nothing waits behind a Stop, so that the thread ends with all written.  *)
LEMMA EndLogKeeps ==
  ASSUME LogInv, EndLog
  PROVE  LogInv'
  <1>1. /\ logThread = "running" /\ logQueue # <<>> /\ Head(logQueue) = LogStop
        /\ logQueue' = <<>> /\ logThread' = "ended"
        /\ UNCHANGED <<logger, logFile, accepted, logError, logCount>>
    BY DEF EndLog
  <1>2. /\ logQueue \in Seq(0 .. MaxSamples) /\ Len(logQueue) \in Nat
        /\ logFile \in Seq(1 .. MaxSamples) /\ Len(logFile) \in Nat
        /\ accepted \in Seq(1 .. MaxSamples) /\ Len(accepted) \in Nat
    <2>1. LogTypeOK
      BY DEF LogInv
    <2> QED BY <2>1, LogTypes
  <1>3. Len(logQueue) >= 1 /\ logQueue[1] = LogStop
    <2>1. Len(logQueue) \in Nat \ {0}
      BY <1>1, <1>2, EmptySeq
    <2> QED BY <1>1, <1>2, <2>1
  <1>4. /\ logger.at # "idle"
        /\ Waiting >= 0 /\ Len(logFile) + Waiting = Len(accepted)
        /\ \A i \in 1 .. Waiting : logQueue[i] = accepted[Len(logFile) + i]
    BY <1>1 DEF LogInv, AcceptedIsKept, LogAlive
  <1>5. Waiting = 0 /\ logger.at = "joining"
    <2>1. Waiting \in Nat
      BY <1>2, <1>4 DEF Waiting
    <2>2. ASSUME Waiting >= 1 PROVE FALSE
      <3>1. LogStop = accepted[Len(logFile) + 1]
        BY <1>3, <1>4, <2>1, <2>2
      <3>2. Len(logFile) + 1 \in 1 .. Len(accepted)
        BY <1>2, <1>4, <2>1, <2>2
      <3>3. accepted[Len(logFile) + 1] \in 1 .. MaxSamples
        BY <1>2, <3>2, ElementOfSeq
      <3> QED BY <3>1, <3>3 DEF LogStop
    <2>3. Waiting = 0
      BY <2>1, <2>2
    <2> QED BY <1>2, <1>3, <2>3 DEF Waiting
  <1>6. LogTypeOK'
    <2>1. <<>> \in Seq(0 .. MaxSamples) /\ Len(<<>>) <= LogCapacity
      <3>1. LogCapacity \in Nat
        BY LogAssumption DEF LogAssumption
      <3> QED BY <3>1, EmptySeq
    <2> QED BY <1>1, <2>1 DEF LogInv, LogTypeOK
  <1>7. Len(logFile) = Len(accepted)
    BY <1>2, <1>4, <1>5
  <1> QED BY <1>1, <1>5, <1>6, <1>7 DEF LogInv, AcceptedIsKept, LogAlive

LEMMA LogThreadFailsKeeps ==
  ASSUME LogInv, LogAlive, LogThreadFails
  PROVE  LogInv'
  <1>1. /\ logThread' = "failed" /\ logError' = TRUE /\ logQueue' = <<>>
        /\ UNCHANGED <<logger, logFile, accepted, logCount>>
    BY DEF LogThreadFails
  <1>2. <<>> \in Seq(0 .. MaxSamples) /\ Len(<<>>) <= LogCapacity
    <2>1. LogCapacity \in Nat
      BY LogAssumption DEF LogAssumption
    <2> QED BY <2>1, EmptySeq
  <1>3. LogTypeOK'
    BY <1>1, <1>2 DEF LogInv, LogTypeOK
  <1> QED BY <1>1, <1>3 DEF LogInv, AcceptedIsKept, LogAlive

LEMMA LogInductive ==
  ASSUME LogInv, [LogNext]_logVars
  PROVE  LogInv'
  <1>1. CASE StartLogging
    BY <1>1, StartLoggingKeeps
  <1>2. CASE LogSample
    BY <1>2, LogSampleKeeps
  <1>3. CASE FindLogError
    <2>1. logger' = [at |-> "sending stop", notice |-> "error"] /\ logger.at = "logging"
      BY <1>3 DEF FindLogError
    <2>2. logger' \in [at : {"idle", "logging", "sending stop", "joining"},
                        notice : {"none", "started", "stopped", "busy", "error"}]
      BY <2>1
    <2>3. logError' \in BOOLEAN /\ UNCHANGED <<logQueue, logThread, logFile, accepted, logCount>>
      BY <1>3 DEF FindLogError, LogInv, LogTypeOK
    <2>4. LogTypeOK'
      BY <2>2, <2>3 DEF LogInv, LogTypeOK
    <2> QED BY <2>1, <2>3, <2>4 DEF LogInv, AcceptedIsKept, LogAlive, Waiting
  <1>4. CASE StopLogging
    <2>1. logger' = [at |-> "sending stop", notice |-> "stopped"] /\ logger.at = "logging"
      BY <1>4 DEF StopLogging
    <2>2. logger' \in [at : {"idle", "logging", "sending stop", "joining"},
                        notice : {"none", "started", "stopped", "busy", "error"}]
      BY <2>1
    <2>3. logError' \in BOOLEAN /\ UNCHANGED <<logQueue, logThread, logFile, accepted, logCount>>
      BY <1>4 DEF StopLogging, LogInv, LogTypeOK
    <2>4. LogTypeOK'
      BY <2>2, <2>3 DEF LogInv, LogTypeOK
    <2> QED BY <2>1, <2>3, <2>4 DEF LogInv, AcceptedIsKept, LogAlive, Waiting
  <1>5. CASE SendLogStop
    BY <1>5, SendLogStopKeeps
  <1>6. CASE JoinLogThread
    <2>1. logger' = [at |-> "idle", notice |-> logger.notice] /\ ~LogAlive
      BY <1>6, LogTypes DEF JoinLogThread, LogInv
    <2>2. logger' \in [at : {"idle", "logging", "sending stop", "joining"},
                        notice : {"none", "started", "stopped", "busy", "error"}]
      BY <2>1, LogTypes DEF LogInv
    <2> QED BY <1>6, <2>1, <2>2 DEF JoinLogThread, LogInv, LogTypeOK, AcceptedIsKept, LogAlive
  <1>7. CASE OpenLog
    <2>1. CASE LogThreadFails
      BY <1>7, <2>1, LogThreadFailsKeeps DEF OpenLog, LogAlive
    <2>2. CASE ~LogThreadFails
      BY <1>7, <2>2 DEF OpenLog, LogInv, LogTypeOK, AcceptedIsKept, LogAlive, Waiting
    <2> QED BY <2>1, <2>2
  <1>8. CASE WriteSample
    <2>1. CASE LogThreadFails
      BY <1>8, <2>1, LogThreadFailsKeeps DEF WriteSample, LogAlive
    <2>2. CASE ~LogThreadFails
      BY <1>8, <2>2, WriteSampleKeeps
    <2> QED BY <2>1, <2>2
  <1>9. CASE EndLog
    BY <1>9, EndLogKeeps
  <1>10. CASE UNCHANGED logVars
    BY <1>10 DEF logVars, LogInv, LogTypeOK, AcceptedIsKept, LogAlive, Waiting
  <1> QED BY <1>1, <1>2, <1>3, <1>4, <1>5, <1>6, <1>7, <1>8, <1>9, <1>10
          DEF LogNext, LogThreadNext

LEMMA LogIsWhole == LogInv => LogComplete
  <1> SUFFICES ASSUME LogInv PROVE LogComplete
    OBVIOUS
  <1>1. /\ logFile \in Seq(1 .. MaxSamples) /\ Len(logFile) \in Nat
        /\ accepted \in Seq(1 .. MaxSamples) /\ Len(accepted) \in Nat
        /\ logThread \in {"none", "opening", "running", "failed", "ended"}
    <2>1. LogTypeOK
      BY DEF LogInv
    <2> QED BY <2>1, LogTypes DEF LogTypeOK
  <1>2. /\ Len(logFile) <= Len(accepted)
        /\ \A i \in 1 .. Len(logFile) : logFile[i] = accepted[i]
    BY DEF LogInv
  <1>3. /\ SubSeq(accepted, 1, Len(logFile)) \in Seq(1 .. MaxSamples)
        /\ Len(SubSeq(accepted, 1, Len(logFile))) = Len(logFile)
        /\ \A i \in 1 .. Len(logFile) : SubSeq(accepted, 1, Len(logFile))[i] = accepted[i]
    <2>1. \A i \in 1 .. Len(logFile) : accepted[i] \in 1 .. MaxSamples
      BY <1>1, <1>2, ElementOfSeq
    <2> QED BY <1>1, <2>1, SubSeqProperties
  <1>4. logFile = SubSeq(accepted, 1, Len(logFile))
    BY <1>1, <1>2, <1>3, SeqEqual
  <1>5. ASSUME logger.at = "idle", logThread # "failed"
        PROVE  logFile = accepted
    <2>1. Len(logFile) = Len(accepted)
      BY <1>1, <1>5 DEF LogInv, AcceptedIsKept, LogAlive
    <2> QED BY <1>1, <1>2, <2>1, SeqEqual
  <1> QED BY <1>4, <1>5 DEF LogComplete

(* Whatever waits in the channel when the user stops logging, the log that *)
(* the logger thread leaves has the samples that write_log_sample was told *)
(* were accepted, in their order, none between them missing; all of them   *)
(* unless the thread ended with an error.                                  *)
THEOREM LogIsComplete == LogSpec => []LogComplete
  BY LogIsWhole, LogStart, LogInductive, PTL DEF LogSpec

-----------------------------------------------------------------------------
(* HelperCommand *)

Pipe == [written : 0 .. MaxWritten, held : 0 .. PipeCapacity]
ReaderThread == [state : {"none", "reading", "ended"}, kept : 0 .. MaxOutput,
                 exceeded : BOOLEAN]

(* Somebody has the pipes open for writing.                                *)
Writable == child = "running" \/ holder

(* A reader that has ended has emptied its pipe for good, and unless it    *)
(* had to throw something away it has kept all that it took out.           *)
PipeDrained(s) ==
    /\ readers[s].state = "ended" => pipes[s].held = 0 /\ ~Writable
    /\ ~readers[s].exceeded => readers[s].kept + pipes[s].held = pipes[s].written

(* The output of a stream is complete once its thread was joined without   *)
(* an error.                                                               *)
Collected(s) ==
    readers[s].state = "ended" /\ (readers[s].exceeded => helper.elevated)

HelperInv ==
    /\ pipes \in [Streams -> Pipe]
    /\ readers \in [Streams -> ReaderThread]
    /\ holder \in BOOLEAN
    /\ \A s \in Streams : PipeDrained(s)
    /\ child = "none" => ~holder /\ \A s \in Streams : readers[s].state = "none"
    /\ helper.at = "start" => child = "none"
    /\ helper.at = "poll" => child # "none"
    /\ helper.at \in {"start", "poll"} => helper.joined = {}
    /\ helper.at \in {"discard", "join"} => child = "reaped"
    /\ helper.at = "returned" => child \in {"none", "reaped"}
    /\ helper.at = "join" => \A s \in helper.joined : s \in Streams => Collected(s)
    /\ helper.result = "output" =>
          helper.at = "returned" /\ \A s \in Streams : Collected(s)
    /\ helper.elevated => helper.program \in SystemDirs \cup {"none"}

(* The caller's record keeps its fields through every step.                *)
HelperRecord ==
    helper = [at |-> helper.at, elevated |-> helper.elevated, program |-> helper.program,
              polls |-> helper.polls, joined |-> helper.joined, result |-> helper.result]

LEMMA HelperBounds ==
    /\ Timeout \in Nat /\ PipeCapacity \in Nat /\ MaxOutput \in Nat /\ MaxWritten \in Nat
  BY HelperAssumption DEF HelperAssumption

LEMMA HelperStart == HelperInit => HelperInv /\ HelperRecord
  <1> SUFFICES ASSUME HelperInit PROVE HelperInv /\ HelperRecord
    OBVIOUS
  <1>1. /\ helper.at = "start" /\ helper.program = "none" /\ helper.joined = {}
        /\ helper.result = "none" /\ HelperRecord
    BY DEF HelperInit, HelperRecord
  <1>2. pipes \in [Streams -> Pipe] /\ readers \in [Streams -> ReaderThread]
    BY HelperBounds DEF HelperInit, Pipe, ReaderThread
  <1>3. \A s \in Streams : PipeDrained(s)
    BY DEF HelperInit, PipeDrained
  <1> QED BY <1>1, <1>2, <1>3 DEF HelperInit, HelperInv

(* What a step leaves alone of the caller. *)
LEMMA PipesOnly ==
  ASSUME HelperInv, UNCHANGED <<helper, child, holder>>,
         pipes' \in [Streams -> Pipe], readers' \in [Streams -> ReaderThread],
         \A s \in Streams : PipeDrained(s)',
         \A s \in Streams : readers[s].state = "none" => readers'[s].state = "none",
         \A s \in Streams : readers[s].state = "ended" => readers'[s] = readers[s]
  PROVE  HelperInv'
  <1>1. \A s \in Streams : Collected(s) => Collected(s)'
    BY DEF Collected
  <1> QED BY <1>1 DEF HelperInv

LEMMA WritesKeeps ==
  ASSUME HelperInv, NEW s \in Streams, Writes(s)
  PROVE  HelperInv'
  <1>1. pipes \in [Streams -> Pipe] /\ readers \in [Streams -> ReaderThread]
    BY DEF HelperInv
  <1>2. /\ pipes[s].written \in 0 .. MaxWritten /\ pipes[s].held \in 0 .. PipeCapacity
        /\ readers[s].kept \in 0 .. MaxOutput
        /\ pipes[s].written < MaxWritten /\ pipes[s].held < PipeCapacity
    BY <1>1 DEF Pipe, ReaderThread, Writes
  <1>3. /\ pipes' = [pipes EXCEPT ![s] = [written |-> pipes[s].written + 1,
                                          held |-> pipes[s].held + 1]]
        /\ UNCHANGED <<helper, child, readers, holder>> /\ Writable
    BY <1>1 DEF Writes, Pipe, Writable
  <1>4. /\ pipes[s].written + 1 \in 0 .. MaxWritten /\ pipes[s].held + 1 \in 0 .. PipeCapacity
    BY <1>2, HelperBounds
  <1>5. pipes' \in [Streams -> Pipe]
    BY <1>1, <1>3, <1>4 DEF Pipe
  <1>6. ASSUME NEW t \in Streams PROVE PipeDrained(t)'
    <2>1. PipeDrained(t) /\ PipeDrained(s)
      BY DEF HelperInv
    <2>2. CASE t = s
      <3>1. /\ pipes'[s].written = pipes[s].written + 1
            /\ pipes'[s].held = pipes[s].held + 1
        BY <1>1, <1>3
      <3>2. readers[s].state # "ended"
        BY <1>3, <2>1 DEF PipeDrained
      <3>3. ~readers[s].exceeded => readers[s].kept + pipes'[s].held = pipes'[s].written
        BY <1>2, <2>1, <3>1 DEF PipeDrained
      <3> QED BY <1>3, <2>2, <3>2, <3>3 DEF PipeDrained
    <2>3. CASE t # s
      <3>1. pipes'[t] = pipes[t]
        BY <1>1, <1>3, <2>3
      <3> QED BY <1>3, <2>1, <3>1 DEF PipeDrained, Writable
    <2> QED BY <2>2, <2>3
  <1> QED BY <1>1, <1>3, <1>5, <1>6, PipesOnly

LEMMA ReadsKeeps ==
  ASSUME HelperInv, NEW s \in Streams, Reads(s)
  PROVE  HelperInv'
  <1> DEFINE room == MaxOutput - readers[s].kept
             more == IF pipes[s].held <= room THEN pipes[s].held ELSE room
  <1>1. pipes \in [Streams -> Pipe] /\ readers \in [Streams -> ReaderThread]
    BY DEF HelperInv
  <1>2. /\ pipes[s].written \in 0 .. MaxWritten /\ pipes[s].held \in 0 .. PipeCapacity
        /\ readers[s].kept \in 0 .. MaxOutput /\ readers[s].exceeded \in BOOLEAN
    BY <1>1 DEF Pipe, ReaderThread
  <1>3. /\ pipes' = [pipes EXCEPT ![s].held = 0]
        /\ readers' = [readers EXCEPT ![s].kept = readers[s].kept + more,
                                     ![s].exceeded = readers[s].exceeded \/ pipes[s].held > room]
        /\ readers[s].state = "reading"
        /\ UNCHANGED <<helper, child, holder>>
    BY DEF Reads
  <1>4. readers[s].kept + more \in 0 .. MaxOutput
    BY <1>2, HelperBounds
  <1>5. pipes[s].held > room \/ more = pipes[s].held
    BY <1>2, HelperBounds
  <1>6. (readers[s].exceeded \/ pipes[s].held > room) \in BOOLEAN
    OBVIOUS
  <1> HIDE DEF room, more
  <1>7. /\ pipes' \in [Streams -> Pipe] /\ readers' \in [Streams -> ReaderThread]
        /\ pipes'[s].written = pipes[s].written /\ pipes'[s].held = 0
        /\ readers'[s].kept = readers[s].kept + more
        /\ ~readers'[s].exceeded => ~readers[s].exceeded /\ more = pipes[s].held
        /\ readers'[s].state = "reading"
        /\ \A t \in Streams : t # s => readers'[t] = readers[t] /\ pipes'[t] = pipes[t]
    <2>1. /\ pipes' \in [Streams -> Pipe]
          /\ pipes'[s].written = pipes[s].written /\ pipes'[s].held = 0
          /\ \A t \in Streams : t # s => pipes'[t] = pipes[t]
      <3>1. 0 \in 0 .. PipeCapacity
        BY HelperBounds
      <3> QED BY <1>1, <1>3, <3>1 DEF Pipe
    <2> DEFINE more_ == readers[s].kept + more
               exceeded_ == readers[s].exceeded \/ pipes[s].held > room
    <2>2. /\ more_ \in 0 .. MaxOutput /\ exceeded_ \in BOOLEAN
          /\ readers' = [readers EXCEPT ![s].kept = more_, ![s].exceeded = exceeded_]
          /\ ~exceeded_ => ~readers[s].exceeded /\ more = pipes[s].held
          /\ readers[s].state = "reading"
      BY <1>3, <1>4, <1>5, <1>6
    <2> HIDE DEF more_, exceeded_
    <2>3. /\ readers'[s].kept = more_ /\ readers'[s].exceeded = exceeded_
          /\ readers'[s].state = "reading"
          /\ readers' \in [Streams -> ReaderThread]
          /\ \A t \in Streams : t # s => readers'[t] = readers[t]
      <3> DEFINE r == [readers[s] EXCEPT !.kept = more_, !.exceeded = exceeded_]
      <3>1. readers' = [readers EXCEPT ![s] = r]
        BY <1>1, <2>2
      <3>2. readers[s] \in ReaderThread
        BY <1>1
      <3>3. /\ r \in ReaderThread
            /\ r.kept = more_ /\ r.exceeded = exceeded_ /\ r.state = "reading"
        BY <2>2, <3>2 DEF ReaderThread
      <3> HIDE DEF r
      <3> QED BY <1>1, <3>1, <3>3
    <2> QED BY <2>1, <2>2, <2>3 DEF more_
  <1>8. ASSUME NEW t \in Streams PROVE PipeDrained(t)'
    <2>1. PipeDrained(t) /\ PipeDrained(s)
      BY DEF HelperInv
    <2>2. CASE t = s
      <3>1. ASSUME ~readers'[s].exceeded
            PROVE  readers'[s].kept + pipes'[s].held = pipes'[s].written
        <4>1. readers[s].kept + pipes[s].held = pipes[s].written /\ more = pipes[s].held
          BY <1>7, <2>1, <3>1 DEF PipeDrained
        <4> QED BY <1>2, <1>7, <4>1
      <3> QED BY <1>7, <2>2, <3>1 DEF PipeDrained
    <2>3. CASE t # s
      BY <1>3, <1>7, <2>1, <2>3 DEF PipeDrained, Writable
    <2> QED BY <2>2, <2>3
  <1> QED BY <1>3, <1>7, <1>8, PipesOnly

LEMMA ReaderEndsKeeps ==
  ASSUME HelperInv, NEW s \in Streams, ReaderEnds(s)
  PROVE  HelperInv'
  <1>1. /\ pipes \in [Streams -> Pipe] /\ readers \in [Streams -> ReaderThread]
        /\ PipeDrained(s)
    BY DEF HelperInv
  <1>2. /\ readers[s].state = "reading" /\ pipes[s].held = 0 /\ ~Writable
        /\ UNCHANGED <<helper, child, pipes, holder>>
        /\ readers' = [readers EXCEPT ![s].state = "ended"]
    BY DEF ReaderEnds, Writable
  <1>3. /\ readers' \in [Streams -> ReaderThread]
        /\ readers'[s].state = "ended" /\ readers'[s].kept = readers[s].kept
        /\ readers'[s].exceeded = readers[s].exceeded
        /\ \A t \in Streams : t # s => readers'[t] = readers[t]
    BY <1>1, <1>2 DEF ReaderThread
  <1>4. ASSUME NEW t \in Streams PROVE PipeDrained(t)'
    <2>1. PipeDrained(t)
      BY DEF HelperInv
    <2>2. CASE t = s
      BY <1>1, <1>2, <1>3, <2>2 DEF PipeDrained, Writable
    <2>3. CASE t # s
      BY <1>2, <1>3, <2>1, <2>3 DEF PipeDrained, Writable
    <2> QED BY <2>2, <2>3
  <1> QED BY <1>1, <1>2, <1>3, <1>4, PipesOnly

(* Processes may come to hold the pipes only while the child runs.         *)
LEMMA ProcessesKeep ==
  ASSUME HelperInv, LeavesHolder \/ HolderEnds \/ ChildEnds
  PROVE  HelperInv'
  <1>1. /\ UNCHANGED <<helper, pipes, readers>> /\ holder' \in BOOLEAN
        /\ Writable' => Writable
        /\ child' = "none" => child = "none" /\ ~holder'
        /\ child = "none" => child' = "none"
        /\ child = "reaped" => child' = "reaped"
    BY DEF HelperInv, LeavesHolder, HolderEnds, ChildEnds, Writable
  <1>2. ASSUME NEW s \in Streams PROVE PipeDrained(s)'
    <2>1. PipeDrained(s)
      BY DEF HelperInv
    <2> QED BY <1>1, <2>1 DEF PipeDrained
  <1>3. ASSUME NEW s \in Streams PROVE Collected(s)' <=> Collected(s)
    BY <1>1 DEF Collected
  <1> QED BY <1>1, <1>2, <1>3 DEF HelperInv

(* A step of the caller that leaves the pipes alone.                       *)
LEMMA CallerOnly ==
  ASSUME HelperInv, UNCHANGED <<pipes, readers, holder>>,
         child' \in {child, "reaped"}, child # "none",
         helper'.elevated = helper.elevated, helper'.program = helper.program,
         helper'.at # "start", helper'.at = "poll" => helper'.joined = {},
         helper'.at \in {"discard", "join", "returned"} => child' = "reaped",
         helper'.at = "join" => \A s \in helper'.joined : s \in Streams => Collected(s),
         helper'.result = "output" =>
             helper'.at = "returned" /\ \A s \in Streams : Collected(s)
  PROVE  HelperInv'
  <1>1. ASSUME NEW s \in Streams PROVE PipeDrained(s)'
    <2>1. PipeDrained(s)
      BY DEF HelperInv
    <2> QED BY <2>1 DEF PipeDrained, Writable
  <1>2. ASSUME NEW s \in Streams PROVE Collected(s)' <=> Collected(s)
    BY DEF Collected
  <1> QED BY <1>1, <1>2 DEF HelperInv

LEMMA StartKeeps ==
  ASSUME HelperInv, HelperRecord, NEW present, StartHelper(present)
  PROVE  HelperInv' /\ HelperRecord'
  <1> DEFINE found == Searched(helper.elevated) \cap present
  <1>1. /\ helper.at = "start" /\ child = "none" /\ ~holder
        /\ readers \in [Streams -> ReaderThread]
        /\ \A s \in Streams : readers[s].state = "none" /\ PipeDrained(s)
        /\ helper.result # "output"
        /\ UNCHANGED <<pipes, holder>>
    BY DEF StartHelper, HelperInv
  <1>2. CASE /\ UNCHANGED <<child, readers>>
             /\ \E result \in {"NotFound", "error"} : Returns(result)
    <2>1. PICK result \in {"NotFound", "error"} : Returns(result)
      BY <1>2
    <2>2. /\ HelperRecord' /\ helper'.at = "returned" /\ helper'.result = result
          /\ helper'.elevated = helper.elevated /\ helper'.program = helper.program
      BY <2>1 DEF Returns, HelperRecord
    <2>3. \A s \in Streams : PipeDrained(s)'
      BY <1>1, <1>2 DEF PipeDrained, Writable
    <2> QED BY <1>1, <1>2, <2>2, <2>3 DEF HelperInv
  <1>3. CASE \E directory \in found :
               /\ helper' = [helper EXCEPT !.at = "poll", !.program = directory]
               /\ child' = "running"
               /\ readers' = [s \in Streams |-> [readers[s] EXCEPT !.state = "reading"]]
    <2>1. PICK directory \in found :
            /\ helper' = [helper EXCEPT !.at = "poll", !.program = directory]
            /\ child' = "running"
            /\ readers' = [s \in Streams |-> [readers[s] EXCEPT !.state = "reading"]]
      BY <1>3
    <2>2. /\ HelperRecord' /\ helper'.at = "poll" /\ helper'.result = helper.result
          /\ helper'.elevated = helper.elevated /\ helper'.program = directory
          /\ helper'.joined = helper.joined
      BY <2>1 DEF HelperRecord
    <2>3. helper.elevated => directory \in SystemDirs
      BY DEF Searched
    <2>4. /\ readers' \in [Streams -> ReaderThread]
          /\ \A s \in Streams : /\ readers'[s].state = "reading"
                                 /\ readers'[s].kept = readers[s].kept
                                 /\ readers'[s].exceeded = readers[s].exceeded
      BY <1>1, <2>1 DEF ReaderThread
    <2>5. \A s \in Streams : PipeDrained(s)'
      BY <1>1, <2>4 DEF PipeDrained
    <2> QED BY <1>1, <2>1, <2>2, <2>3, <2>4, <2>5 DEF HelperInv
  <1> QED BY <1>2, <1>3 DEF StartHelper

(* The caller waits for the child, or gives it up and kills it.            *)
LEMMA PollKeeps ==
  ASSUME HelperInv, HelperRecord,
         PollEnded \/ PollAgain \/ GiveUp("TimedOut") \/ GiveUp("error")
  PROVE  HelperInv' /\ HelperRecord'
  <1>1. /\ helper.at = "poll" /\ helper.result # "output" /\ helper.joined = {}
        /\ child # "none" /\ UNCHANGED <<pipes, readers, holder>>
    BY DEF PollEnded, PollAgain, GiveUp, HelperInv
  <1>2. CASE PollEnded
    <2>1. /\ HelperRecord' /\ helper'.at = "join" /\ child' = "reaped"
          /\ helper'.elevated = helper.elevated /\ helper'.program = helper.program
          /\ helper'.joined = helper.joined /\ helper'.result = helper.result
      BY <1>2 DEF PollEnded, HelperRecord
    <2> QED BY <1>1, <2>1, CallerOnly
  <1>3. CASE PollAgain
    <2>1. /\ HelperRecord' /\ helper'.at = "poll" /\ child' = child
          /\ helper'.elevated = helper.elevated /\ helper'.program = helper.program
          /\ helper'.joined = helper.joined /\ helper'.result = helper.result
      BY <1>1, <1>3 DEF PollAgain, HelperRecord
    <2> QED BY <1>1, <2>1, CallerOnly
  <1>4. CASE GiveUp("TimedOut") \/ GiveUp("error")
    <2>1. /\ HelperRecord' /\ helper'.at = "discard" /\ child' = "reaped"
          /\ helper'.elevated = helper.elevated /\ helper'.program = helper.program
          /\ helper'.result \in {"TimedOut", "error"}
      BY <1>4 DEF GiveUp, HelperRecord
    <2> QED BY <1>1, <2>1, CallerOnly
  <1> QED BY <1>2, <1>3, <1>4

LEMMA JoinDiscardingKeeps ==
  ASSUME HelperInv, HelperRecord, NEW s \in Streams, JoinDiscarding(s)
  PROVE  HelperInv' /\ HelperRecord'
  <1>1. /\ helper.at = "discard" /\ child = "reaped" /\ helper.result # "output"
        /\ UNCHANGED <<child, pipes, readers, holder>>
    BY DEF JoinDiscarding, HelperInv
  <1>2. /\ HelperRecord' /\ helper'.at \in {"discard", "returned"}
        /\ helper'.elevated = helper.elevated /\ helper'.program = helper.program
        /\ helper'.result = helper.result
    BY <1>1 DEF JoinDiscarding, HelperRecord
  <1> QED BY <1>1, <1>2, CallerOnly

(* stderr is joined after stdout, so that both are collected then.         *)
LEMMA JoinOutputKeeps ==
  ASSUME HelperInv, HelperRecord, NEW s \in Streams, JoinOutput(s)
  PROVE  HelperInv' /\ HelperRecord'
  <1>1. /\ helper.at = "join" /\ child = "reaped" /\ helper.result # "output"
        /\ MayJoin(s) /\ UNCHANGED <<child, pipes, readers, holder>>
        /\ \A t \in helper.joined : t \in Streams => Collected(t)
    BY DEF JoinOutput, HelperInv
  <1>2. CASE readers[s].exceeded /\ ~helper.elevated
    <2>1. /\ HelperRecord' /\ helper'.at = "returned"
          /\ helper'.elevated = helper.elevated /\ helper'.program = helper.program
          /\ helper'.result = "InvalidData"
      BY <1>2 DEF JoinOutput, Returns, HelperRecord
    <2> QED BY <1>1, <2>1, CallerOnly
  <1>3. CASE ~ (readers[s].exceeded /\ ~helper.elevated)
    <2>1. Collected(s)
      BY <1>1, <1>3 DEF MayJoin, Collected
    <2>2. CASE s = "stderr"
      <3>1. \A t \in Streams : Collected(t)
        BY <1>1, <2>1, <2>2 DEF MayJoin, Streams
      <3>2. /\ HelperRecord' /\ helper'.at = "returned"
            /\ helper'.elevated = helper.elevated /\ helper'.program = helper.program
        BY <1>3, <2>2 DEF JoinOutput, HelperRecord
      <3> QED BY <1>1, <3>1, <3>2, CallerOnly
    <2>3. CASE s # "stderr"
      <3>1. /\ HelperRecord' /\ helper'.at = "join"
            /\ helper'.elevated = helper.elevated /\ helper'.program = helper.program
            /\ helper'.joined = helper.joined \cup {s} /\ helper'.result = helper.result
        BY <1>1, <1>3, <2>3 DEF JoinOutput, HelperRecord
      <3> QED BY <1>1, <2>1, <3>1, CallerOnly
    <2> QED BY <2>2, <2>3
  <1> QED BY <1>2, <1>3

LEMMA HelperInductive ==
  ASSUME HelperInv, HelperRecord, [HelperNext]_helperVars
  PROVE  HelperInv' /\ HelperRecord'
  <1>1. CASE \E present \in SUBSET (SearchPath \cup SystemDirs) : StartHelper(present)
    BY <1>1, StartKeeps
  <1>2. CASE PollEnded \/ PollAgain \/ GiveUp("TimedOut") \/ GiveUp("error")
    BY <1>2, PollKeeps
  <1>3. CASE \E s \in Streams : JoinDiscarding(s) \/ JoinOutput(s)
    BY <1>3, JoinDiscardingKeeps, JoinOutputKeeps
  <1>4. CASE \E s \in Streams : Writes(s) \/ Reader(s)
    <2>1. PICK s \in Streams : Writes(s) \/ Reads(s) \/ ReaderEnds(s)
      BY <1>4 DEF Reader
    <2>2. HelperRecord'
      BY <2>1 DEF Writes, Reads, ReaderEnds, HelperRecord
    <2> QED BY <2>1, <2>2, WritesKeeps, ReadsKeeps, ReaderEndsKeeps
  <1>5. CASE LeavesHolder \/ HolderEnds \/ ChildEnds
    <2>1. HelperRecord'
      BY <1>5 DEF LeavesHolder, HolderEnds, ChildEnds, HelperRecord
    <2> QED BY <1>5, <2>1, ProcessesKeep
  <1>6. CASE UNCHANGED helperVars
    <2>1. UNCHANGED <<helper, child, pipes, readers, holder>>
      BY <1>6 DEF helperVars
    <2>2. \A s \in Streams : /\ PipeDrained(s)' <=> PipeDrained(s)
                             /\ Collected(s)' <=> Collected(s)
      BY <2>1 DEF PipeDrained, Writable, Collected
    <2> QED BY <2>1, <2>2 DEF HelperInv, HelperRecord
  <1> QED BY <1>1, <1>2, <1>3, <1>4, <1>5, <1>6 DEF HelperNext, HelperCaller

LEMMA OutcomeIsTrue == HelperInv => HelperOutcome
  <1> SUFFICES ASSUME HelperInv PROVE HelperOutcome
    OBVIOUS
  <1>1. ASSUME NEW s \in Streams, helper.result = "output"
        PROVE  /\ pipes[s].held = 0
               /\ helper.elevated \/ readers[s].kept = pipes[s].written
    <2>1. Collected(s) /\ PipeDrained(s) /\ readers \in [Streams -> ReaderThread]
      BY <1>1 DEF HelperInv
    <2>2. readers[s].kept \in 0 .. MaxOutput
      BY <2>1 DEF ReaderThread
    <2>3. pipes[s].held = 0
      BY <2>1 DEF Collected, PipeDrained
    <2>4. ASSUME ~helper.elevated PROVE readers[s].kept = pipes[s].written
      <3>1. readers[s].kept + 0 = pipes[s].written
        BY <2>1, <2>3, <2>4 DEF Collected, PipeDrained
      <3> QED BY <2>2, <3>1
    <2> QED BY <2>3, <2>4
  <1> QED BY <1>1 DEF HelperInv, HelperOutcome

(* However the child, what it leaves behind, the two readers and the time  *)
(* limit interleave: run_command_configured leaves no zombie, returns only *)
(* output that is whole, and runs elevated only what a system directory    *)
(* has.                                                                    *)
THEOREM HelperIsReaped == HelperSpec => []HelperOutcome
  BY OutcomeIsTrue, HelperStart, HelperInductive, PTL DEF HelperSpec

-----------------------------------------------------------------------------
(* The window rule *)

(* What the rules are to be, with HWall's or without.                      *)
IdsFor(installed) == IF installed THEN Others \cup {Hwall} ELSE Others
EntryFor(installed) == IF installed THEN "managed" ELSE "absent"

(* Who calls: with what the setting is, a removal excepted, and with leave *)
(* to create the rule only when the window has been mapped.                *)
CallInv ==
    sync.at # "no" => /\ window.started
                      /\ call.install => window.enabled
                      /\ sync.create => window.everMapped
                      /\ sync.reset => ~call.install

(* How far a synchronization is: what it has written stays as it wrote it, *)
(* it creates the rule only when the window has been mapped, and what it   *)
(* has changed it knows of.                                                *)
SyncInv ==
    /\ sync.at \in {"no", "list"} => ~sync.changed
    /\ CallInv
    /\ sync.at \in {"unscope", "write list", "write count"} => sync.ids = IdsFor(call.install)
    /\ sync.at \in {"unscope", "write list"} /\ call.install => Listed \/ window.everMapped
    /\ sync.at = "unscope" => \E k \in ScopeKeys : rules.entries[k] # "managed"
    /\ sync.at \in {"write count", "entries", "position", "reconfigure"} =>
          rules.ids = IdsFor(call.install)
    /\ sync.at \in {"entries", "reconfigure"} /\ call.install =>
          rules.count = Cardinality(rules.ids)
    /\ sync.at \in {"unscope", "write list", "write count"} => sync.todo = Keys
    /\ sync.at = "entries" =>
          \A k \in Keys \ sync.todo : rules.entries[k] = EntryFor(call.install)
    /\ sync.at \in {"position", "reconfigure"} =>
          \A k \in Keys : rules.entries[k] = EntryFor(call.install)
    /\ sync.at = "position" => ~call.install
    /\ sync.at = "reconfigure" /\ ~call.install => ~rules.position

(* What is left behind by a synchronization that worked.                   *)
AsCalled ==
    /\ rules.ids = IdsFor(call.install)
    /\ call.install => rules.count = Cardinality(rules.ids)
    /\ \A k \in Keys : rules.entries[k] = EntryFor(call.install)
    /\ ~call.install => ~rules.position

(* Creation is pending only while the setting is on, or until the call     *)
(* that turns it off returns.                                              *)
RuleInv ==
    /\ Others \subseteq rules.ids
    /\ window.mapped => window.everMapped
    /\ window.pending => window.enabled \/ (sync.at # "no" /\ ~sync.reset)
    /\ window.untold \/ sync.changed \/ kwin = RuleRead
    /\ Worked /\ call.install /\ ~window.pending => AsCalled
    /\ Worked /\ ~call.install /\ "kconfig" \in call.tools => AsCalled

PlasmaInv == PlasmaTypeOK /\ SyncInv /\ RuleInv

LEMMA RuleIds ==
  /\ Hwall \notin Others
  /\ Cardinality(Others) \in 0 .. Cardinality(Others) + 1
  /\ Cardinality(Others \cup {Hwall}) \in 0 .. Cardinality(Others) + 1
  <1>1. Hwall \notin Others /\ IsFiniteSet(Others)
    BY PlasmaAssumption, RuleIdAssumption DEF PlasmaAssumption, RuleIdAssumption
  <1>2. Cardinality(Others) \in Nat /\ Cardinality(Others \cup {Hwall}) = Cardinality(Others) + 1
    BY <1>1, FS_CardinalityType, FS_AddElement
  <1> QED
    BY <1>1, <1>2

RulesType == [ids : SUBSET (Others \cup {Hwall}), count : 0 .. Cardinality(Others) + 1,
              entries : [Keys -> Entry], position : BOOLEAN]
CallType == [install : BOOLEAN, tools : SUBSET Tools]
SyncType == [at : {"no", "list", "unscope", "write list", "write count", "entries",
                   "position", "reconfigure"},
             create : BOOLEAN, reset : BOOLEAN, changed : BOOLEAN, todo : SUBSET Keys,
             ids : SUBSET (Others \cup {Hwall})]
WindowType == [started : BOOLEAN, mapped : BOOLEAN, everMapped : BOOLEAN, enabled : BOOLEAN,
               pending : BOOLEAN, untold : BOOLEAN, failed : BOOLEAN]
ReadByKWin(k) == k \in {{}} \cup {{r} : r \in Rule}

LEMMA PlasmaTypes ==
  /\ PlasmaTypeOK <=> /\ rules \in RulesType /\ ReadByKWin(kwin) /\ call \in CallType
                      /\ sync \in SyncType /\ window \in WindowType /\ syncs \in 0 .. MaxSyncs
  /\ PlasmaTypeOK' <=> /\ rules' \in RulesType /\ ReadByKWin(kwin') /\ call' \in CallType
                       /\ sync' \in SyncType /\ window' \in WindowType
                       /\ syncs' \in 0 .. MaxSyncs
  BY DEF PlasmaTypeOK, RulesType, CallType, SyncType, WindowType, ReadByKWin

LEMMA RuleIsAsWanted == PlasmaInv => RuleAsWanted
  <1> SUFFICES ASSUME PlasmaInv PROVE RuleAsWanted
    OBVIOUS
  <1>1. rules.entries \in [Keys -> Entry]
    BY DEF PlasmaInv, PlasmaTypeOK
  <1>2. sync.at = "no" => window.untold \/ kwin = RuleRead
    BY DEF PlasmaInv, SyncInv, RuleInv
  <1>3. ASSUME AsCalled, call.install
        PROVE  /\ Listed /\ rules.count = Cardinality(rules.ids)
               /\ rules.entries = [k \in Keys |-> "managed"]
    BY <1>1, <1>3 DEF AsCalled, IdsFor, EntryFor, Listed
  <1>4. ASSUME AsCalled, ~call.install
        PROVE  ~Listed /\ rules.entries = Unmanaged /\ ~rules.position
    BY <1>1, <1>4, RuleIds DEF AsCalled, IdsFor, EntryFor, Listed, Unmanaged
  <1> QED
    BY <1>2, <1>3, <1>4 DEF PlasmaInv, RuleInv, RuleAsWanted

LEMMA PlasmaStart == PlasmaInit => PlasmaInv
  <1> SUFFICES ASSUME PlasmaInit PROVE PlasmaInv
    OBVIOUS
  <1>1. /\ rules.ids \subseteq Others \cup {Hwall} /\ Others \subseteq rules.ids
        /\ rules \in [ids : SUBSET (Others \cup {Hwall}), count : 0 .. Cardinality(Others) + 1,
                      entries : [Keys -> Entry], position : BOOLEAN]
    <2>1. /\ Cardinality(Others) \in 0 .. Cardinality(Others) + 1
          /\ Cardinality(Others) + 1 \in 0 .. Cardinality(Others) + 1
      BY FS_CardinalityType, PlasmaAssumption DEF PlasmaAssumption
    <2>2. CASE rules = [ids |-> Others, count |-> Cardinality(Others),
                        entries |-> Unmanaged, position |-> FALSE]
      BY <2>1, <2>2 DEF Unmanaged, Entry
    <2>3. ASSUME NEW scope \in Entry, NEW placed \in BOOLEAN,
                 rules = [ids |-> Others \cup {Hwall}, count |-> Cardinality(Others) + 1,
                          entries |-> [k \in Keys |-> IF k \in ScopeKeys THEN scope ELSE "managed"],
                          position |-> placed]
          PROVE  /\ rules.ids \subseteq Others \cup {Hwall} /\ Others \subseteq rules.ids
                 /\ rules \in [ids : SUBSET (Others \cup {Hwall}),
                               count : 0 .. Cardinality(Others) + 1,
                               entries : [Keys -> Entry], position : BOOLEAN]
      BY <2>1, <2>3 DEF Entry
    <2> QED
      BY <2>2, <2>3 DEF PlasmaInit
  <1>2. /\ sync = NoSync /\ syncs = 0 /\ kwin = RuleRead
        /\ call = [install |-> FALSE, tools |-> {}]
        /\ window \in WindowType /\ ~window.started /\ ~window.mapped /\ ~window.pending
    <2>1. sync = NoSync /\ syncs = 0 /\ call = [install |-> FALSE, tools |-> {}]
      BY DEF PlasmaInit
    <2>2. kwin = RuleRead
      BY DEF PlasmaInit
    <2>3. window \in WindowType /\ ~window.started /\ ~window.mapped /\ ~window.pending
      BY DEF PlasmaInit, WindowType, NewWindow
    <2> QED
      BY <2>1, <2>2, <2>3
  <1>3. /\ sync \in SyncType /\ syncs \in 0 .. MaxSyncs /\ call \in CallType
        /\ sync.at = "no" /\ ~sync.changed
    BY <1>2, PlasmaAssumption DEF SyncType, CallType, NoSync, PlasmaAssumption
  <1>4. ReadByKWin(kwin)
    BY <1>1, <1>2 DEF ReadByKWin, RuleRead, Rule
  <1>5. PlasmaTypeOK
    BY <1>1, <1>2, <1>3, <1>4, PlasmaTypes DEF RulesType
  <1> QED
    BY <1>1, <1>2, <1>3, <1>5 DEF PlasmaInv, SyncInv, CallInv, RuleInv, Worked

LEMMA BegunSync ==
  ASSUME NEW install \in BOOLEAN, NEW create \in BOOLEAN, NEW reset \in BOOLEAN,
         BeginSync(install, create, reset), syncs \in 0 .. MaxSyncs, MaxSyncs \in Nat
  PROVE  /\ sync' \in SyncType /\ call' \in CallType /\ syncs' \in 0 .. MaxSyncs
         /\ sync'.at = "list" /\ sync'.create = create /\ sync'.reset = reset
         /\ ~sync'.changed /\ call'.install = install
  <1>1. /\ sync' = [at |-> "list", create |-> create, reset |-> reset, changed |-> FALSE,
                    todo |-> {}, ids |-> {}]
        /\ syncs' = syncs + 1 /\ syncs < MaxSyncs
    BY DEF BeginSync, NoSync
  <1>2. sync' \in SyncType
    BY <1>1 DEF SyncType
  <1>3. sync'.at = "list" /\ sync'.create = create /\ sync'.reset = reset /\ ~sync'.changed
    BY <1>1
  <1>4. call' \in CallType /\ call'.install = install
    BY DEF BeginSync, CallType
  <1> QED
    BY <1>1, <1>2, <1>3, <1>4

(* Of the window, only the outcome of a call changes when it returns.      *)
Returned(pending, failed) ==
    /\ sync' \in SyncType /\ sync'.at = "no" /\ ~sync'.changed
    /\ window' \in WindowType
    /\ window'.started = window.started /\ window'.enabled = window.enabled
    /\ window'.mapped = window.mapped /\ window'.everMapped = window.everMapped
    /\ window'.pending = IF sync.reset THEN window.pending ELSE pending
    /\ window'.failed = failed

LEMMA SyncReturned ==
  ASSUME window \in WindowType, sync \in SyncType, NEW pending \in BOOLEAN,
         NEW unannounced \in BOOLEAN, SyncReturns(pending, unannounced)
  PROVE  Returned(pending, FALSE) /\ window'.untold = (window.untold \/ unannounced)
  <1>1. /\ sync' = NoSync /\ sync.reset \in BOOLEAN
        /\ window' = [window EXCEPT !.pending = IF sync.reset THEN @ ELSE pending,
                                    !.failed = FALSE, !.untold = @ \/ unannounced]
    BY DEF SyncReturns, SyncType
  <1>2. sync' \in SyncType /\ sync'.at = "no" /\ ~sync'.changed
    BY <1>1 DEF NoSync, SyncType
  <1>3. /\ window' \in WindowType
        /\ window'.started = window.started /\ window'.enabled = window.enabled
        /\ window'.mapped = window.mapped /\ window'.everMapped = window.everMapped
        /\ window'.failed = FALSE /\ window'.untold = (window.untold \/ unannounced)
        /\ window'.pending = IF sync.reset THEN window.pending ELSE pending
    <2> DEFINE p == IF sync.reset THEN window.pending ELSE pending
               u == window.untold \/ unannounced
    <2>1. p \in BOOLEAN /\ u \in BOOLEAN
      BY <1>1 DEF WindowType
    <2>2. window' = [window EXCEPT !.pending = p, !.failed = FALSE, !.untold = u]
      BY <1>1
    <2> HIDE DEF p, u
    <2>3. window' \in WindowType /\ window'.pending = p /\ window'.untold = u
          /\ window'.started = window.started /\ window'.enabled = window.enabled
          /\ window'.mapped = window.mapped /\ window'.everMapped = window.everMapped
          /\ window'.failed = FALSE
      BY <2>1, <2>2 DEF WindowType
    <2> QED
      BY <2>3 DEF p, u
  <1> QED
    BY <1>2, <1>3 DEF Returned

(* A call that has returned leaves nothing under way; what is to be shown  *)
(* is that it worked.                                                      *)
LEMMA ReturnedKeeps ==
  ASSUME PlasmaInv, NEW pending \in BOOLEAN, NEW failed \in BOOLEAN,
         Returned(pending, failed), sync.at # "no", pending => call.install,
         rules' \in RulesType, ReadByKWin(kwin'), UNCHANGED <<call, syncs>>,
         Others \subseteq rules'.ids, window'.untold \/ kwin' = RuleRead',
         failed \/ (~call.install /\ "kconfig" \notin call.tools) \/ pending \/ AsCalled'
  PROVE  PlasmaInv'
  <1>1. /\ sync' \in SyncType /\ sync'.at = "no" /\ ~sync'.changed
        /\ window' \in WindowType
        /\ window'.started = window.started /\ window'.enabled = window.enabled
        /\ window'.mapped = window.mapped /\ window'.everMapped = window.everMapped
        /\ window'.pending = IF sync.reset THEN window.pending ELSE pending
        /\ window'.failed = failed
    BY DEF Returned
  <1>2. PlasmaTypeOK'
    BY <1>1, PlasmaTypes DEF PlasmaInv
  <1>3. SyncInv'
    BY <1>1 DEF SyncInv, CallInv
  <1>4. /\ window.mapped => window.everMapped
        /\ window.pending => window.enabled \/ ~sync.reset
        /\ call.install => window.enabled
        /\ sync.reset => ~call.install
    BY DEF PlasmaInv, SyncInv, CallInv, RuleInv
  <1>5. window'.pending => window'.enabled
    BY <1>1, <1>4
  <1>6. Worked' => AsCalled' \/ (~call.install /\ "kconfig" \notin call.tools) \/ pending
    BY <1>1 DEF Worked
  <1>7. pending => window'.pending
    BY <1>1, <1>4
  <1> QED
    BY <1>1, <1>2, <1>3, <1>4, <1>5, <1>6, <1>7 DEF PlasmaInv, RuleInv

(* A helper program in the midst of a call: what is to be shown is how far *)
(* the call is, if it knows of what it has changed.                        *)
LEMMA SteppedKeeps ==
  ASSUME PlasmaInv, sync.at # "no", sync' \in SyncType, sync'.at \notin {"no", "list"},
         sync'.create = sync.create, sync'.reset = sync.reset,
         rules' \in RulesType, Others \subseteq rules'.ids,
         UNCHANGED <<kwin, call, window, syncs>>,
         sync'.changed \/ (~sync.changed /\ RuleRead' = RuleRead)
  PROVE  PlasmaTypeOK' /\ RuleInv' /\ CallInv'
  <1>1. PlasmaTypeOK'
    BY PlasmaTypes DEF PlasmaInv
  <1>2. CallInv'
    BY DEF PlasmaInv, SyncInv, CallInv
  <1>3. RuleInv'
    BY DEF PlasmaInv, RuleInv, Worked
  <1> QED
    BY <1>1, <1>2, <1>3

LEMMA PlasmaInductive ==
  ASSUME PlasmaInv, [PlasmaNext]_plasmaVars
  PROVE  PlasmaInv' /\ [PositionRespected]_plasmaVars
  <1>0. /\ MaxSyncs \in Nat
        /\ rules \in RulesType /\ ReadByKWin(kwin) /\ sync \in SyncType
        /\ call \in CallType /\ window \in WindowType /\ syncs \in 0 .. MaxSyncs
        /\ PlasmaInv /\ SyncInv /\ RuleInv
    BY PlasmaAssumption, PlasmaTypes DEF PlasmaAssumption, PlasmaInv
  <1>1. CASE SyncAtStart
    <2>1. /\ window.enabled \in BOOLEAN /\ BeginSync(window.enabled, FALSE, FALSE)
          /\ rules' = rules /\ kwin' = kwin /\ sync.at = "no"
          /\ window' = [window EXCEPT !.started = TRUE]
      BY <1>0, <1>1 DEF SyncAtStart, WindowType
    <2>2. /\ sync' \in SyncType /\ call' \in CallType /\ syncs' \in 0 .. MaxSyncs
          /\ sync'.at = "list" /\ sync'.create = FALSE /\ sync'.reset = FALSE
          /\ ~sync'.changed /\ call'.install = window.enabled
      BY <1>0, <2>1, BegunSync
    <2>3. /\ window' \in WindowType /\ window'.started /\ window'.enabled = window.enabled
          /\ window'.mapped = window.mapped /\ window'.everMapped = window.everMapped
          /\ window'.untold = window.untold
      BY <1>0, <2>1 DEF WindowType
    <2>4. SyncInv'
      BY <2>2, <2>3 DEF SyncInv, CallInv
    <2>5. ~sync.changed /\ RuleRead' = RuleRead
      BY <1>0, <2>1 DEF SyncInv, RuleRead, Listed
    <2>6. RuleInv'
      BY <1>0, <2>1, <2>2, <2>3, <2>5 DEF RuleInv, Worked
    <2>7. PositionRespected
      BY <2>1 DEF PositionRespected, Listed
    <2> QED
      BY <1>0, <2>1, <2>2, <2>3, <2>4, <2>6, <2>7, PlasmaTypes DEF PlasmaInv
  <1>2. CASE MapWindow
    <2>1. /\ rules' = rules /\ kwin' = kwin /\ sync.at = "no" /\ ~sync.changed
          /\ window.started /\ RuleRead' = RuleRead
          /\ window' = [window EXCEPT !.mapped = TRUE, !.everMapped = TRUE, !.pending = FALSE]
      BY <1>0, <1>2 DEF MapWindow, SyncInv, RuleRead, Listed
    <2>2. /\ window' \in WindowType /\ window'.everMapped /\ ~window'.pending
          /\ window'.started = window.started /\ window'.enabled = window.enabled
          /\ window'.untold = window.untold /\ window'.failed = window.failed
      BY <1>0, <2>1 DEF WindowType
    <2>3. PositionRespected
      BY <2>1 DEF PositionRespected, Listed
    <2>4. CASE window.pending /\ window.enabled
      <3>1. BeginSync(TRUE, TRUE, FALSE)
        BY <1>2, <2>4 DEF MapWindow
      <3>2. /\ sync' \in SyncType /\ call' \in CallType /\ syncs' \in 0 .. MaxSyncs
            /\ sync'.at = "list" /\ sync'.create = TRUE /\ sync'.reset = FALSE
            /\ ~sync'.changed /\ call'.install = TRUE
        BY <1>0, <3>1, BegunSync
      <3>3. SyncInv'
        BY <2>1, <2>2, <2>4, <3>2 DEF SyncInv, CallInv
      <3>4. RuleInv'
        BY <1>0, <2>1, <2>2, <3>2 DEF RuleInv, Worked
      <3> QED
        BY <1>0, <2>1, <2>2, <2>3, <3>2, <3>3, <3>4, PlasmaTypes DEF PlasmaInv
    <2>5. CASE ~(window.pending /\ window.enabled)
      <3>1. sync' = sync /\ syncs' = syncs /\ call' = call
        BY <1>2, <2>5 DEF MapWindow
      <3>2. ~window.pending
        BY <1>0, <2>1, <2>5 DEF RuleInv
      <3>3. SyncInv'
        BY <2>1, <3>1 DEF SyncInv, CallInv
      <3>4. Worked' = Worked /\ AsCalled' = AsCalled
        BY <2>1, <2>2, <3>1 DEF Worked, AsCalled, IdsFor, EntryFor
      <3>5. RuleInv'
        BY <1>0, <2>1, <2>2, <3>1, <3>2, <3>4 DEF RuleInv
      <3> QED
        BY <1>0, <2>1, <2>2, <2>3, <3>1, <3>3, <3>5, PlasmaTypes DEF PlasmaInv
    <2> QED
      BY <2>4, <2>5
  <1>3. CASE HideWindow
    <2>1. /\ rules' = rules /\ kwin' = kwin /\ call' = call /\ sync' = sync /\ syncs' = syncs
          /\ window' = [window EXCEPT !.mapped = FALSE] /\ sync.at = "no"
          /\ RuleRead' = RuleRead
      BY <1>3 DEF HideWindow, RuleRead, Listed
    <2>2. /\ window' \in WindowType /\ ~window'.mapped /\ window'.pending = window.pending
          /\ window'.started = window.started /\ window'.enabled = window.enabled
          /\ window'.untold = window.untold /\ window'.failed = window.failed
      BY <1>0, <2>1 DEF WindowType
    <2>3. SyncInv'
      BY <1>0, <2>1 DEF SyncInv, CallInv
    <2>4. Worked' = Worked /\ AsCalled' = AsCalled
      BY <2>1, <2>2 DEF Worked, AsCalled, IdsFor, EntryFor
    <2>5. RuleInv'
      BY <1>0, <2>1, <2>2, <2>4 DEF RuleInv
    <2>6. PositionRespected
      BY <2>1 DEF PositionRespected, Listed
    <2> QED
      BY <1>0, <2>1, <2>2, <2>3, <2>5, <2>6, PlasmaTypes DEF PlasmaInv
  <1>4. CASE KWinPlaces
    <2>1. /\ Listed /\ sync' = sync /\ window' = window /\ syncs' = syncs /\ call' = call
          /\ rules' = [rules EXCEPT !.position = TRUE]
          /\ kwin' = { [r EXCEPT !.position = TRUE] : r \in kwin }
      BY <1>4 DEF KWinPlaces
    <2>2. /\ rules' \in RulesType /\ rules'.ids = rules.ids /\ rules'.count = rules.count
          /\ rules'.entries = rules.entries /\ rules'.position = TRUE
      BY <1>0, <2>1 DEF RulesType
    <2>3. ReadByKWin(kwin')
      <3>1. CASE kwin = {}
        BY <2>1, <3>1 DEF ReadByKWin
      <3>2. ASSUME NEW r \in Rule, kwin = {r} PROVE ReadByKWin(kwin')
        <4>1. kwin' = { [r EXCEPT !.position = TRUE] } /\ [r EXCEPT !.position = TRUE] \in Rule
          BY <2>1, <3>2 DEF Rule
        <4> QED
          BY <4>1 DEF ReadByKWin
      <3> QED
        BY <1>0, <3>1, <3>2 DEF ReadByKWin
    <2>4. rules.ids = IdsFor(call.install) => call.install
      BY <2>1, RuleIds DEF Listed, IdsFor
    <2>5. SyncInv'
      BY <1>0, <2>1, <2>2, <2>4 DEF SyncInv, CallInv, Listed, IdsFor, EntryFor
    <2>6. window.untold \/ sync.changed
          \/ kwin' = {[entries |-> rules.entries, position |-> TRUE]}
      <3>1. window.untold \/ sync.changed
            \/ kwin = {[entries |-> rules.entries, position |-> rules.position]}
        BY <1>0, <2>1 DEF RuleInv, RuleRead
      <3>2. CASE kwin = {[entries |-> rules.entries, position |-> rules.position]}
        <4>1. kwin' = {[[entries |-> rules.entries, position |-> rules.position]
                           EXCEPT !.position = TRUE]}
          BY <2>1, <3>2
        <4> QED
          BY <4>1
      <3> QED
        BY <3>1, <3>2
    <2>7. (window.untold \/ sync.changed \/ kwin = RuleRead)'
      BY <2>1, <2>2, <2>6 DEF RuleRead, Listed
    <2>8. Worked' = Worked /\ (AsCalled => AsCalled')
      BY <2>1, <2>2, <2>4 DEF Worked, AsCalled, IdsFor, EntryFor
    <2>9. RuleInv'
      BY <1>0, <2>1, <2>2, <2>7, <2>8 DEF RuleInv
    <2>10. PositionRespected
      BY <2>1, <2>2 DEF PositionRespected, Listed
    <2> QED
      BY <1>0, <2>1, <2>2, <2>3, <2>5, <2>9, <2>10, PlasmaTypes DEF PlasmaInv
  <1>5. CASE SyncFails
    <2>1. /\ rules' = rules /\ kwin' = kwin /\ UNCHANGED <<call, syncs>> /\ sync.at # "no"
          /\ sync' = NoSync /\ RuleRead' = RuleRead
          /\ window' = [window EXCEPT !.pending = sync.reset /\ @, !.failed = TRUE,
                                      !.untold = @ \/ sync.changed]
      BY <1>5 DEF SyncFails, RuleRead, Listed
    <2>2. Returned(FALSE, TRUE) /\ window'.untold = (window.untold \/ sync.changed)
      <3> DEFINE p == sync.reset /\ window.pending
                 u == window.untold \/ sync.changed
      <3>1. p \in BOOLEAN /\ u \in BOOLEAN
            /\ p = IF sync.reset THEN window.pending ELSE FALSE
        BY <1>0 DEF WindowType, SyncType
      <3>2. window' = [window EXCEPT !.pending = p, !.failed = TRUE, !.untold = u]
        BY <2>1
      <3> HIDE DEF p, u
      <3>3. /\ window' \in WindowType /\ window'.pending = p /\ window'.untold = u
            /\ window'.started = window.started /\ window'.enabled = window.enabled
            /\ window'.mapped = window.mapped /\ window'.everMapped = window.everMapped
            /\ window'.failed = TRUE
        BY <1>0, <3>1, <3>2 DEF WindowType
      <3>4. sync' \in SyncType /\ sync'.at = "no" /\ ~sync'.changed
        BY <2>1 DEF NoSync, SyncType
      <3> QED
        BY <3>1, <3>3, <3>4 DEF Returned, u
    <2>3. window'.untold \/ kwin' = RuleRead'
      BY <1>0, <2>1, <2>2 DEF RuleInv
    <2>4. PlasmaInv'
      BY <1>0, <2>1, <2>2, <2>3, ReturnedKeeps DEF RuleInv
    <2> QED
      BY <2>1, <2>4 DEF PositionRespected, Listed
  <1>6. CASE ReadRuleList
    <2>1. /\ rules' = rules /\ kwin' = kwin /\ syncs' = syncs /\ call' = call /\ sync.at = "list"
          /\ ~sync.changed /\ (sync.create => window.everMapped)
          /\ call.install \in BOOLEAN /\ sync.create \in BOOLEAN
          /\ RuleRead' = RuleRead /\ Others \subseteq rules.ids
      BY <1>0, <1>6
         DEF ReadRuleList, SyncInv, CallInv, RuleInv, CallType, SyncType, RuleRead, Listed
    <2>2. PositionRespected
      BY <2>1 DEF PositionRespected, Listed
    <2>3. CASE call.install /\ ~Listed /\ ~sync.create
      <3>1. SyncReturns(TRUE, FALSE)
        BY <1>6, <2>3 DEF ReadRuleList, CreationAllowed
      <3>2. Returned(TRUE, FALSE) /\ window'.untold = (window.untold \/ FALSE)
        BY <1>0, <3>1, SyncReturned
      <3>3. window'.untold \/ kwin' = RuleRead'
        BY <1>0, <2>1, <3>2 DEF RuleInv
      <3> QED
        BY <1>0, <2>1, <2>2, <2>3, <3>2, <3>3, ReturnedKeeps
    <2>4. CASE ~(call.install /\ ~Listed /\ ~sync.create)
      <3> DEFINE at == IF call.install /\ Listed
                            /\ \E k \in ScopeKeys : rules.entries[k] # "managed"
                         THEN "unscope"
                         ELSE IF ~call.install /\ ~Listed THEN "entries" ELSE "write list"
                 changed == call.install /\ ~Listed
                 ids == IF call.install THEN rules.ids \cup {Hwall} ELSE rules.ids \ {Hwall}
      <3>1. /\ sync' = [sync EXCEPT !.ids = ids, !.todo = Keys, !.changed = changed, !.at = at]
            /\ window' = window
        BY <1>6, <2>4 DEF ReadRuleList, CreationAllowed
      <3>2. /\ at \in {"unscope", "entries", "write list"} /\ changed \in BOOLEAN
            /\ ids \in SUBSET (Others \cup {Hwall}) /\ ids = IdsFor(call.install)
        <4>1. Others \subseteq rules.ids /\ rules.ids \subseteq Others \cup {Hwall}
          BY <1>0 DEF RuleInv, RulesType
        <4> QED
          BY <2>1, <4>1, RuleIds DEF IdsFor
      <3>3. /\ at = "unscope" => \E k \in ScopeKeys : rules.entries[k] # "managed"
            /\ at = "entries" => rules.ids = IdsFor(call.install) /\ ~call.install
            /\ call.install => Listed \/ window.everMapped
        <4>1. Others \subseteq rules.ids /\ rules.ids \subseteq Others \cup {Hwall}
          BY <1>0 DEF RuleInv, RulesType
        <4>2. at = "entries" => ~call.install /\ ~Listed
          OBVIOUS
        <4>3. ~call.install /\ ~Listed => rules.ids = IdsFor(call.install)
          BY <4>1 DEF IdsFor, Listed
        <4>4. call.install => Listed \/ window.everMapped
          BY <2>1, <2>4
        <4>5. at = "unscope" => \E k \in ScopeKeys : rules.entries[k] # "managed"
          OBVIOUS
        <4> QED
          BY <4>2, <4>3, <4>4, <4>5
      <3> HIDE DEF at, changed, ids
      <3>4. /\ sync' \in SyncType /\ sync'.at = at /\ sync'.create = sync.create
            /\ sync'.reset = sync.reset /\ sync'.todo = Keys /\ sync'.ids = ids
        BY <1>0, <3>1, <3>2 DEF SyncType
      <3>5. PlasmaTypeOK' /\ RuleInv' /\ CallInv'
        BY <1>0, <2>1, <3>1, <3>2, <3>4, SteppedKeeps
      <3>6. SyncInv'
        BY <2>1, <3>1, <3>2, <3>3, <3>4, <3>5 DEF SyncInv, Listed, IdsFor
      <3> QED
        BY <2>2, <3>5, <3>6 DEF PlasmaInv
    <2> QED
      BY <2>3, <2>4
  <1>7. CASE UnscopePosition
    <2>1. /\ rules' = [rules EXCEPT !.position = FALSE]
          /\ sync' = [sync EXCEPT !.at = "write list", !.changed = @ \/ rules.position]
          /\ UNCHANGED <<kwin, call, window, syncs>> /\ sync.at = "unscope"
      BY <1>7 DEF UnscopePosition
    <2>2. /\ rules' \in RulesType /\ rules'.ids = rules.ids /\ rules'.entries = rules.entries
          /\ rules.position \in BOOLEAN /\ rules'.position = FALSE
      BY <1>0, <2>1 DEF RulesType
    <2>3. /\ sync' \in SyncType /\ sync'.at = "write list" /\ sync'.create = sync.create
          /\ sync'.reset = sync.reset /\ sync'.todo = sync.todo /\ sync'.ids = sync.ids
          /\ sync'.changed \/ (~sync.changed /\ ~rules.position)
      BY <1>0, <2>1, <2>2 DEF SyncType
    <2>4. Others \subseteq rules'.ids /\ (~rules.position => RuleRead' = RuleRead)
      BY <1>0, <2>2 DEF RuleInv, RuleRead, Listed
    <2>5. PlasmaTypeOK' /\ RuleInv' /\ CallInv'
      BY <1>0, <2>1, <2>2, <2>3, <2>4, SteppedKeeps
    <2>6. SyncInv'
      BY <1>0, <2>1, <2>2, <2>3, <2>5 DEF SyncInv, Listed, IdsFor
    <2>7. PositionRespected
      BY <1>0, <2>1, <2>2 DEF SyncInv, PositionRespected, Listed
    <2> QED
      BY <2>5, <2>6, <2>7 DEF PlasmaInv
  <1>8. CASE WriteRuleList
    <2>1. /\ rules' = [rules EXCEPT !.ids = sync.ids]
          /\ sync' = [sync EXCEPT !.at = "write count", !.changed = @ \/ rules.ids # sync.ids]
          /\ UNCHANGED <<kwin, call, window, syncs>> /\ sync.at = "write list"
      BY <1>8 DEF WriteRuleList
    <2>2. /\ sync.ids = IdsFor(call.install) /\ sync.todo = Keys
          /\ call.install => Listed \/ window.everMapped
      BY <1>0, <2>1 DEF SyncInv
    <2>3. /\ rules' \in RulesType /\ rules'.ids = sync.ids /\ rules'.entries = rules.entries
          /\ rules'.position = rules.position
      BY <1>0, <2>1 DEF RulesType, SyncType
    <2>4. /\ sync' \in SyncType /\ sync'.at = "write count" /\ sync'.create = sync.create
          /\ sync'.reset = sync.reset /\ sync'.todo = sync.todo /\ sync'.ids = sync.ids
          /\ sync'.changed \/ (~sync.changed /\ rules.ids = sync.ids)
      BY <1>0, <2>1 DEF SyncType
    <2>5. Others \subseteq rules'.ids /\ (rules.ids = sync.ids => RuleRead' = RuleRead)
      BY <2>2, <2>3 DEF IdsFor, RuleRead, Listed
    <2>6. PlasmaTypeOK' /\ RuleInv' /\ CallInv'
      BY <1>0, <2>1, <2>3, <2>4, <2>5, SteppedKeeps
    <2>7. SyncInv'
      BY <2>1, <2>2, <2>3, <2>4, <2>6 DEF SyncInv, IdsFor
    <2>8. PositionRespected
      BY <2>2, <2>3, RuleIds DEF PositionRespected, Listed, IdsFor
    <2> QED
      BY <2>6, <2>7, <2>8 DEF PlasmaInv
  <1>9. CASE WriteRuleCount
    <2>1. /\ rules' = [rules EXCEPT !.count = Cardinality(sync.ids)]
          /\ sync' = [sync EXCEPT !.at = "entries",
                                  !.changed = @ \/ rules.count # Cardinality(sync.ids)]
          /\ UNCHANGED <<kwin, call, window, syncs>> /\ sync.at = "write count"
      BY <1>9 DEF WriteRuleCount
    <2>2. /\ sync.ids = IdsFor(call.install) /\ rules.ids = IdsFor(call.install)
          /\ sync.todo = Keys
      BY <1>0, <2>1 DEF SyncInv
    <2>3. Cardinality(sync.ids) \in 0 .. Cardinality(Others) + 1
      BY <1>0, <2>2, RuleIds DEF IdsFor
    <2>4. /\ rules' \in RulesType /\ rules'.ids = rules.ids /\ rules'.count = Cardinality(sync.ids)
          /\ rules'.entries = rules.entries /\ rules'.position = rules.position
      BY <1>0, <2>1, <2>3 DEF RulesType
    <2>5. /\ sync' \in SyncType /\ sync'.at = "entries" /\ sync'.create = sync.create
          /\ sync'.reset = sync.reset /\ sync'.todo = sync.todo
          /\ (sync.changed => sync'.changed)
      BY <1>0, <2>1 DEF SyncType
    <2>6. Others \subseteq rules'.ids /\ RuleRead' = RuleRead
      BY <1>0, <2>4 DEF RuleInv, RuleRead, Listed
    <2>7. PlasmaTypeOK' /\ RuleInv' /\ CallInv'
      BY <1>0, <2>1, <2>4, <2>5, <2>6, SteppedKeeps
    <2>8. SyncInv'
      BY <2>1, <2>2, <2>4, <2>5, <2>7 DEF SyncInv, IdsFor, EntryFor
    <2>9. PositionRespected
      BY <2>4 DEF PositionRespected, Listed
    <2> QED
      BY <2>7, <2>8, <2>9 DEF PlasmaInv
  <1>10. CASE EntriesDone
    <2>1. /\ rules' = rules /\ kwin' = kwin /\ UNCHANGED <<call, syncs>>
          /\ sync.at = "entries" /\ sync.todo = {} /\ call.install \in BOOLEAN
          /\ sync.changed \in BOOLEAN /\ RuleRead' = RuleRead
      BY <1>0, <1>10 DEF EntriesDone, SyncType, CallType, RuleRead, Listed
    <2>2. /\ rules.ids = IdsFor(call.install) /\ Others \subseteq rules.ids
          /\ call.install => rules.count = Cardinality(rules.ids)
          /\ \A k \in Keys : rules.entries[k] = EntryFor(call.install)
      BY <1>0, <2>1 DEF SyncInv, RuleInv
    <2>3. PositionRespected
      BY <2>1 DEF PositionRespected, Listed
    <2>4. CASE call.install /\ ~sync.changed
      <3>1. SyncReturns(FALSE, FALSE)
        BY <1>10, <2>4 DEF EntriesDone
      <3>2. Returned(FALSE, FALSE) /\ window'.untold = (window.untold \/ FALSE)
        BY <1>0, <3>1, SyncReturned
      <3>3. window'.untold \/ kwin' = RuleRead'
        BY <1>0, <2>1, <2>4, <3>2 DEF RuleInv
      <3>4. AsCalled'
        BY <2>1, <2>2, <2>4 DEF AsCalled, IdsFor, EntryFor
      <3> QED
        BY <1>0, <2>1, <2>2, <2>3, <3>2, <3>3, <3>4, ReturnedKeeps
    <2>5. CASE ~(call.install /\ ~sync.changed)
      <3> DEFINE at == IF call.install THEN "reconfigure" ELSE "position"
      <3>1. sync' = [sync EXCEPT !.at = at] /\ window' = window
        BY <1>10, <2>1, <2>5 DEF EntriesDone
      <3>2. at \in {"reconfigure", "position"} /\ (at = "reconfigure" <=> call.install)
        BY <2>1
      <3> HIDE DEF at
      <3>3. /\ sync' \in SyncType /\ sync'.at = at /\ sync'.create = sync.create
            /\ sync'.reset = sync.reset /\ sync'.changed = sync.changed
        BY <1>0, <3>1, <3>2 DEF SyncType
      <3>4. PlasmaTypeOK' /\ RuleInv' /\ CallInv'
        BY <1>0, <2>1, <2>2, <3>1, <3>2, <3>3, SteppedKeeps
      <3>5. SyncInv'
        BY <2>1, <2>2, <3>1, <3>2, <3>3, <3>4 DEF SyncInv, IdsFor, EntryFor
      <3> QED
        BY <2>3, <3>4, <3>5 DEF PlasmaInv
    <2> QED
      BY <2>4, <2>5
  <1>11. CASE RemovePosition
    <2> DEFINE changed == sync.changed \/ rules.position
    <2>1. /\ rules' = [rules EXCEPT !.position = FALSE] /\ UNCHANGED <<kwin, call, syncs>>
          /\ sync.at = "position" /\ changed \in BOOLEAN
      BY <1>0, <1>11 DEF RemovePosition, SyncType, RulesType
    <2>2. /\ ~call.install /\ rules.ids = Others /\ Others = IdsFor(call.install)
          /\ \A k \in Keys : rules.entries[k] = EntryFor(call.install)
      BY <1>0, <2>1 DEF SyncInv, IdsFor, EntryFor
    <2>3. /\ rules' \in RulesType /\ rules'.ids = rules.ids /\ rules'.count = rules.count
          /\ rules'.entries = rules.entries /\ ~rules'.position
      BY <1>0, <2>1 DEF RulesType
    <2>4. PositionRespected
      BY <2>2, <2>3 DEF PositionRespected, Listed
    <2>5. RuleRead' = RuleRead
      BY <2>2, <2>3, RuleIds DEF Listed, RuleRead
    <2>6. window.untold \/ changed \/ kwin = RuleRead
      BY <1>0 DEF RuleInv
    <2>7. sync.changed => changed
      OBVIOUS
    <2>8. CASE changed /\ "plasma" \in call.tools
      <3>1. sync' = [sync EXCEPT !.at = "reconfigure", !.changed = changed] /\ window' = window
        BY <1>11, <2>8 DEF RemovePosition
      <3> HIDE DEF changed
      <3>2. /\ sync' \in SyncType /\ sync'.at = "reconfigure" /\ sync'.create = sync.create
            /\ sync'.reset = sync.reset /\ sync'.changed = changed
        BY <1>0, <2>1, <3>1 DEF SyncType
      <3>3. PlasmaTypeOK' /\ RuleInv' /\ CallInv'
        BY <1>0, <2>1, <2>2, <2>3, <2>8, <3>1, <3>2, SteppedKeeps
      <3>4. SyncInv'
        BY <2>1, <2>2, <2>3, <3>1, <3>2, <3>3 DEF SyncInv, IdsFor, EntryFor
      <3> QED
        BY <2>4, <3>3, <3>4 DEF PlasmaInv
    <2>9. CASE ~(changed /\ "plasma" \in call.tools)
      <3>1. SyncReturns(FALSE, changed)
        BY <1>11, <2>9 DEF RemovePosition
      <3> HIDE DEF changed
      <3>2. Returned(FALSE, FALSE) /\ window'.untold = (window.untold \/ changed)
        BY <1>0, <2>1, <3>1, SyncReturned
      <3>3. window'.untold \/ kwin' = RuleRead'
        BY <2>1, <2>5, <2>6, <3>2
      <3>4. AsCalled'
        BY <2>1, <2>2, <2>3 DEF AsCalled, IdsFor, EntryFor
      <3>5. ReadByKWin(kwin') /\ Others \subseteq rules'.ids
        BY <1>0, <2>1, <2>2, <2>3
      <3> QED
        BY <1>0, <2>1, <2>3, <2>4, <3>2, <3>3, <3>4, <3>5, ReturnedKeeps
    <2> QED
      BY <2>8, <2>9
  <1>12. CASE Reconfigure
    <2>1. /\ kwin' = RuleRead /\ sync' = NoSync /\ rules' = rules /\ UNCHANGED <<call, syncs>>
          /\ window' = [window EXCEPT !.pending = sync.reset /\ @, !.failed = FALSE,
                                      !.untold = FALSE]
          /\ sync.at = "reconfigure" /\ RuleRead' = RuleRead
      BY <1>12 DEF Reconfigure, RuleRead, Listed
    <2>2. ReadByKWin(RuleRead)
      BY <1>0 DEF RuleRead, ReadByKWin, RulesType, Rule
    <2>3. Returned(FALSE, FALSE)
      <3> DEFINE p == sync.reset /\ window.pending
      <3>1. p \in BOOLEAN /\ p = IF sync.reset THEN window.pending ELSE FALSE
        BY <1>0 DEF WindowType, SyncType
      <3>2. window' = [window EXCEPT !.pending = p, !.failed = FALSE, !.untold = FALSE]
        BY <2>1
      <3> HIDE DEF p
      <3>3. /\ window' \in WindowType /\ window'.pending = p
            /\ window'.started = window.started /\ window'.enabled = window.enabled
            /\ window'.mapped = window.mapped /\ window'.everMapped = window.everMapped
            /\ window'.failed = FALSE
        BY <1>0, <3>1, <3>2 DEF WindowType
      <3>4. sync' \in SyncType /\ sync'.at = "no" /\ ~sync'.changed
        BY <2>1 DEF NoSync, SyncType
      <3> QED
        BY <3>1, <3>3, <3>4 DEF Returned
    <2>4. AsCalled'
      BY <1>0, <2>1 DEF SyncInv, AsCalled, IdsFor, EntryFor
    <2>5. PlasmaInv'
      BY <1>0, <2>1, <2>2, <2>3, <2>4, ReturnedKeeps DEF RuleInv
    <2> QED
      BY <2>1, <2>5 DEF PositionRespected, Listed
  <1>13. ASSUME NEW enabled \in BOOLEAN, ApplySetting(enabled)
        PROVE  PlasmaInv' /\ PositionRespected
    <2>1. /\ BeginSync(enabled, window.mapped, FALSE) /\ window.mapped \in BOOLEAN
          /\ window' = [window EXCEPT !.enabled = enabled] /\ rules' = rules /\ kwin' = kwin
          /\ sync.at = "no" /\ window.started
      BY <1>0, <1>13 DEF ApplySetting, WindowType
    <2>2. /\ sync' \in SyncType /\ call' \in CallType /\ syncs' \in 0 .. MaxSyncs
          /\ sync'.at = "list" /\ sync'.create = window.mapped /\ sync'.reset = FALSE
          /\ ~sync'.changed /\ call'.install = enabled
      BY <1>0, <2>1, BegunSync
    <2>3. /\ window' \in WindowType /\ window'.enabled = enabled
          /\ window'.started = window.started /\ window'.mapped = window.mapped
          /\ window'.everMapped = window.everMapped /\ window'.untold = window.untold
      BY <1>0, <2>1 DEF WindowType
    <2>4. SyncInv'
      BY <1>0, <2>1, <2>2, <2>3 DEF SyncInv, CallInv, RuleInv
    <2>5. ~sync.changed /\ RuleRead' = RuleRead
      BY <1>0, <2>1 DEF SyncInv, RuleRead, Listed
    <2>6. RuleInv'
      BY <1>0, <2>1, <2>2, <2>3, <2>5 DEF RuleInv, Worked
    <2>7. PositionRespected
      BY <2>1 DEF PositionRespected, Listed
    <2> QED
      BY <1>0, <2>1, <2>2, <2>3, <2>4, <2>6, <2>7, PlasmaTypes DEF PlasmaInv
  <1>14. ASSUME NEW k \in Keys, SyncEntry(k)
        PROVE  PlasmaInv' /\ PositionRespected
    <2> DEFINE value == IF call.install THEN "managed" ELSE "absent"
    <2>1. /\ rules' = [rules EXCEPT !.entries[k] = value]
          /\ sync' = [sync EXCEPT !.todo = @ \ {k},
                                  !.changed = @ \/ rules.entries[k] # value]
          /\ UNCHANGED <<kwin, call, window, syncs>> /\ sync.at = "entries"
      BY <1>14 DEF SyncEntry, Written
    <2>2. /\ value \in Entry /\ value = EntryFor(call.install)
      BY DEF Entry, EntryFor
    <2> HIDE DEF value
    <2>3. /\ rules' \in RulesType /\ rules'.ids = rules.ids /\ rules'.count = rules.count
          /\ rules'.entries = [rules.entries EXCEPT ![k] = value]
          /\ rules'.position = rules.position /\ rules.entries \in [Keys -> Entry]
      BY <1>0, <2>1, <2>2 DEF RulesType
    <2>4. /\ sync' \in SyncType /\ sync'.at = "entries" /\ sync'.reset = sync.reset
          /\ sync'.create = sync.create /\ sync'.todo = sync.todo \ {k}
          /\ (sync.changed => sync'.changed)
          /\ (rules.entries[k] # value => sync'.changed)
      BY <1>0, <2>1 DEF SyncType
    <2>5. /\ rules.ids = IdsFor(call.install) /\ Others \subseteq rules.ids
          /\ call.install => rules.count = Cardinality(rules.ids)
          /\ \A j \in Keys \ sync.todo : rules.entries[j] = EntryFor(call.install)
      BY <1>0, <2>1 DEF SyncInv, RuleInv
    <2>6. \A j \in Keys \ sync'.todo : rules'.entries[j] = EntryFor(call.install)
      <3>1. SUFFICES ASSUME NEW j \in Keys, j \notin sync'.todo
                     PROVE  rules'.entries[j] = EntryFor(call.install)
        OBVIOUS
      <3>2. CASE j = k
        BY <2>2, <2>3, <3>2
      <3>3. CASE j # k
        BY <2>3, <2>4, <2>5, <3>1, <3>3
      <3> QED
        BY <3>2, <3>3
    <2>7. sync'.changed \/ (~sync.changed /\ RuleRead' = RuleRead)
      <3>1. ~sync'.changed => ~sync.changed /\ rules'.entries = rules.entries
        BY <2>3, <2>4
      <3> QED
        BY <2>3, <3>1 DEF RuleRead, Listed
    <2>8. PlasmaTypeOK' /\ RuleInv' /\ CallInv'
      BY <1>0, <2>1, <2>3, <2>4, <2>5, <2>7, SteppedKeeps
    <2>9. SyncInv'
      BY <2>1, <2>3, <2>4, <2>5, <2>6, <2>8 DEF SyncInv, IdsFor
    <2>10. PositionRespected
      BY <2>3 DEF PositionRespected, Listed
    <2> QED
      BY <2>8, <2>9, <2>10 DEF PlasmaInv
  <1>15. CASE UNCHANGED plasmaVars
    <2>1. /\ rules' = rules /\ kwin' = kwin /\ call' = call /\ sync' = sync
          /\ window' = window /\ syncs' = syncs
      BY <1>15 DEF plasmaVars
    <2>2. PlasmaTypeOK'
      BY <1>0, <2>1, PlasmaTypes
    <2>3. SyncInv'
      BY <1>0, <2>1 DEF SyncInv, CallInv, Listed, IdsFor, EntryFor
    <2>4. RuleInv'
      BY <1>0, <2>1 DEF RuleInv, Worked, AsCalled, RuleRead, Listed, IdsFor, EntryFor
    <2> QED
      BY <1>15, <2>2, <2>3, <2>4 DEF PlasmaInv
  <1>16. CASE ResetSettings
    <2>1. /\ BeginSync(FALSE, FALSE, TRUE) /\ rules' = rules /\ kwin' = kwin
          /\ window' = window /\ sync.at = "no" /\ window.started
      BY <1>16 DEF ResetSettings
    <2>2. /\ sync' \in SyncType /\ call' \in CallType /\ syncs' \in 0 .. MaxSyncs
          /\ sync'.at = "list" /\ sync'.create = FALSE /\ sync'.reset = TRUE
          /\ ~sync'.changed /\ call'.install = FALSE
      BY <1>0, <2>1, BegunSync
    <2>3. SyncInv'
      BY <2>1, <2>2 DEF SyncInv, CallInv
    <2>4. ~sync.changed /\ RuleRead' = RuleRead
      BY <1>0, <2>1 DEF SyncInv, RuleRead, Listed
    <2>5. RuleInv'
      BY <1>0, <2>1, <2>2, <2>4 DEF RuleInv, Worked
    <2>6. PositionRespected
      BY <2>1 DEF PositionRespected, Listed
    <2> QED
      BY <1>0, <2>1, <2>2, <2>3, <2>5, <2>6, PlasmaTypes DEF PlasmaInv
  <1>17. CASE Relaunch
    <2>1. PICK enabled \in BOOLEAN : window' = NewWindow(enabled, window.untold \/ sync.changed)
      BY <1>17 DEF Relaunch
    <2>2. /\ sync' = NoSync /\ rules' = rules /\ kwin' = kwin /\ call' = call /\ syncs' = syncs
          /\ RuleRead' = RuleRead
      BY <1>17 DEF Relaunch, RuleRead, Listed
    <2>3. sync' \in SyncType /\ sync'.at = "no" /\ ~sync'.changed
      BY <2>2 DEF NoSync, SyncType
    <2>4. /\ window' \in WindowType /\ ~window'.started /\ ~window'.mapped /\ ~window'.pending
          /\ window'.untold = (window.untold \/ sync.changed)
      <3> DEFINE u == window.untold \/ sync.changed
      <3>1. u \in BOOLEAN
        BY <1>0 DEF WindowType, SyncType
      <3> HIDE DEF u
      <3>2. window' = NewWindow(enabled, u)
        BY <2>1 DEF u
      <3>3. /\ window' \in WindowType /\ ~window'.started /\ ~window'.mapped
            /\ ~window'.pending /\ window'.untold = u
        BY <3>1, <3>2 DEF WindowType, NewWindow
      <3> QED
        BY <3>3 DEF u
    <2>5. SyncInv'
      BY <2>3 DEF SyncInv, CallInv
    <2>6. RuleInv'
      BY <1>0, <2>2, <2>3, <2>4 DEF RuleInv, Worked
    <2>7. PositionRespected
      BY <2>2 DEF PositionRespected, Listed
    <2> QED
      BY <1>0, <2>2, <2>3, <2>4, <2>5, <2>6, <2>7, PlasmaTypes DEF PlasmaInv
  <1>18. CASE RemovalSkipped
    <2>1. /\ SyncReturns(FALSE, FALSE) /\ rules' = rules /\ kwin' = kwin
          /\ UNCHANGED <<call, syncs>> /\ sync.at = "list" /\ RuleRead' = RuleRead
          /\ ~call.install /\ "kconfig" \notin call.tools
      BY <1>18 DEF RemovalSkipped, ToolsFound, RuleRead, Listed
    <2>2. Returned(FALSE, FALSE) /\ window'.untold = (window.untold \/ FALSE)
      BY <1>0, <2>1, SyncReturned
    <2>3. window'.untold \/ kwin' = RuleRead'
      BY <1>0, <2>1, <2>2 DEF RuleInv, SyncInv
    <2>4. PlasmaInv'
      BY <1>0, <2>1, <2>2, <2>3, ReturnedKeeps DEF RuleInv
    <2> QED
      BY <2>1, <2>4 DEF PositionRespected, Listed
  <1> QED
    BY <1>1, <1>2, <1>3, <1>4, <1>5, <1>6, <1>7, <1>8, <1>9, <1>10,
       <1>11, <1>12, <1>13, <1>14, <1>15, <1>16, <1>17, <1>18 DEF PlasmaNext

(* However attempts to install, refresh or remove the window rule fail, or *)
(* are killed, between their helper programs, and whichever of these are   *)
(* missing: an attempt that works leaves the rule as it was called for,    *)
(* its file whole and KWin with what it says or not told; a removal does   *)
(* if the programs for the file were there.  No step creates the rule      *)
(* before the window is mapped or drops the position that KWin remembers.  *)
THEOREM RuleIsManaged == PlasmaSpec => RuleManaged
  <1>1. PlasmaInv /\ [PlasmaNext]_plasmaVars => PlasmaInv'
    BY PlasmaInductive
  <1>2. PlasmaInv /\ [PlasmaNext]_plasmaVars => [PositionRespected]_plasmaVars
    BY PlasmaInductive
  <1>3. RuleAsWanted' /\ [PositionRespected]_plasmaVars =>
           [RuleAsWanted' /\ PositionRespected]_plasmaVars
    OBVIOUS
  <1> QED
    BY <1>1, <1>2, <1>3, PlasmaStart, RuleIsAsWanted, PTL DEF PlasmaSpec, RuleManaged
-----------------------------------------------------------------------------
(* The clients of the collector *)

(* Neither command waits for a helper of the storage health.               *)
Asking == {"Refresh", "SetSensitive"}

(* How many of some commands or answers are of some operations.            *)
Asked(s, ops) == Cardinality({i \in DOMAIN s : s[i].op \in ops})

(* How many commands of some operations are under way, with their answers. *)
Under(ops) == Asked(inbox, ops) + Asked(doing, ops) + Asked(outbox, ops)

LEMMA AskedConcat ==
  ASSUME NEW S, NEW s \in Seq(S), NEW t \in Seq(S), NEW ops
  PROVE  /\ Asked(s \o t, ops) = Asked(s, ops) + Asked(t, ops)
         /\ Asked(s, ops) \in Nat /\ Asked(t, ops) \in Nat
  <1>1. /\ Len(s) \in Nat /\ Len(t) \in Nat
        /\ DOMAIN s = 1..Len(s) /\ DOMAIN t = 1..Len(t)
        /\ DOMAIN (s \o t) = 1..(Len(s) + Len(t))
        /\ \A i \in 1..Len(s) : (s \o t)[i] = s[i]
        /\ \A j \in 1..Len(t) : (s \o t)[Len(s) + j] = t[j]
    OBVIOUS
  <1>2. /\ \A i \in 1..Len(s) : i \in 1..(Len(s) + Len(t))
        /\ \A j \in 1..Len(t) : Len(s) + j \in 1..(Len(s) + Len(t))
    BY <1>1
  <1> DEFINE P == {i \in DOMAIN (s \o t) : (s \o t)[i].op \in ops}
             A == {i \in DOMAIN s : s[i].op \in ops}
             B == {i \in DOMAIN t : t[i].op \in ops}
  <1>3. P \in SUBSET (1..(Len(s) + Len(t))) /\ A \in SUBSET (1..Len(s)) /\ B \in SUBSET (1..Len(t))
    BY <1>1
  <1>4. /\ \A i \in 1..Len(s) : i \in P <=> i \in A
        /\ \A j \in 1..Len(t) : Len(s) + j \in P <=> j \in B
    BY <1>1, <1>2
  <1>5. Asked(s \o t, ops) = Cardinality(P) /\ Asked(s, ops) = Cardinality(A)
        /\ Asked(t, ops) = Cardinality(B)
    BY Zenon DEF Asked
  <1> HIDE DEF P, A, B
  <1>6. Len(s) \in Nat /\ Len(t) \in Nat
    BY <1>1
  <1>7. /\ Cardinality(P) = Cardinality(A) + Cardinality(B)
        /\ Cardinality(A) \in Nat /\ Cardinality(B) \in Nat
    BY <1>3, <1>4, <1>6, CardinalityParts
  <1> QED
    BY <1>5, <1>7

LEMMA AskedOne ==
  ASSUME NEW m, NEW ops
  PROVE  /\ Asked(<<m>>, ops) = IF m.op \in ops THEN 1 ELSE 0
         /\ Asked(<<>>, ops) = 0
  <1>1. /\ {i \in DOMAIN <<m>> : <<m>>[i].op \in ops} = IF m.op \in ops THEN {1} ELSE {}
        /\ {i \in DOMAIN <<>> : <<>>[i].op \in ops} = {}
    OBVIOUS
  <1>2. Cardinality({1}) = 1 /\ Cardinality({}) = 0
    BY FS_Singleton, FS_EmptySet
  <1> QED
    BY <1>1, <1>2 DEF Asked

LEMMA AskedTail ==
  ASSUME NEW c \in Seq(Update), c # <<>>, NEW ops
  PROVE  /\ Asked(c, ops) = (IF Head(c).op \in ops THEN 1 ELSE 0) + Asked(Tail(c), ops)
         /\ Asked(Tail(c), ops) \in Nat
  <1>1. Head(c) \in Update /\ Tail(c) \in Seq(Update) /\ <<Head(c)>> \in Seq(Update)
    OBVIOUS
  <1>2. c = <<Head(c)>> \o Tail(c)
    OBVIOUS
  <1>3. /\ Asked(<<Head(c)>> \o Tail(c), ops) = Asked(<<Head(c)>>, ops) + Asked(Tail(c), ops)
        /\ Asked(Tail(c), ops) \in Nat
    BY <1>1, AskedConcat
  <1> QED
    BY <1>2, <1>3, AskedOne

LEMMA AskedAppend ==
  ASSUME NEW c \in Seq(Update), NEW u \in Update, NEW ops
  PROVE  /\ Asked(Append(c, u), ops) = Asked(c, ops) + (IF u.op \in ops THEN 1 ELSE 0)
         /\ Asked(c, ops) \in Nat
  <1>1. Append(c, u) = c \o <<u>> /\ <<u>> \in Seq(Update)
    OBVIOUS
  <1>2. /\ Asked(c \o <<u>>, ops) = Asked(c, ops) + Asked(<<u>>, ops)
        /\ Asked(c, ops) \in Nat
    BY <1>1, AskedConcat
  <1> QED
    BY <1>1, <1>2, AskedOne

Message == Command \cup Update

LEMMA AllMessages ==
  ASSUME NEW a \in Seq(Command), NEW b \in Seq(Command), NEW c \in Seq(Update)
  PROVE  /\ a \in Seq(Message) /\ b \in Seq(Message) /\ c \in Seq(Message)
         /\ (a \o b) \in Seq(Message) /\ ((a \o b) \o c) \in Seq(Message)
  <1>2. Command \subseteq Message /\ Update \subseteq Message
    BY DEF Message
  <1>3. a \in Seq(Message) /\ b \in Seq(Message) /\ c \in Seq(Message)
    BY <1>2, SeqMonotonic
  <1>4. (a \o b) \in Seq(Message)
    BY <1>3, ConcatProperties
  <1> QED
    BY <1>3, <1>4, ConcatProperties

LEMMA AskedInAll ==
  ASSUME NEW a \in Seq(Command), NEW b \in Seq(Command), NEW c \in Seq(Update), NEW ops
  PROVE  /\ Asked((a \o b) \o c, ops) = Asked(a, ops) + Asked(b, ops) + Asked(c, ops)
         /\ Asked(a, ops) \in Nat /\ Asked(b, ops) \in Nat /\ Asked(c, ops) \in Nat
  <1>1. /\ a \in Seq(Message) /\ b \in Seq(Message) /\ c \in Seq(Message)
        /\ (a \o b) \in Seq(Message)
    BY AllMessages
  <1>2. /\ Asked(a \o b, ops) = Asked(a, ops) + Asked(b, ops)
        /\ Asked(a, ops) \in Nat /\ Asked(b, ops) \in Nat
    BY <1>1, AskedConcat
  <1>3. /\ Asked((a \o b) \o c, ops) = Asked(a \o b, ops) + Asked(c, ops)
        /\ Asked(c, ops) \in Nat
    BY <1>1, AskedConcat
  <1> QED
    BY <1>2, <1>3

(* What the contract keeps by itself, whatever the client asks.            *)
LinkInv ==
    /\ ContractTypeOK
    /\ doing = <<>> \/ collected = <<>>
    /\ doing # <<>> \/ collected # <<>> => Len(outbox) <= 1
    /\ ~alive => inbox = <<>> /\ doing = <<>>

LEMMA UnderNat ==
  ASSUME NEW ops
  PROVE  /\ ContractTypeOK => /\ Under(ops) \in Nat /\ Asked(inbox, ops) \in Nat
                              /\ Asked(doing, ops) \in Nat /\ Asked(outbox, ops) \in Nat
         /\ ContractTypeOK' => Under(ops)' \in Nat
  <1>1. ASSUME ContractTypeOK
        PROVE  /\ Under(ops) \in Nat /\ Asked(inbox, ops) \in Nat
               /\ Asked(doing, ops) \in Nat /\ Asked(outbox, ops) \in Nat
    <2>1. inbox \in Seq(Command) /\ doing \in Seq(Command) /\ outbox \in Seq(Update)
      BY <1>1 DEF ContractTypeOK
    <2>2. Asked(inbox, ops) \in Nat /\ Asked(doing, ops) \in Nat /\ Asked(outbox, ops) \in Nat
      BY <2>1, AskedInAll
    <2> QED
      BY <2>2 DEF Under
  <1>2. ASSUME ContractTypeOK'
        PROVE  Under(ops)' \in Nat
    <2>1. inbox' \in Seq(Command) /\ doing' \in Seq(Command) /\ outbox' \in Seq(Update)
      BY <1>2 DEF ContractTypeOK
    <2>2. Asked(inbox', ops) \in Nat /\ Asked(doing', ops) \in Nat /\ Asked(outbox', ops) \in Nat
      BY <2>1, AskedInAll
    <2> QED
      BY <2>2 DEF Under
  <1> QED
    BY <1>1, <1>2

(* What the terminal monitor and watch count.                              *)
Unhealthy(messages) == Cardinality({ i \in DOMAIN messages : ~ForHealth(messages[i]) })
Samples(messages) == Cardinality({ i \in DOMAIN messages : messages[i].op = "Refresh" })

LEMMA CountedByClients ==
  ASSUME NEW a \in Seq(Command), NEW b \in Seq(Command), NEW c \in Seq(Update)
  PROVE  /\ Unhealthy((a \o b) \o c) = Asked(a, Asking) + Asked(b, Asking) + Asked(c, Asking)
         /\ Samples((a \o b) \o c)
              = Asked(a, {"Refresh"}) + Asked(b, {"Refresh"}) + Asked(c, {"Refresh"})
  <1> DEFINE messages == (a \o b) \o c
  <1>1. messages \in Seq(Message)
    BY AllMessages
  <1>2. \A i \in DOMAIN messages : messages[i].op \in Operation
    <2>1. \A i \in DOMAIN messages : messages[i] \in Message
      BY <1>1
    <2> QED
      BY <2>1 DEF Message, Command, Update
  <1>3. { i \in DOMAIN messages : ~ForHealth(messages[i]) } =
        { i \in DOMAIN messages : messages[i].op \in Asking }
    BY <1>2 DEF ForHealth, Asking, Operation
  <1>4. { i \in DOMAIN messages : messages[i].op = "Refresh" } =
        { i \in DOMAIN messages : messages[i].op \in {"Refresh"} }
    OBVIOUS
  <1>5. /\ Asked(messages, Asking) = Asked(a, Asking) + Asked(b, Asking) + Asked(c, Asking)
        /\ Asked(messages, {"Refresh"})
             = Asked(a, {"Refresh"}) + Asked(b, {"Refresh"}) + Asked(c, {"Refresh"})
    BY AskedInAll
  <1>6. Unhealthy(messages) = Asked(messages, Asking) /\ Samples(messages) = Asked(messages, {"Refresh"})
    <2> HIDE DEF messages
    <2> QED
      BY <1>3, <1>4 DEF Asked, Unhealthy, Samples
  <1> QED
    BY <1>5, <1>6

LEMMA UnderWay ==
  /\ ContractTypeOK => TuiOpen = Under(Asking) /\ Owed = Under({"Refresh"})
  /\ ContractTypeOK' => TuiOpen' = Under(Asking)' /\ Owed' = Under({"Refresh"})'
  <1>1. ASSUME ContractTypeOK
        PROVE  TuiOpen = Under(Asking) /\ Owed = Under({"Refresh"})
    <2>1. inbox \in Seq(Command) /\ doing \in Seq(Command) /\ outbox \in Seq(Update)
      BY <1>1 DEF ContractTypeOK
    <2>2. /\ TuiOpen = Unhealthy((inbox \o doing) \o outbox)
          /\ Owed = Samples((inbox \o doing) \o outbox)
      BY Zenon DEF TuiOpen, Owed, Unhealthy, Samples
    <2> QED
      BY <2>1, <2>2, CountedByClients DEF Under
  <1>2. ASSUME ContractTypeOK'
        PROVE  TuiOpen' = Under(Asking)' /\ Owed' = Under({"Refresh"})'
    <2>1. inbox' \in Seq(Command) /\ doing' \in Seq(Command) /\ outbox' \in Seq(Update)
      BY <1>2 DEF ContractTypeOK
    <2>2. /\ TuiOpen' = Unhealthy((inbox' \o doing') \o outbox')
          /\ Owed' = Samples((inbox' \o doing') \o outbox')
      BY Zenon DEF TuiOpen, Owed, Unhealthy, Samples
    <2> QED
      BY <2>1, <2>2, CountedByClients DEF Under
  <1> QED
    BY <1>1, <1>2

(* An answer finds room, and counts like the command it answers.           *)
LEMMA Delivered ==
  ASSUME LinkInv, doing # <<>> \/ collected # <<>>, NEW u \in Update, Deliver(u), NEW ops
  PROVE  /\ outbox' \in Seq(Update) /\ Len(outbox') <= 2
         /\ open => Asked(outbox', ops) = Asked(outbox, ops) + (IF u.op \in ops THEN 1 ELSE 0)
  <1>1. outbox \in Seq(Update) /\ Len(outbox) <= 1 /\ Len(outbox) \in Nat
    BY DEF LinkInv, ContractTypeOK
  <1>2. CASE open
    <2>1. outbox' = Append(outbox, u)
      BY <1>2 DEF Deliver
    <2>2. outbox' \in Seq(Update) /\ Len(outbox') = Len(outbox) + 1
      BY <1>1, <2>1, AppendProperties
    <2>3. Asked(outbox', ops) = Asked(outbox, ops) + (IF u.op \in ops THEN 1 ELSE 0)
      BY <1>1, <2>1, AskedAppend
    <2> QED
      BY <1>1, <2>2, <2>3
  <1>3. CASE ~open
    <2>1. outbox' = <<>>
      BY <1>3 DEF Deliver
    <2> QED
      BY <1>3, <2>1
  <1> QED
    BY <1>2, <1>3

(* A step of the contract that leaves as much under way as there was.      *)
Untouched(ops) ==
    /\ LinkInv' /\ alive /\ alive' = alive /\ open' = open
    /\ open => Under(ops)' = Under(ops)

LEMMA AnswerKeeps ==
  ASSUME LinkInv, alive, doing # <<>>, state' \in Collector, claimed' \in BOOLEAN,
         Deliver(Answer(Head(doing), state')), doing' = <<>>,
         UNCHANGED <<inbox, health, collected, wanted, open, alive>>, NEW ops
  PROVE  Untouched(ops)
  <1> DEFINE cmd == Head(doing)
             answer == Answer(cmd, state')
  <1>1. cmd \in Command /\ doing = <<cmd>> /\ collected = <<>>
    BY Single DEF LinkInv, ContractTypeOK
  <1>2. answer \in Update /\ answer.op = cmd.op
    BY <1>1, Constructors DEF Answer
  <1>3. Deliver(answer)
    OBVIOUS
  <1> HIDE DEF cmd, answer
  <1>4. /\ outbox' \in Seq(Update) /\ Len(outbox') <= 2
        /\ open => Asked(outbox', ops) = Asked(outbox, ops) + (IF cmd.op \in ops THEN 1 ELSE 0)
    BY <1>2, <1>3, Delivered
  <1>5. ContractTypeOK'
    BY <1>4 DEF LinkInv, ContractTypeOK
  <1>6. LinkInv'
    BY <1>1, <1>5 DEF LinkInv
  <1>7. /\ Asked(inbox, ops) \in Nat /\ Asked(doing, ops) \in Nat /\ Asked(outbox, ops) \in Nat
    BY UnderNat DEF LinkInv
  <1>8. /\ Asked(doing, ops) = (IF cmd.op \in ops THEN 1 ELSE 0)
        /\ Asked(doing', ops) = 0
    BY <1>1, AskedOne
  <1>9. open => Under(ops)' = Under(ops)
    <2>1. Under(ops)' = Asked(inbox, ops) + Asked(doing', ops) + Asked(outbox', ops)
      BY DEF Under
    <2> QED
      BY <1>4, <1>7, <1>8, <2>1 DEF Under
  <1> QED
    BY <1>6, <1>9 DEF Untouched

LEMMA TakeKeeps ==
  ASSUME LinkInv, Take, NEW ops
  PROVE  Untouched(ops)
  <1>1. /\ alive /\ doing = <<>> /\ collected = <<>> /\ Len(outbox) <= 1
        /\ doing' = inbox /\ inbox' = <<>> /\ outbox' = outbox
        /\ UNCHANGED <<health, collected, claimed, wanted, state, open, alive>>
    BY DEF Take, Ready
  <1>2. LinkInv'
    BY <1>1 DEF LinkInv, ContractTypeOK
  <1>3. /\ Asked(inbox, ops) \in Nat /\ Asked(<<>>, ops) = 0 /\ Asked(outbox, ops) \in Nat
    BY UnderNat, AskedOne DEF LinkInv
  <1>4. Under(ops)' = Under(ops)
    BY <1>1, <1>3 DEF Under
  <1> QED
    BY <1>1, <1>2, <1>4 DEF Untouched

LEMMA DoRefreshKeeps ==
  ASSUME LinkInv, DoRefresh, NEW ops
  PROVE  Untouched(ops)
  <1>1. state \in Collector /\ claimed \in BOOLEAN
    BY DEF LinkInv, ContractTypeOK
  <1>2. state' \in Collector
    BY <1>1, CollectorOperations DEF DoRefresh
  <1> QED
    BY <1>1, <1>2, AnswerKeeps DEF DoRefresh, Carry

LEMMA DoSetSensitiveKeeps ==
  ASSUME LinkInv, DoSetSensitive, NEW ops
  PROVE  Untouched(ops)
  <1>1. state \in Collector /\ claimed \in BOOLEAN
    BY DEF LinkInv, ContractTypeOK
  <1>2. doing # <<>> /\ Head(doing) \in Command
    BY Single DEF LinkInv, ContractTypeOK, DoSetSensitive, Carry
  <1>3. Head(doing).flag \in BOOLEAN
    BY <1>2 DEF Command
  <1>4. state' \in Collector
    BY <1>1, <1>3, CollectorOperations DEF DoSetSensitive
  <1> QED
    BY <1>1, <1>4, AnswerKeeps DEF DoSetSensitive, Carry

LEMMA DoStorageHealthKeeps ==
  ASSUME LinkInv, DoStorageHealth, NEW ops \in SUBSET Asking
  PROVE  Untouched(ops)
  <1> DEFINE cmd == Head(doing)
             job == JobFor(state, cmd.ids)
  <1>1. /\ cmd \in Command /\ doing = <<cmd>> /\ doing # <<>> /\ cmd.op = "StorageHealth"
        /\ state \in Collector /\ alive /\ collected = <<>>
    BY Single DEF LinkInv, ContractTypeOK, DoStorageHealth, Carry
  <1>2. job \in Job
    BY <1>1, Constructors DEF Command
  <1>3. CASE job.targets = {}
    <2>1. claimed' = FALSE /\ Deliver(Answer(Head(doing), state')) /\ state' = state
      BY <1>3 DEF DoStorageHealth
    <2>2. doing' = <<>> /\ UNCHANGED <<inbox, health, collected, wanted, open, alive>>
      BY <1>3 DEF DoStorageHealth
    <2> QED
      BY <1>1, <2>1, <2>2, AnswerKeeps
  <1>4. CASE job.targets # {}
    <2>1. /\ health' = <<job>> /\ doing' = <<>>
          /\ UNCHANGED <<inbox, collected, outbox, claimed, wanted, state, open, alive>>
      BY <1>4 DEF DoStorageHealth
    <2> HIDE DEF job, cmd
    <2>2. LinkInv'
      BY <1>1, <1>2, <2>1 DEF LinkInv, ContractTypeOK
    <2>3. Asked(doing, ops) = 0 /\ Asked(doing', ops) = 0
      BY <1>1, <2>1, AskedOne DEF Asking
    <2>4. Under(ops)' = Under(ops)
      BY <2>1, <2>3 DEF Under
    <2> QED
      BY <1>1, <2>1, <2>2, <2>4 DEF Untouched
  <1> QED
    BY <1>3, <1>4

LEMMA HealthKeeps ==
  ASSUME LinkInv, StartPeriodic \/ CollectHealth, NEW ops
  PROVE  Untouched(ops)
  <1>1. /\ alive /\ doing = <<>> /\ collected = <<>> /\ Len(outbox) <= 2
        /\ UNCHANGED <<inbox, doing, outbox, wanted, state, open, alive>>
        /\ claimed' \in BOOLEAN
    BY DEF StartPeriodic, CollectHealth, Ready, LinkInv, ContractTypeOK
  <1>2. Under(ops)' = Under(ops)
    BY <1>1 DEF Under
  <1>3. CASE StartPeriodic
    <2>1. state \in Collector
      BY DEF LinkInv, ContractTypeOK
    <2>2. PeriodicJob(state) \in Job /\ health' = <<PeriodicJob(state)>> /\ collected' = collected
      BY <1>3, <2>1, Constructors DEF StartPeriodic
    <2>3. LinkInv'
      BY <1>1, <2>2 DEF LinkInv, ContractTypeOK
    <2> QED
      BY <1>1, <1>2, <2>3 DEF Untouched
  <1>4. CASE CollectHealth
    <2>1. collected' = health /\ health' = <<>> /\ Len(outbox) <= 1
      BY <1>4 DEF CollectHealth, Ready
    <2>2. LinkInv'
      BY <1>1, <2>1 DEF LinkInv, ContractTypeOK
    <2> QED
      BY <1>1, <1>2, <2>2 DEF Untouched
  <1> QED
    BY <1>3, <1>4

LEMMA ReportHealthKeeps ==
  ASSUME LinkInv, ReportHealth, NEW ops \in SUBSET Asking
  PROVE  Untouched(ops)
  <1> DEFINE job == Head(collected)
             answer == Answer(StorageHealth(job.ids), state')
  <1>1. /\ collected # <<>> /\ doing = <<>> /\ alive /\ job \in Job
        /\ state \in Collector /\ wanted \in BOOLEAN
        /\ UNCHANGED <<inbox, doing, health, claimed, wanted, open, alive>> /\ collected' = <<>>
    BY Single DEF LinkInv, ContractTypeOK, ReportHealth
  <1>2. state' \in HealthApplied(state, job, wanted) /\ Deliver(answer)
    BY DEF ReportHealth
  <1>3. state' \in Collector
    BY <1>1, <1>2, HealthKept
  <1>4. answer \in Update /\ answer.op = "StorageHealth"
    <2>1. StorageHealth(job.ids) \in Command
      BY <1>1, Constructors DEF Job
    <2> QED
      BY <1>3, <2>1, Constructors DEF Answer, StorageHealth
  <1> HIDE DEF job, answer
  <1>5. /\ outbox' \in Seq(Update) /\ Len(outbox') <= 2
        /\ open => Asked(outbox', ops) = Asked(outbox, ops) + (IF answer.op \in ops THEN 1 ELSE 0)
    BY <1>1, <1>2, <1>4, Delivered
  <1>6. Asked(outbox, ops) \in Nat
    BY UnderNat DEF LinkInv
  <1>7. open => Asked(outbox', ops) = Asked(outbox, ops)
    BY <1>4, <1>5, <1>6 DEF Asking
  <1>8. open => Under(ops)' = Under(ops)
    BY <1>1, <1>7 DEF Under
  <1>9. LinkInv'
    BY <1>1, <1>3, <1>5 DEF LinkInv, ContractTypeOK
  <1> QED
    BY <1>1, <1>8, <1>9 DEF Untouched

(* Whatever the collector does meanwhile.                                  *)
LEMMA WorkerKeeps ==
  ASSUME LinkInv, NEW ops \in SUBSET Asking,
         \/ Take \/ DoRefresh \/ DoSetSensitive \/ DoStorageHealth
         \/ StartPeriodic \/ CollectHealth \/ ReportHealth
  PROVE  Untouched(ops)
  BY TakeKeeps, DoRefreshKeeps, DoSetSensitiveKeeps, DoStorageHealthKeeps, HealthKeeps,
     ReportHealthKeeps

LEMMA StopKeeps ==
  ASSUME LinkInv, Stop
  PROVE  /\ LinkInv' /\ ~alive' /\ open' = open /\ outbox' = outbox
         /\ \A ops : Under(ops)' <= Under(ops) /\ Under(ops)' \in Nat /\ Under(ops) \in Nat
  <1>1. /\ ~alive' /\ inbox' = <<>> /\ doing' = <<>> /\ health' = <<>> /\ collected' = <<>>
        /\ alive' \in BOOLEAN /\ claimed' \in BOOLEAN /\ UNCHANGED <<outbox, wanted, state, open>>
    BY DEF Stop
  <1>2. ContractTypeOK'
    BY <1>1 DEF LinkInv, ContractTypeOK
  <1>3. LinkInv'
    BY <1>1, <1>2 DEF LinkInv
  <1>4. ASSUME NEW ops
        PROVE  Under(ops)' <= Under(ops) /\ Under(ops)' \in Nat /\ Under(ops) \in Nat
    <2>1. /\ Asked(inbox, ops) \in Nat /\ Asked(doing, ops) \in Nat /\ Asked(outbox, ops) \in Nat
          /\ Asked(<<>>, ops) = 0
      BY UnderNat, AskedOne DEF LinkInv
    <2>2. Under(ops)' = Asked(<<>>, ops) + Asked(<<>>, ops) + Asked(outbox, ops)
      BY <1>1 DEF Under
    <2> QED
      BY <2>1, <2>2 DEF Under
  <1> QED
    BY <1>1, <1>3, <1>4

LEMMA CloseKeeps ==
  ASSUME LinkInv, Close
  PROVE  LinkInv' /\ alive' = alive /\ ~open'
  <1>1. /\ ~open' /\ open' \in BOOLEAN /\ outbox' = <<>>
        /\ UNCHANGED <<inbox, doing, health, collected, claimed, wanted, state, alive>>
    BY DEF Close
  <1>2. ContractTypeOK'
    BY <1>1 DEF LinkInv, ContractTypeOK
  <1> QED
    BY <1>1, <1>2 DEF LinkInv

(* A command is accepted: one more of its operation is under way.          *)
LEMMA SubmitKeeps ==
  ASSUME LinkInv, NEW cmd \in Command, Submit(cmd), NEW ops
  PROVE  /\ LinkInv' /\ alive /\ open /\ alive' = alive /\ open' = open /\ outbox' = outbox
         /\ Under(ops)' = Under(ops) + (IF cmd.op \in ops THEN 1 ELSE 0)
  <1>1. /\ alive /\ open /\ inbox = <<>> /\ inbox' = <<cmd>>
        /\ UNCHANGED <<doing, health, collected, outbox, wanted, state, open, alive>>
        /\ claimed' \in BOOLEAN
    BY DEF Submit, Accepts, LinkInv, ContractTypeOK
  <1>2. inbox' \in Seq(Command) /\ Len(inbox') <= 1
    BY <1>1
  <1>3. LinkInv'
    BY <1>1, <1>2 DEF LinkInv, ContractTypeOK
  <1>4. /\ Asked(inbox, ops) = 0 /\ Asked(inbox', ops) = (IF cmd.op \in ops THEN 1 ELSE 0)
        /\ Asked(doing, ops) \in Nat /\ Asked(outbox, ops) \in Nat
    BY <1>1, AskedOne, UnderNat DEF LinkInv
  <1>5. Under(ops)' = Asked(inbox', ops) + Asked(doing, ops) + Asked(outbox, ops)
    BY <1>1 DEF Under
  <1> QED
    BY <1>1, <1>3, <1>4, <1>5 DEF Under

(* An update is received: what it answers is no longer under way.          *)
LEMMA ReceiveKeeps ==
  ASSUME LinkInv, Receive, NEW ops
  PROVE  /\ LinkInv' /\ alive' = alive /\ open' = open /\ open /\ Head(outbox) \in Update
         /\ Under(ops) = Under(ops)' + (IF Head(outbox).op \in ops THEN 1 ELSE 0)
  <1>1. /\ open /\ outbox # <<>> /\ outbox' = Tail(outbox)
        /\ UNCHANGED <<inbox, doing, health, collected, claimed, wanted, state, open, alive>>
        /\ outbox \in Seq(Update) /\ Len(outbox) <= 2
    BY DEF Receive, LinkInv, ContractTypeOK
  <1>2. /\ Head(outbox) \in Update /\ Tail(outbox) \in Seq(Update)
        /\ Len(Tail(outbox)) = Len(outbox) - 1 /\ Len(outbox) \in Nat
    BY <1>1, HeadTailProperties
  <1>3. LinkInv'
    BY <1>1, <1>2 DEF LinkInv, ContractTypeOK
  <1>4. /\ Asked(outbox, ops) = (IF Head(outbox).op \in ops THEN 1 ELSE 0) + Asked(outbox', ops)
        /\ Asked(outbox', ops) \in Nat
    BY <1>1, AskedTail
  <1>5. Asked(inbox, ops) \in Nat /\ Asked(doing, ops) \in Nat
    BY UnderNat DEF LinkInv
  <1>6. Under(ops)' = Asked(inbox, ops) + Asked(doing, ops) + Asked(outbox', ops)
    BY <1>1 DEF Under
  <1> QED
    BY <1>1, <1>2, <1>3, <1>4, <1>5, <1>6 DEF Under

LEMMA LinkStays ==
  ASSUME UNCHANGED contract
  PROVE  /\ LinkInv => LinkInv'
         /\ alive' = alive /\ open' = open /\ outbox' = outbox
         /\ \A ops : Under(ops)' = Under(ops)
  <1>1. /\ inbox' = inbox /\ doing' = doing /\ health' = health /\ collected' = collected
        /\ outbox' = outbox /\ claimed' = claimed /\ wanted' = wanted /\ state' = state
        /\ open' = open /\ alive' = alive
    BY DEF contract
  <1> QED
    BY <1>1 DEF LinkInv, ContractTypeOK, Under

LEMMA LinkStart == ContractInit => LinkInv /\ \A ops : Under(ops) = 0
  <1> SUFFICES ASSUME ContractInit PROVE LinkInv /\ \A ops : Under(ops) = 0
    OBVIOUS
  <1>1. state \in Collector /\ wanted \in BOOLEAN
    BY DEF ContractInit, NewCollectors, Collector
  <1>2. LinkInv
    <2>1. /\ inbox = <<>> /\ doing = <<>> /\ health = <<>> /\ collected = <<>> /\ outbox = <<>>
          /\ claimed \in BOOLEAN /\ open \in BOOLEAN /\ alive \in BOOLEAN /\ alive
      BY DEF ContractInit
    <2>2. ContractTypeOK
      BY <1>1, <2>1 DEF ContractTypeOK
    <2> QED
      BY <2>1, <2>2 DEF LinkInv
  <1>3. \A ops : Asked(<<>>, ops) = 0
    BY AskedOne
  <1> QED
    BY <1>2, <1>3 DEF ContractInit, Under

-----------------------------------------------------------------------------
(* watch *)

(* A sample is waited for exactly while one is owed; nothing else is asked *)
(* for, so that the first answer that is not a health update is it.        *)
WatchInv ==
    /\ LinkInv /\ WatchTypeOK /\ open
    /\ alive => /\ Under({"Refresh"}) = IF watcher = "waiting" THEN 1 ELSE 0
                /\ Under({"SetSensitive"}) = 0

LEMMA WatchIsPaired == WatchInv => WatchPaired
  <1> SUFFICES ASSUME WatchInv PROVE WatchPaired
    OBVIOUS
  <1>1. Owed = Under({"Refresh"})
    BY UnderWay DEF WatchInv, LinkInv
  <1> QED
    BY <1>1 DEF WatchInv, WatchPaired

LEMMA WatchInductive ==
  ASSUME WatchInv, [WatchNext]_watchVars
  PROVE  WatchInv'
  <1> DEFINE R == {"Refresh"}
             S == {"SetSensitive"}
  <1>0. /\ R \in SUBSET Asking /\ S \in SUBSET Asking /\ LinkInv /\ WatchTypeOK
        /\ Under(R) \in Nat /\ Under(S) \in Nat
    BY UnderNat DEF Asking, WatchInv, LinkInv
  <1> HIDE DEF R, S
  <1>7. ASSUME LinkInv', open',
               watcher' \in {"sleeping", "requesting", "waiting", "printing", "failed"},
               printed' \in BOOLEAN,
               alive' => /\ Under(R)' = IF watcher' = "waiting" THEN 1 ELSE 0
                         /\ Under(S)' = 0
        PROVE  WatchInv'
    <2>1. WatchTypeOK'
      BY <1>7 DEF WatchTypeOK, LinkInv
    <2> QED
      BY <1>7, <2>1 DEF WatchInv, R, S
  <1>6. /\ open /\ watcher \in {"sleeping", "requesting", "waiting", "printing", "failed"}
        /\ printed \in BOOLEAN
        /\ alive => /\ Under(R) = IF watcher = "waiting" THEN 1 ELSE 0
                    /\ Under(S) = 0
    BY DEF WatchInv, WatchTypeOK, R, S
  <1>1. CASE WatchRequests
    <2>1. CASE Submit(Refresh(FALSE)) /\ watcher' = "waiting"
      <3>1. Refresh(FALSE) \in Command /\ Refresh(FALSE).op = "Refresh"
        BY Constructors DEF Refresh
      <3>2. /\ LinkInv' /\ alive /\ alive' = alive /\ open' = open
            /\ Under(R)' = Under(R) + (IF Refresh(FALSE).op \in R THEN 1 ELSE 0)
        BY <1>0, <2>1, <3>1, SubmitKeeps
      <3>3. watcher = "requesting" /\ watcher' = "waiting" /\ printed' = FALSE
        BY <1>1, <2>1 DEF WatchRequests, Silent
      <3>4. Under(S)' = Under(S) + (IF Refresh(FALSE).op \in S THEN 1 ELSE 0)
        BY <1>0, <2>1, <3>1, SubmitKeeps
      <3>5. Refresh(FALSE).op \in R /\ Refresh(FALSE).op \notin S
        BY <3>1 DEF R, S
      <3>6. Under(R) = 0 /\ Under(S) = 0
        BY <1>6, <3>2, <3>3
      <3>7. Under(R)' = 1 /\ Under(S)' = 0
        BY <3>2, <3>4, <3>5, <3>6
      <3> QED
        BY <1>6, <1>7, <3>2, <3>3, <3>7
    <2>2. CASE ~alive /\ watcher' = "failed" /\ UNCHANGED contract
      <3>1. LinkInv' /\ alive' = alive /\ open' = open
        BY <1>0, <2>2, LinkStays
      <3>2. watcher' = "failed" /\ printed' = FALSE
        BY <1>1, <2>2 DEF WatchRequests, Silent
      <3> QED
        BY <1>6, <1>7, <2>2, <3>1, <3>2
    <2> QED
      BY <1>1, <2>1, <2>2 DEF WatchRequests
  <1>2. CASE WatchReceives
    <2>1. watcher = "waiting" /\ Receive /\ printed' = FALSE
      BY <1>2 DEF WatchReceives, Silent
    <2>2. /\ LinkInv' /\ alive' = alive /\ open' = open /\ Head(outbox) \in Update
          /\ Under(R) = Under(R)' + (IF Head(outbox).op = "Refresh" THEN 1 ELSE 0)
          /\ Under(S) = Under(S)' + (IF Head(outbox).op = "SetSensitive" THEN 1 ELSE 0)
      BY <1>0, <2>1, ReceiveKeeps DEF R, S
    <2>3. Under(R)' \in Nat /\ Under(S)' \in Nat
      BY <2>2, UnderNat DEF LinkInv
    <2>4. Head(outbox).op \in {"Refresh", "StorageHealth", "SetSensitive"}
      BY <2>2 DEF Update, Operation
    <2>5. watcher' = IF Head(outbox).op # "StorageHealth" THEN "printing" ELSE "waiting"
      BY <1>2 DEF WatchReceives, IsSample
    <2>6. alive => /\ Under(R) = 1 /\ Under(S) = 0
      BY <1>6, <2>1
    <2>7. alive' => /\ Under(R)' = IF watcher' = "waiting" THEN 1 ELSE 0
                    /\ Under(S)' = 0
      BY <2>2, <2>3, <2>4, <2>5, <2>6
    <2> QED
      BY <1>6, <1>7, <2>1, <2>2, <2>5, <2>7
  <1>3. CASE WatchWakes \/ WatchDisconnects \/ WatchPrints
    <2>1. /\ UNCHANGED contract /\ printed' \in BOOLEAN
          /\ watcher' \in {"requesting", "failed", "sleeping"}
          /\ watcher # "waiting" \/ ~alive
      BY <1>3 DEF WatchWakes, WatchDisconnects, WatchPrints, Silent
    <2>2. /\ LinkInv' /\ alive' = alive /\ open' = open
          /\ Under(R)' = Under(R) /\ Under(S)' = Under(S)
      BY <1>0, <2>1, LinkStays
    <2> QED
      BY <1>6, <1>7, <2>1, <2>2
  <1>4. CASE WatchMonitor
    <2>1. watcher' = watcher /\ printed' = printed
      BY <1>4 DEF WatchMonitor
    <2>2. CASE Stop
      <3>1. LinkInv' /\ ~alive' /\ open' = open
        BY <1>0, <2>2, StopKeeps
      <3> QED
        BY <1>6, <1>7, <2>1, <3>1
    <2>3. CASE WatchWorker \/ StartPeriodic \/ CollectHealth
      <3>1. Untouched(R) /\ Untouched(S)
        BY <1>0, <2>3, WorkerKeeps DEF WatchWorker
      <3> QED
        BY <1>6, <1>7, <2>1, <3>1 DEF Untouched
    <2> QED
      BY <1>4, <2>2, <2>3 DEF WatchMonitor
  <1>5. CASE UNCHANGED watchVars
    <2>1. UNCHANGED contract /\ watcher' = watcher /\ printed' = printed
      BY <1>5 DEF watchVars
    <2>2. /\ LinkInv' /\ alive' = alive /\ open' = open
          /\ Under(R)' = Under(R) /\ Under(S)' = Under(S)
      BY <1>0, <2>1, LinkStays
    <2> QED
      BY <1>6, <1>7, <2>1, <2>2
  <1> QED
    BY <1>1, <1>2, <1>3, <1>4, <1>5 DEF WatchNext, Watcher

-----------------------------------------------------------------------------
(* The terminal monitor *)

App == [step : {"receive", "request", "keys", "quitting", "ended"}, paused : BOOLEAN,
        due : BOOLEAN, force : BOOLEAN, refreshInFlight : BOOLEAN, discard : BOOLEAN,
        disconnected : BOOLEAN, quit : BOOLEAN]

(* A sample is waited for while one is owed, except by a monitor that has  *)
(* found the collector gone; one that was under way at a pause is marked   *)
(* as long as it is under way.                                             *)
TuiFlags ==
    /\ open => /\ Under(Asking) <= 1
               /\ Under(Asking) = 1 => app.refreshInFlight \/ app.disconnected
               /\ Under(Asking) = 1 /\ stained => app.discard \/ app.disconnected
    /\ alive /\ open /\ app.refreshInFlight => Under(Asking) = 1
    /\ app.disconnected => ~alive
    /\ counted => ~stained
    /\ replaced => ~app.paused

TuiInv == LinkInv /\ TuiTypeOK /\ TuiFlags

LEMMA TuiTypes ==
  ASSUME TuiTypeOK
  PROVE  /\ app \in App /\ keys \in 0 .. MaxKeys /\ MaxKeys \in Nat
         /\ counted \in BOOLEAN /\ replaced \in BOOLEAN /\ stained \in BOOLEAN
         /\ app.paused \in BOOLEAN /\ app.refreshInFlight \in BOOLEAN /\ app.discard \in BOOLEAN
         /\ app.disconnected \in BOOLEAN /\ app.due \in BOOLEAN /\ app.force \in BOOLEAN
         /\ app.quit \in BOOLEAN
  BY TuiAssumption DEF TuiTypeOK, App, TuiAssumption

LEMMA TuiTyped ==
  ASSUME LinkInv', app' \in App, keys' \in 0 .. MaxKeys, counted' \in BOOLEAN,
         replaced' \in BOOLEAN, stained' \in BOOLEAN
  PROVE  TuiTypeOK'
  BY DEF TuiTypeOK, App, LinkInv

LEMMA TuiIsInFlight == TuiInv => TuiInFlight
  <1> SUFFICES ASSUME TuiInv PROVE TuiInFlight
    OBVIOUS
  <1>1. TuiOpen = Under(Asking) /\ Under(Asking) \in Nat
    BY UnderWay, UnderNat DEF TuiInv, LinkInv
  <1> QED
    BY <1>1 DEF TuiInv, TuiFlags, TuiInFlight

(* Nothing is received, and no flag that these are about is changed.       *)
LEMMA TuiUnmoved ==
  ASSUME TuiInv, UNCHANGED <<contract, stained>>, Quiet, keys' \in 0 .. MaxKeys, app' \in App,
         app'.paused = app.paused, app'.refreshInFlight = app.refreshInFlight,
         app'.discard = app.discard, app'.disconnected = app.disconnected
  PROVE  TuiInv'
  <1>1. /\ LinkInv' /\ alive' = alive /\ open' = open
        /\ Under(Asking)' = Under(Asking)
    BY LinkStays DEF TuiInv
  <1>2. TuiTypeOK'
    BY <1>1, TuiTypes, TuiTyped DEF TuiInv, Quiet
  <1>3. TuiFlags'
    BY <1>1 DEF TuiInv, TuiFlags, Quiet
  <1> QED
    BY <1>1, <1>2, <1>3 DEF TuiInv

LEMMA TuiReceiveKeeps ==
  ASSUME TuiInv, TuiReceive
  PROVE  TuiInv' /\ (replaced' => ~app.paused) /\ (counted' => ~stained)
  <1> DEFINE update == Head(outbox)
             health_ == ForHealth(update)
  <1>1. /\ Receive /\ ~app.disconnected /\ app' = Answered(update)
        /\ replaced' = AppliesUpdate(update)
        /\ counted' = (AppliesUpdate(update) /\ ~ForHealth(update))
        /\ stained' = stained /\ keys' = keys
    BY DEF TuiReceive
  <1>2. /\ LinkInv' /\ alive' = alive /\ open' = open /\ open /\ update \in Update
        /\ Under(Asking) = Under(Asking)' + (IF update.op \in Asking THEN 1 ELSE 0)
    BY <1>1, ReceiveKeeps DEF TuiInv
  <1>3. Under(Asking) \in Nat /\ Under(Asking)' \in Nat
    BY <1>2, UnderNat DEF TuiInv, LinkInv
  <1>4. ForHealth(update) <=> update.op \notin Asking
    BY <1>2 DEF ForHealth, Asking, Update, Operation
  <1> HIDE DEF update
  <1>5. /\ app' \in App /\ app'.paused = app.paused /\ app'.disconnected = app.disconnected
        /\ app'.refreshInFlight <=> app.refreshInFlight /\ update.op \notin Asking
        /\ app'.discard <=> app.discard /\ update.op \notin Asking
    BY <1>1, <1>4, TuiTypes DEF TuiInv, Answered, App
  <1>6. /\ replaced' \in BOOLEAN /\ counted' \in BOOLEAN
        /\ replaced' => ~app.paused
        /\ counted' => ~app.discard /\ update.op \in Asking
    BY <1>1, <1>4 DEF AppliesUpdate
  <1>7. TuiTypeOK'
    BY <1>1, <1>2, <1>5, <1>6, TuiTypes, TuiTyped DEF TuiInv
  <1>8. counted' => ~stained
    BY <1>1, <1>2, <1>3, <1>6 DEF TuiInv, TuiFlags
  <1>9. TuiFlags'
    BY <1>1, <1>2, <1>3, <1>5, <1>6, <1>8 DEF TuiInv, TuiFlags
  <1> QED
    BY <1>2, <1>6, <1>7, <1>8, <1>9 DEF TuiInv

LEMMA TuiReceiveEndsKeeps ==
  ASSUME TuiInv, TuiReceiveEnds
  PROVE  TuiInv'
  <1>1. /\ app' = [app EXCEPT !.step = "request",
                          !.disconnected = @ \/ ~alive,
                          !.refreshInFlight = @ /\ alive]
        /\ Quiet /\ UNCHANGED contract /\ stained' = stained /\ keys' = keys
    BY DEF TuiReceiveEnds
  <1>2. alive \in BOOLEAN
    BY DEF TuiInv, LinkInv, ContractTypeOK
  <1>3. /\ app' \in App /\ app'.paused = app.paused /\ app'.discard = app.discard
        /\ app'.disconnected <=> app.disconnected \/ ~alive
        /\ app'.refreshInFlight <=> app.refreshInFlight /\ alive
    BY <1>1, <1>2, TuiTypes DEF TuiInv, App
  <1>4. /\ LinkInv' /\ alive' = alive /\ open' = open
        /\ Under(Asking)' = Under(Asking)
    BY <1>1, LinkStays DEF TuiInv
  <1>5. TuiTypeOK'
    BY <1>1, <1>3, <1>4, TuiTypes, TuiTyped DEF TuiInv, Quiet
  <1>6. TuiFlags'
    BY <1>1, <1>3, <1>4 DEF TuiInv, TuiFlags, Quiet
  <1> QED
    BY <1>4, <1>5, <1>6 DEF TuiInv

LEMMA TuiRequestKeeps ==
  ASSUME TuiInv, TuiRequest
  PROVE  TuiInv'
  <1>1. /\ ~app.refreshInFlight /\ ~app.disconnected /\ Quiet /\ keys' = keys
        /\ AfterTick \in {"quitting", "keys"}
    BY DEF TuiRequest, MayRequest, AfterTick
  <1>2. /\ app.force \in BOOLEAN /\ app \in App
        /\ Refresh(app.force) \in Command /\ Refresh(app.force).op \in Asking
    BY TuiTypes, Constructors DEF TuiInv, Refresh, Asking
  <1>3. CASE Submit(Refresh(app.force))
             /\ app' = [app EXCEPT !.step = AfterTick, !.refreshInFlight = TRUE, !.discard = FALSE,
                                   !.due = FALSE, !.force = FALSE]
             /\ stained' = FALSE
    <2>1. /\ LinkInv' /\ alive /\ open /\ alive' = alive /\ open' = open
          /\ Under(Asking)' = Under(Asking) + (IF Refresh(app.force).op \in Asking THEN 1 ELSE 0)
      BY <1>2, <1>3, SubmitKeeps DEF TuiInv
    <2>2. Under(Asking) \in Nat
      BY UnderNat DEF TuiInv, LinkInv
    <2>3. Under(Asking) = 0
      BY <1>1, <2>1, <2>2 DEF TuiInv, TuiFlags
    <2>4. Under(Asking)' = 1
      BY <1>2, <2>1, <2>3
    <2>5. /\ app' \in App /\ app'.paused = app.paused /\ app'.disconnected = app.disconnected
          /\ app'.refreshInFlight
      BY <1>1, <1>2, <1>3 DEF App
    <2>6. TuiTypeOK'
      BY <1>1, <1>3, <2>1, <2>5, TuiTypes, TuiTyped DEF TuiInv, Quiet
    <2>7. TuiFlags'
      BY <1>1, <1>3, <2>1, <2>4, <2>5 DEF TuiInv, TuiFlags, Quiet
    <2> QED
      BY <2>1, <2>6, <2>7 DEF TuiInv
  <1>4. CASE UNCHANGED <<contract, stained>> /\ app' = [app EXCEPT !.step = AfterTick, !.due = FALSE]
    <2>1. /\ app' \in App /\ app'.paused = app.paused
          /\ app'.refreshInFlight = app.refreshInFlight
          /\ app'.discard = app.discard /\ app'.disconnected = app.disconnected
      BY <1>1, <1>2, <1>4 DEF App
    <2> QED
      BY <1>1, <1>4, <2>1, TuiUnmoved, TuiTypes DEF TuiInv
  <1>5. CASE ~alive /\ app' = [app EXCEPT !.step = AfterTick, !.disconnected = TRUE]
             /\ UNCHANGED <<contract, stained>>
    <2>1. /\ app' \in App /\ app'.paused = app.paused /\ app'.disconnected
          /\ app'.refreshInFlight = app.refreshInFlight /\ app'.discard = app.discard
      BY <1>1, <1>2, <1>5 DEF App
    <2>2. /\ LinkInv' /\ alive' = alive /\ open' = open
          /\ Under(Asking)' = Under(Asking)
      BY <1>5, LinkStays DEF TuiInv
    <2>3. TuiTypeOK'
      BY <1>1, <1>5, <2>1, <2>2, TuiTypes, TuiTyped DEF TuiInv, Quiet
    <2>4. TuiFlags'
      BY <1>1, <1>5, <2>1, <2>2 DEF TuiInv, TuiFlags, Quiet
    <2> QED
      BY <2>2, <2>3, <2>4 DEF TuiInv
  <1> QED
    BY <1>3, <1>4, <1>5 DEF TuiRequest

LEMMA TogglePauseKeeps ==
  ASSUME TuiInv, TogglePause
  PROVE  TuiInv'
  <1>1. /\ Quiet /\ UNCHANGED contract /\ keys' \in 0 .. MaxKeys
        /\ app' = IF app.paused THEN [app EXCEPT !.paused = FALSE, !.due = TRUE]
                  ELSE [app EXCEPT !.paused = TRUE, !.discard = app.refreshInFlight]
        /\ stained' = (stained \/ (~app.paused /\ TuiOpen > 0))
    BY TuiTypes DEF TuiInv, TogglePause, TuiKey
  <1>2. app \in App /\ stained \in BOOLEAN /\ app.paused \in BOOLEAN
    BY TuiTypes DEF TuiInv
  <1>3. TuiOpen = Under(Asking) /\ Under(Asking) \in Nat
    BY UnderWay, UnderNat DEF TuiInv, LinkInv
  <1>4. /\ LinkInv' /\ alive' = alive /\ open' = open
        /\ Under(Asking)' = Under(Asking)
    BY <1>1, LinkStays DEF TuiInv
  <1>5. CASE app.paused
    <2>1. /\ app' \in App /\ app'.refreshInFlight = app.refreshInFlight
          /\ app'.discard = app.discard /\ app'.disconnected = app.disconnected
      BY <1>1, <1>2, <1>5 DEF App
    <2>2. stained' = stained
      BY <1>1, <1>2, <1>5
    <2>3. TuiTypeOK'
      BY <1>1, <1>2, <1>4, <2>1, <2>2, TuiTyped DEF Quiet
    <2>4. TuiFlags'
      BY <1>1, <1>4, <2>1, <2>2 DEF TuiInv, TuiFlags, Quiet
    <2> QED
      BY <1>4, <2>3, <2>4 DEF TuiInv
  <1>6. CASE ~app.paused
    <2>1. /\ app' \in App /\ app'.refreshInFlight = app.refreshInFlight
          /\ app'.discard = app.refreshInFlight /\ app'.disconnected = app.disconnected
      BY <1>1, <1>2, <1>6 DEF App
    <2>2. stained' \in BOOLEAN
      BY <1>1
    <2>3. TuiTypeOK'
      BY <1>1, <1>2, <1>4, <2>1, <2>2, TuiTyped DEF Quiet
    <2>4. TuiFlags'
      BY <1>1, <1>4, <2>1 DEF TuiInv, TuiFlags, Quiet
    <2> QED
      BY <1>4, <2>3, <2>4 DEF TuiInv
  <1> QED
    BY <1>2, <1>5, <1>6

(* The other steps of the loop, the clock and the keys.                    *)
LEMMA TuiQuietKeeps ==
  ASSUME TuiInv, TuiRequestsNothing \/ TuiDeadline \/ ForceRefresh \/ QuitKey \/ TuiKeysEnd
  PROVE  TuiInv'
  <1>1. /\ app \in App /\ keys \in 0 .. MaxKeys /\ MaxKeys \in Nat
        /\ AfterTick \in {"quitting", "keys"}
    BY TuiTypes DEF TuiInv, AfterTick
  <1>2. /\ Quiet /\ UNCHANGED <<contract, stained>> /\ keys' \in 0 .. MaxKeys
    BY <1>1 DEF TuiRequestsNothing, TuiDeadline, ForceRefresh, QuitKey, TuiKeysEnd, TuiKey
  <1>3. /\ app' \in App /\ app'.paused = app.paused
        /\ app'.refreshInFlight = app.refreshInFlight
        /\ app'.discard = app.discard /\ app'.disconnected = app.disconnected
    BY <1>1 DEF TuiRequestsNothing, TuiDeadline, ForceRefresh, QuitKey, TuiKeysEnd, App
  <1> QED
    BY <1>2, <1>3, TuiUnmoved

LEMMA TuiEndsKeeps ==
  ASSUME TuiInv, TuiEnds
  PROVE  TuiInv'
  <1>1. /\ Close /\ app' = [app EXCEPT !.step = "ended"] /\ Quiet
        /\ stained' = stained /\ keys' = keys
    BY DEF TuiEnds
  <1>2. LinkInv' /\ alive' = alive /\ ~open'
    BY <1>1, CloseKeeps DEF TuiInv
  <1>3. app' \in App /\ app'.disconnected = app.disconnected
    BY <1>1, TuiTypes DEF TuiInv, App
  <1>4. TuiTypeOK'
    BY <1>1, <1>2, <1>3, TuiTypes, TuiTyped DEF TuiInv, Quiet
  <1>5. TuiFlags'
    BY <1>1, <1>2, <1>3 DEF TuiInv, TuiFlags, Quiet
  <1> QED
    BY <1>2, <1>4, <1>5 DEF TuiInv

LEMMA TuiMonitorKeeps ==
  ASSUME TuiInv, TuiMonitor
  PROVE  TuiInv'
  <1>1. app' = app /\ counted' = counted /\ replaced' = replaced /\ stained' = stained /\ keys' = keys
    BY DEF TuiMonitor, tuiLocal
  <1>2. CASE Stop
    <2>1. /\ LinkInv' /\ ~alive' /\ open' = open
          /\ Under(Asking)' <= Under(Asking) /\ Under(Asking)' \in Nat /\ Under(Asking) \in Nat
      BY <1>2, StopKeeps DEF TuiInv
    <2>2. TuiTypeOK'
      BY <1>1, <2>1, TuiTypes, TuiTyped DEF TuiInv
    <2>3. TuiFlags'
      BY <1>1, <2>1 DEF TuiInv, TuiFlags
    <2> QED
      BY <2>1, <2>2, <2>3 DEF TuiInv
  <1>3. CASE TuiWorker \/ CollectHealth \/ StartPeriodic
    <2>1. Untouched(Asking)
      BY <1>3, WorkerKeeps DEF TuiWorker, TuiInv
    <2>2. TuiTypeOK'
      BY <1>1, <2>1, TuiTypes, TuiTyped DEF TuiInv, Untouched
    <2>3. TuiFlags'
      BY <1>1, <2>1 DEF TuiInv, TuiFlags, Untouched
    <2> QED
      BY <2>1, <2>2, <2>3 DEF TuiInv, Untouched
  <1> QED
    BY <1>2, <1>3 DEF TuiMonitor

LEMMA TuiInductive ==
  ASSUME TuiInv, [TuiNext]_tuiVars
  PROVE  TuiInv'
  <1>1. CASE UNCHANGED tuiVars
    <2>1. /\ UNCHANGED contract /\ app' = app /\ counted' = counted /\ replaced' = replaced
          /\ stained' = stained /\ keys' = keys
      BY <1>1 DEF tuiVars, tuiLocal
    <2>2. /\ LinkInv' /\ alive' = alive /\ open' = open
          /\ Under(Asking)' = Under(Asking)
      BY <2>1, LinkStays DEF TuiInv
    <2>3. TuiTypeOK'
      BY <2>1, <2>2, TuiTypes, TuiTyped DEF TuiInv
    <2>4. TuiFlags'
      BY <2>1, <2>2 DEF TuiInv, TuiFlags
    <2> QED
      BY <2>2, <2>3, <2>4 DEF TuiInv
  <1> QED
    BY <1>1, TuiReceiveKeeps, TuiReceiveEndsKeeps, TuiRequestKeeps, TogglePauseKeeps,
       TuiQuietKeeps, TuiEndsKeeps, TuiMonitorKeeps DEF TuiNext, TuiLoop

LEMMA TuiStart == TuiInit => TuiInv
  <1> SUFFICES ASSUME TuiInit PROVE TuiInv
    OBVIOUS
  <1>1. LinkInv /\ Under(Asking) = 0
    BY LinkStart DEF TuiInit
  <1>2. TuiTypeOK
    <2>1. app \in App /\ {counted, replaced, stained} \subseteq BOOLEAN
      BY DEF TuiInit, App
    <2>2. keys \in 0 .. MaxKeys
      BY TuiAssumption DEF TuiInit, TuiAssumption
    <2> QED
      BY <1>1, <2>1, <2>2 DEF TuiTypeOK, App, LinkInv
  <1>3. TuiFlags
    BY <1>1 DEF TuiInit, TuiFlags
  <1> QED
    BY <1>1, <1>2, <1>3 DEF TuiInv

(* While paused the display stays, and no sample of before a pause counts. *)
PauseHolds ==
    /\ replaced' /\ outbox' # outbox => ~app.paused
    /\ counted' /\ outbox' # outbox => ~stained

LEMMA PausedStep ==
  ASSUME TuiInv, [TuiNext]_tuiVars
  PROVE  [PauseHolds]_tuiVars
  <1>1. TuiInv'
    BY TuiInductive
  <1>2. CASE TuiReceive
    BY <1>2, TuiReceiveKeeps DEF PauseHolds
  <1>3. CASE TuiMonitor
    <2>1. app' = app /\ counted' = counted /\ replaced' = replaced /\ stained' = stained
      BY <1>3 DEF TuiMonitor, tuiLocal
    <2> QED
      BY <1>1, <2>1 DEF TuiInv, TuiFlags, PauseHolds
  <1>4. CASE Quiet
    BY <1>4 DEF Quiet, PauseHolds
  <1> QED
    BY <1>2, <1>3, <1>4
       DEF TuiNext, TuiLoop, TuiReceiveEnds, TuiRequest, TuiRequestsNothing, TuiKeysEnd,
           TuiEnds, TuiDeadline, TogglePause, ForceRefresh, QuitKey, TuiKey

(* Whatever the collector and the keys do: while updates are paused the    *)
(* terminal monitor leaves its display alone, and a sample requested       *)
(* before a pause is never counted, also when it arrives after updates     *)
(* have been resumed or between storage-health updates.                    *)
THEOREM PauseIsHeld == TuiSpec => TuiPauseHolds
  <1>1. TuiInv /\ [TuiNext]_tuiVars => TuiInv'
    BY TuiInductive
  <1>2. TuiInv /\ [TuiNext]_tuiVars => [PauseHolds]_tuiVars
    BY PausedStep
  <1> QED
    BY <1>1, <1>2, TuiStart, PTL DEF TuiSpec, TuiPauseHolds, PauseHolds

LEMMA WatchStart == WatchInit => WatchInv
  <1> SUFFICES ASSUME WatchInit PROVE WatchInv
    OBVIOUS
  <1>1. LinkInv /\ Under({"Refresh"}) = 0 /\ Under({"SetSensitive"}) = 0
    BY LinkStart DEF WatchInit
  <1> QED
    BY <1>1 DEF WatchInit, ContractInit, WatchInv, WatchTypeOK, LinkInv

-----------------------------------------------------------------------------
(* All the clients *)

(* Helper commands keep their types.                                       *)
LEMMA HelperTyped ==
  ASSUME HelperTypeOK, HelperInv, HelperInv', [HelperNext]_helperVars
  PROVE  HelperTypeOK'
  <1> DEFINE Caller == [at : {"start", "poll", "discard", "join", "returned"},
                   elevated : BOOLEAN, program : {"none"} \cup SearchPath \cup SystemDirs,
                   polls : 0 .. Timeout, joined : SUBSET Streams,
                   result : {"none", "output", "TimedOut", "InvalidData", "NotFound", "error"}]
  <1>0. helper \in Caller /\ child \in {"none", "running", "ended", "reaped"} /\ Timeout \in Nat
    BY HelperBounds DEF HelperTypeOK
  <1>1. ASSUME helper' \in Caller, child' \in {"none", "running", "ended", "reaped"}
        PROVE  HelperTypeOK'
    BY <1>1 DEF HelperTypeOK, HelperInv, Pipe, ReaderThread
  <1>2. ASSUME NEW result \in {"NotFound", "error", "InvalidData"}, Returns(result)
        PROVE  helper' \in Caller
    BY <1>0, <1>2 DEF Returns
  <1>3. ASSUME NEW present \in SUBSET (SearchPath \cup SystemDirs), StartHelper(present)
        PROVE  HelperTypeOK'
    <2>1. CASE UNCHANGED child /\ \E result \in {"NotFound", "error"} : Returns(result)
      BY <1>0, <1>1, <1>2, <2>1
    <2>2. CASE child' = "running" /\ \E directory \in Searched(helper.elevated) \cap present :
                  helper' = [helper EXCEPT !.at = "poll", !.program = directory]
      BY <1>0, <1>1, <2>2
    <2> QED
      BY <1>3, <2>1, <2>2 DEF StartHelper
  <1>4. CASE PollEnded \/ PollAgain \/ GiveUp("TimedOut") \/ GiveUp("error")
    <2>1. child' \in {"none", "running", "ended", "reaped"}
      BY <1>0, <1>4 DEF PollEnded, PollAgain, GiveUp
    <2>2. helper' \in Caller
      <3>1. CASE PollEnded
        BY <1>0, <3>1 DEF PollEnded
      <3>2. CASE PollAgain
        <4>1. helper.polls + 1 \in 0 .. Timeout
          BY <1>0, <3>2 DEF PollAgain
        <4> QED
          BY <1>0, <3>2, <4>1 DEF PollAgain
      <3>3. CASE GiveUp("TimedOut") \/ GiveUp("error")
        BY <1>0, <3>3 DEF GiveUp
      <3> QED
        BY <1>4, <3>1, <3>2, <3>3
    <2> QED
      BY <1>1, <2>1, <2>2
  <1>5. ASSUME NEW s \in Streams, JoinDiscarding(s) \/ JoinOutput(s)
        PROVE  HelperTypeOK'
    <2>1. child' = child
      BY <1>5 DEF JoinDiscarding, JoinOutput
    <2>2. CASE Returns("InvalidData")
      BY <1>0, <1>1, <1>2, <2>1, <2>2
    <2>3. CASE ~ Returns("InvalidData")
      <3>1. helper.joined \cup {s} \in SUBSET Streams
        BY <1>0
      <3>2. PICK at \in {"returned", helper.at}, result \in {"output", helper.result} :
               helper' = [helper EXCEPT !.joined = @ \cup {s}, !.at = at, !.result = result]
        BY <1>0, <1>5, <2>3 DEF JoinDiscarding, JoinOutput
      <3>3. helper' \in Caller
        BY <1>0, <3>1, <3>2
      <3> QED
        BY <1>0, <1>1, <2>1, <3>3
    <2> QED
      BY <2>2, <2>3
  <1>6. CASE UNCHANGED helper /\ child' \in {child, "ended"}
    BY <1>0, <1>1, <1>6
  <1>7. CASE \/ \E s \in Streams : Writes(s) \/ Reader(s)
             \/ LeavesHolder \/ HolderEnds \/ ChildEnds \/ UNCHANGED helperVars
    BY <1>6, <1>7 DEF Writes, Reader, Reads, ReaderEnds, LeavesHolder, HolderEnds, ChildEnds,
                      helperVars
  <1> QED
    BY <1>3, <1>4, <1>5, <1>7 DEF HelperNext, HelperCaller

(* Each part by its own invariant.  The monitor's side of the two clients  *)
(* of the collector is one, and counts for the one that runs.              *)
ClientsInv ==
    /\ LinkInv /\ TuiTypeOK /\ WatchTypeOK
    /\ part = "tui" => TuiInv
    /\ part = "watch" => WatchInv
    /\ part # "tui" => ~counted /\ ~replaced
    /\ ServeInv /\ SettingsInv /\ LogInv /\ PlasmaInv
    /\ HelperTypeOK /\ HelperInv /\ HelperRecord

LEMMA ClientsStart == ClientsInit => ClientsInv
  <1> SUFFICES ASSUME ClientsInit PROVE ClientsInv
    OBVIOUS
  <1>1. TuiInv /\ WatchInv /\ ServeInv /\ SettingsInv /\ LogInv /\ PlasmaInv
    BY TuiStart, WatchStart, ServeStarts, SettingsStart, LogStart, PlasmaStart DEF ClientsInit
  <1>2. HelperInv /\ HelperRecord /\ HelperInit
    BY HelperStart DEF ClientsInit
  <1>3. HelperTypeOK
    BY <1>2, HelperBounds DEF HelperInit, HelperTypeOK, HelperInv, Pipe, ReaderThread
  <1>4. ~counted /\ ~replaced
    BY DEF ClientsInit, TuiInit
  <1> QED
    BY <1>1, <1>2, <1>3, <1>4 DEF ClientsInv, TuiInv, WatchInv

LEMMA ClientsInductive ==
  ASSUME ClientsInv, [ClientsNext]_clientsVars
  PROVE  ClientsInv'
  <1>0. PICK p : /\ p \notin {"tui", "watch"} => UNCHANGED contract
                 /\ p # "tui" => UNCHANGED tuiLocal
                 /\ p # "watch" => UNCHANGED <<watcher, printed>>
                 /\ p # "serve" => UNCHANGED serveVars
                 /\ p # "log" => UNCHANGED logVars
                 /\ p # "helper" => UNCHANGED helperVars
                 /\ p # "settings" => UNCHANGED settingsVars
                 /\ p # "plasma" => UNCHANGED plasmaVars
                 /\ part' = part
                 /\ p \in {"tui", "watch"} => part = p
                 /\ p # "tui" => counted' = counted /\ replaced' = replaced
                 /\ p = "tui" => TuiNext
                 /\ p = "watch" => WatchNext
                 /\ p = "serve" => ServeNext
                 /\ p = "log" => LogNext
                 /\ p = "helper" => HelperNext
                 /\ p = "settings" => SettingsNext
                 /\ p = "plasma" => PlasmaNext
    <2>1. CASE UNCHANGED clientsVars
      <3>1. /\ UNCHANGED contract /\ UNCHANGED tuiLocal /\ UNCHANGED <<watcher, printed>>
            /\ UNCHANGED serveVars /\ UNCHANGED logVars /\ UNCHANGED helperVars
            /\ UNCHANGED settingsVars /\ UNCHANGED plasmaVars /\ part' = part
        BY <2>1 DEF clientsVars
      <3>2. counted' = counted /\ replaced' = replaced
        BY <3>1 DEF tuiLocal
      <3> WITNESS "none"
      <3> QED
        BY <3>1, <3>2
    <2>2. CASE Elsewhere("tui") /\ TuiNext
      <3> WITNESS "tui"
      <3> QED
        BY <2>2 DEF Elsewhere, tuiLocal
    <2>3. CASE Elsewhere("watch") /\ WatchNext
      <3> WITNESS "watch"
      <3> QED
        BY <2>3 DEF Elsewhere, tuiLocal
    <2>4. CASE Elsewhere("serve") /\ ServeNext
      <3> WITNESS "serve"
      <3> QED
        BY <2>4 DEF Elsewhere, tuiLocal
    <2>5. CASE Elsewhere("log") /\ LogNext
      <3> WITNESS "log"
      <3> QED
        BY <2>5 DEF Elsewhere, tuiLocal
    <2>6. CASE Elsewhere("helper") /\ HelperNext
      <3> WITNESS "helper"
      <3> QED
        BY <2>6 DEF Elsewhere, tuiLocal
    <2>7. CASE Elsewhere("settings") /\ SettingsNext
      <3> WITNESS "settings"
      <3> QED
        BY <2>7 DEF Elsewhere, tuiLocal
    <2>8. CASE Elsewhere("plasma") /\ PlasmaNext
      <3> WITNESS "plasma"
      <3> QED
        BY <2>8 DEF Elsewhere, tuiLocal
    <2> QED
      BY <2>1, <2>2, <2>3, <2>4, <2>5, <2>6, <2>7, <2>8 DEF ClientsNext
  <1>1. ServeInv'
    BY <1>0, ServeInductive DEF ClientsInv
  <1>2. LogInv'
    BY <1>0, LogInductive DEF ClientsInv
  <1>3. SettingsInv'
    BY <1>0, SettingsInductive DEF ClientsInv
  <1>4. PlasmaInv'
    BY <1>0, PlasmaInductive DEF ClientsInv
  <1>5. HelperInv' /\ HelperRecord' /\ HelperTypeOK'
    <2>1. [HelperNext]_helperVars
      BY <1>0
    <2>2. HelperInv' /\ HelperRecord'
      BY <2>1, HelperInductive DEF ClientsInv
    <2> QED
      BY <2>1, <2>2, HelperTyped DEF ClientsInv
  <1>9. part' # "tui" => ~counted' /\ ~replaced'
    BY <1>0 DEF ClientsInv
  <1>6. CASE p = "tui"
    <2>1. TuiInv'
      BY <1>0, <1>6, TuiInductive DEF ClientsInv
    <2>2. WatchTypeOK'
      BY <1>0, <1>6, <2>1 DEF ClientsInv, WatchTypeOK, TuiInv, LinkInv
    <2> QED
      BY <1>0, <1>1, <1>2, <1>3, <1>4, <1>5, <1>6, <1>9, <2>1, <2>2 DEF ClientsInv, TuiInv
  <1>7. CASE p = "watch"
    <2>1. WatchInv'
      BY <1>0, <1>7, WatchInductive DEF ClientsInv
    <2>2. TuiTypeOK'
      <3>1. /\ app' = app /\ counted' = counted /\ replaced' = replaced
            /\ stained' = stained /\ keys' = keys
        BY <1>0, <1>7 DEF tuiLocal
      <3> QED
        BY <2>1, <3>1, TuiTypes, TuiTyped DEF ClientsInv, WatchInv
    <2> QED
      BY <1>0, <1>1, <1>2, <1>3, <1>4, <1>5, <1>7, <1>9, <2>1, <2>2 DEF ClientsInv, WatchInv
  <1>8. CASE p \notin {"tui", "watch"}
    <2>1. UNCHANGED contract /\ UNCHANGED tuiLocal /\ UNCHANGED <<watcher, printed>> /\ part' = part
      BY <1>0, <1>8
    <2>2. part = "tui" => TuiInv'
      BY <2>1, TuiInductive DEF ClientsInv, tuiVars
    <2>3. part = "watch" => WatchInv'
      BY <2>1, WatchInductive DEF ClientsInv, watchVars
    <2>4. LinkInv'
      BY <2>1, LinkStays DEF ClientsInv
    <2>5. WatchTypeOK'
      BY <2>1, <2>4 DEF ClientsInv, WatchTypeOK, LinkInv
    <2>6. TuiTypeOK'
      <3>1. /\ app' = app /\ counted' = counted /\ replaced' = replaced
            /\ stained' = stained /\ keys' = keys
        BY <2>1 DEF tuiLocal
      <3> QED
        BY <2>4, <3>1, TuiTypes, TuiTyped DEF ClientsInv
    <2> QED
      BY <1>1, <1>2, <1>3, <1>4, <1>5, <1>9, <2>1, <2>2, <2>3, <2>4, <2>5, <2>6 DEF ClientsInv
  <1> QED
    BY <1>6, <1>7, <1>8

(* Whichever client runs: the terminal monitor and watch wait for exactly  *)
(* the answers that the collector owes them, and every client's data stay  *)
(* within their bounds and types.                                          *)
THEOREM ClientsAreConsistent == ClientsSpec => []ClientsConsistent
  <1>1. ClientsInv => ClientsConsistent
    <2> SUFFICES ASSUME ClientsInv PROVE ClientsConsistent
      OBVIOUS
    <2>1. /\ part = "tui" => TuiInFlight
          /\ part = "watch" => WatchPaired
      BY TuiIsInFlight, WatchIsPaired DEF ClientsInv
    <2> QED
      BY <2>1 DEF ClientsInv, ClientsConsistent, ServeInv, SettingsInv, LogInv, PlasmaInv
  <1>2. ClientsInv /\ [ClientsNext]_clientsVars => ClientsInv'
    BY ClientsInductive
  <1> QED
    BY <1>1, <1>2, ClientsStart, PTL DEF ClientsSpec

(* What each of the clients promises, whichever of them runs.              *)
THEOREM ClientsKeepPromises ==
  ClientsSpec => /\ TuiPauseHolds /\ ServedInOrder /\ RuleManaged
                 /\ [](HelperOutcome /\ LogComplete /\ SettingsKept)
  <1>1. ClientsInv => HelperOutcome /\ LogComplete /\ SettingsKept /\ RuleAsWanted
    BY OutcomeIsTrue, LogIsWhole, RuleIsAsWanted DEF ClientsInv, SettingsInv, SettingsKept
  <1>2. ClientsInv /\ [ClientsNext]_clientsVars => ClientsInv'
    BY ClientsInductive
  <1>3. ClientsInv /\ [ClientsNext]_clientsVars => [PauseHolds]_tuiVars
    <2> SUFFICES ASSUME ClientsInv, [ClientsNext]_clientsVars PROVE [PauseHolds]_tuiVars
      OBVIOUS
    <2>1. CASE Elsewhere("tui") /\ TuiNext
      BY <2>1, PausedStep DEF ClientsInv, Elsewhere
    <2>2. CASE UNCHANGED clientsVars
      BY <2>2 DEF clientsVars, tuiVars
    <2>3. CASE \E p : p # "tui" /\ Elsewhere(p)
      BY <2>3 DEF Elsewhere, ClientsInv, tuiLocal, PauseHolds
    <2> QED
      BY <2>1, <2>2, <2>3 DEF ClientsNext
  <1>4. ClientsInv /\ [ClientsNext]_clientsVars => [InOrder]_serveVars
    <2>1. [ClientsNext]_clientsVars => [ServeNext]_serveVars
      BY DEF ClientsNext, Elsewhere, clientsVars
    <2> QED
      BY <2>1, ServedStep DEF ClientsInv
  <1>5. ClientsInv /\ [ClientsNext]_clientsVars => [PositionRespected]_plasmaVars
    <2>1. [ClientsNext]_clientsVars => [PlasmaNext]_plasmaVars
      BY DEF ClientsNext, Elsewhere, clientsVars
    <2> QED
      BY <2>1, PlasmaInductive DEF ClientsInv
  <1>6. RuleAsWanted' /\ [PositionRespected]_plasmaVars =>
           [RuleAsWanted' /\ PositionRespected]_plasmaVars
    OBVIOUS
  <1>7. ClientsSpec => []ClientsInv /\ [][ClientsNext]_clientsVars
    BY <1>2, ClientsStart, PTL DEF ClientsSpec
  <1>8. ClientsSpec => TuiPauseHolds
    BY <1>3, <1>7, PTL DEF TuiPauseHolds, PauseHolds
  <1>9. ClientsSpec => ServedInOrder
    BY <1>4, <1>7, PTL DEF ServedInOrder, InOrder
  <1>10. ClientsSpec => RuleManaged
    BY <1>1, <1>5, <1>6, <1>7, PTL DEF RuleManaged
  <1>11. ClientsSpec => [](HelperOutcome /\ LogComplete /\ SettingsKept)
    BY <1>1, <1>7, PTL
  <1> QED
    BY <1>8, <1>9, <1>10, <1>11
=============================================================================
