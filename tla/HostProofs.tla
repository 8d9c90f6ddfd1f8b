----------------------------- MODULE HostProofs -----------------------------
(***************************************************************************)
(* Proofs about the parts around the proxy: the user commands, the log     *)
(* worker, the service's log, the configuration, the wizard and the        *)
(* resolver, each for every number of processes, records, backups, files   *)
(* or callers.                                                             *)
(*                                                                         *)
(* The accounts of the log and the files a rotation leaves are recursive   *)
(* functions over sequences. What they compute is proved by least          *)
(* counterexample, from the well-founded order of the naturals: Total is   *)
(* the last of its partial sums, and k operations of a rotation have a     *)
(* closed form.                                                            *)
(***************************************************************************)
EXTENDS UserFile, Log, ServiceLog, Config, Wizard, Dns, WellFoundedInduction,
        FiniteSetTheorems, TLAPS

-----------------------------------------------------------------------------
(* User commands.                                                          *)

UserEntries == (Users \cup {"config", "torn"}) \X (Commands \cup {0})
Contents == SUBSET UserEntries
UserFiles == [data : Contents, access : {"none", "custom", "service", "private"}, synced : BOOLEAN]
Operations == [kind : {"add", "delete", "save"}, user : Users \cup {"config"}]
Steps == {"start", "lock", "read", "temp", "write", "backup", "replace", "sync", "over"}

\* Edited, as a function of the operation alone.
Make(o, data, c) ==
    CASE o.kind = "add" -> Upsert(data, o.user, c)
      [] o.kind = "delete" -> {e \in data : e[1] # o.user}
      [] o.kind = "save" -> {<<"config", c>>}

\* The access a command leaves the file with: its own, or that of the installation.
Rightful ==
    IF initially # NoFile THEN "custom" ELSE IF target = "managed" THEN "service" ELSE "private"

UserTypes ==
    /\ target \in Targets /\ lock \in Commands \cup {Nobody}
    /\ op \in [Commands -> Operations] /\ at \in [Commands -> Steps]
    /\ existed \in [Commands -> BOOLEAN] /\ text \in [Commands -> Contents]
    /\ temp \in [Commands -> UserFiles]
    /\ result \in [Commands -> {"none", "ok", "absent", "failed"}]
    /\ file \in UserFiles /\ bak \in UserFiles /\ diskFile \in UserFiles /\ diskBak \in UserFiles
    /\ file.synced /\ bak.synced /\ diskFile.synced /\ diskBak.synced
    /\ history \in Seq(Contents) /\ kept \in 1 .. Len(history)

\* The disk and the file, against the history of the file.
Recorded ==
    /\ file.data = history[Len(history)] /\ diskFile.data = history[kept]
    /\ file.data \in versions /\ diskFile.data \in versions
    /\ bak = NoFile \/ bak.data \in versions
    /\ diskBak = NoFile \/ diskBak.data \in versions
    /\ acked \in Nat /\ acked <= kept

\* What a process has in hand.
Prepared ==
    \A c \in Commands :
       /\ target = "config" => op[c].kind = "save"
       /\ at[c] \in {"backup", "replace"} => temp[c].synced /\ temp[c].data = Make(op[c], text[c], c)
       /\ at[c] # "over" => result[c] = "none"

\* A user command works under the lock, on the file as it is.
Locked ==
    target # "config" =>
       \A c \in Commands :
          /\ at[c] \in {"read", "temp", "write", "backup", "replace", "sync"} => lock = c
          /\ at[c] \in {"temp", "write", "backup", "replace"} =>
                text[c] = file.data /\ (existed[c] <=> file # NoFile)
          /\ at[c] \in {"write", "backup", "replace"} =>
                temp[c].access = Rightful /\ (target = "unmanaged" => existed[c])
          /\ at[c] \in {"start", "lock", "read", "temp", "sync"} \/ result[c] = "failed" =>
                temp[c] = NoFile
          /\ target = "inactive" => at[c] \in {"start", "over"}

\* Who may read the file.
Owned(f) ==
    /\ f = NoFile \/ f.access = Rightful
    /\ initially # NoFile => f # NoFile
    /\ target \in {"inactive", "unmanaged"} => (initially = NoFile => f = NoFile)

Rights == target # "config" => Owned(file) /\ Owned(diskFile)

UserInv == UserTypes /\ Recorded /\ Prepared /\ Locked /\ Rights

-----------------------------------------------------------------------------
LEMMA NoFileIs ==
    /\ NoFile \in UserFiles /\ NoFile.data = {} /\ NoFile.access = "none" /\ NoFile.synced
BY DEF NoFile, UserFiles, Contents

LEMMA EditedMakes == ASSUME NEW d, NEW c PROVE Edited(d, c) = Make(op[c], d, c)
BY DEF Edited, Make

LEMMA MakeType ==
    ASSUME NEW o \in Operations, NEW d \in Contents, NEW c \in Commands
    PROVE  Make(o, d, c) \in Contents
<1>1. CASE o.kind = "add"
  <2>1. o.user \in Users \cup {"config"}
    BY DEF Operations
  <2>2. <<o.user, c>> \in UserEntries
    BY <2>1 DEF UserEntries
  <2> QED BY <1>1, <2>2 DEF Make, Upsert, Contents
<1>2. CASE o.kind = "delete"
  BY <1>2 DEF Make, Contents
<1>3. CASE o.kind = "save"
  <2>1. <<"config", c>> \in UserEntries
    BY DEF UserEntries
  <2> QED BY <1>3, <2>1 DEF Make, Contents
<1> QED BY <1>1, <1>2, <1>3 DEF Operations

LEMMA MakeSaves ==
    ASSUME NEW o, NEW d, NEW e, NEW c, o.kind = "save"
    PROVE  Make(o, d, c) = Make(o, e, c)
BY DEF Make

LEMMA ResolveKeeps ==
    ASSUME UserInv, NEW c \in Commands, Resolve(c)
    PROVE  UserInv'
<1>1. UserTypes'
  BY UserAssumption, NoFileIs DEF UserInv, UserTypes, Steps, Resolve, Finish, Goto, Hitch, fsVars, ghostVars
<1>2. Recorded'
  BY UserAssumption, NoFileIs DEF UserInv, Recorded, Resolve, Finish, Goto, Hitch, fsVars, ghostVars
<1>3. Prepared'
  BY UserAssumption, NoFileIs DEF UserInv, Prepared, UserTypes, Resolve, Finish, Goto, Hitch, fsVars, ghostVars
<1>4. Locked'
  BY UserAssumption, NoFileIs DEF UserInv, Locked, Rightful, UserTypes, Resolve, Finish, Goto, Hitch, fsVars, ghostVars
<1>5. Rights'
  BY UserAssumption, NoFileIs DEF UserInv, Rights, Owned, Rightful, Resolve, Finish, Goto, Hitch, fsVars, ghostVars
<1> QED BY <1>1, <1>2, <1>3, <1>4, <1>5 DEF UserInv

LEMMA AcquireLockKeeps ==
    ASSUME UserInv, NEW c \in Commands, AcquireLock(c)
    PROVE  UserInv'
<1>1. UserTypes'
  BY UserAssumption, NoFileIs DEF UserInv, UserTypes, Steps, AcquireLock, Finish, Goto, Hitch, fsVars, ghostVars
<1>2. Recorded'
  BY UserAssumption, NoFileIs DEF UserInv, Recorded, AcquireLock, Finish, Goto, Hitch, fsVars, ghostVars
<1>3. Prepared'
  BY UserAssumption, NoFileIs DEF UserInv, Prepared, UserTypes, AcquireLock, Finish, Goto, Hitch, fsVars, ghostVars
<1>4. Locked'
  BY UserAssumption, NoFileIs DEF UserInv, Locked, Rightful, UserTypes, AcquireLock, Finish, Goto, Hitch, fsVars, ghostVars
<1>5. Rights'
  BY UserAssumption, NoFileIs DEF UserInv, Rights, Owned, Rightful, AcquireLock, Finish, Goto, Hitch, fsVars, ghostVars
<1> QED BY <1>1, <1>2, <1>3, <1>4, <1>5 DEF UserInv

LEMMA ReadListKeeps ==
    ASSUME UserInv, NEW c \in Commands, ReadList(c)
    PROVE  UserInv'
<1>a. file.data \in Contents /\ (file # NoFile) \in BOOLEAN
  BY DEF UserInv, UserTypes, UserFiles
<1>b. /\ existed' \in [Commands -> BOOLEAN] /\ text' \in [Commands -> Contents]
      /\ existed'[c] <=> file # NoFile
      /\ text'[c] = file.data
      /\ \A d \in Commands : d # c => existed'[d] = existed[d] /\ text'[d] = text[d]
  BY <1>a DEF UserInv, UserTypes, ReadList
<1>c. Finish(c, "failed") \/ Finish(c, "absent") \/ Goto(c, "temp")
  BY DEF ReadList
<1>d. at[c] = "read" /\ UNCHANGED <<target, initially, fsVars, op, temp, ghostVars>>
  BY DEF ReadList
<1>e. at \in [Commands -> Steps] /\ lock \in Commands \cup {Nobody}
      /\ result \in [Commands -> {"none", "ok", "absent", "failed"}]
  BY DEF UserInv, UserTypes
<1>1. UserTypes'
  <2>1. at' \in [Commands -> Steps] /\ lock' \in Commands \cup {Nobody}
        /\ result' \in [Commands -> {"none", "ok", "absent", "failed"}]
    BY <1>c, <1>e DEF Finish, Goto, Steps
  <2> QED BY <1>b, <1>d, <2>1 DEF UserInv, UserTypes, fsVars, ghostVars
<1>2. Recorded'
  BY UserAssumption, NoFileIs DEF UserInv, Recorded, ReadList, Finish, Goto, Hitch, fsVars, ghostVars
<1>3. Prepared'
  BY UserAssumption, NoFileIs DEF UserInv, Prepared, UserTypes, ReadList, Finish, Goto, Hitch, fsVars, ghostVars
<1>4. Locked'
  <2>1. CASE Goto(c, "temp")
    BY <1>b, <1>d, <1>e, <2>1 DEF UserInv, Locked, Rightful, Goto, fsVars
  <2>2. CASE Finish(c, "failed") \/ Finish(c, "absent")
    BY <1>b, <1>d, <1>e, <2>2 DEF UserInv, Locked, Rightful, Finish, fsVars
  <2> QED BY <1>c, <2>1, <2>2
<1>5. Rights'
  BY UserAssumption, NoFileIs DEF UserInv, Rights, Owned, Rightful, ReadList, Finish, Goto, Hitch, fsVars, ghostVars
<1> QED BY <1>1, <1>2, <1>3, <1>4, <1>5 DEF UserInv

LEMMA CreateTempKeeps ==
    ASSUME UserInv, NEW c \in Commands, CreateTemp(c)
    PROVE  UserInv'
<1>a. at[c] = "temp" /\ UNCHANGED <<target, initially, fsVars, op, existed, text, ghostVars>>
  BY DEF CreateTemp
<1>b. \/ Finish(c, "failed") /\ temp' = temp
      \/ /\ Goto(c, "write") /\ (target = "unmanaged" => existed[c])
         /\ \E f \in UserFiles : /\ temp' = [temp EXCEPT ![c] = f]
                                 /\ target # "config" => f.access = Rightful
  <2>1. CASE ~existed[c] /\ target = "unmanaged"
    BY <2>1 DEF CreateTemp
  <2>2. CASE ~(~existed[c] /\ target = "unmanaged")
    <3> DEFINE f == [data |-> {}, access |-> Access(c), synced |-> FALSE]
    <3>1. file.access \in {"none", "custom", "service", "private"}
      BY DEF UserInv, UserTypes, UserFiles
    <3>2. Access(c) \in {"none", "custom", "service", "private"}
      BY <3>1 DEF Access
    <3>3. f \in UserFiles /\ f.access = Access(c)
      BY <3>2 DEF UserFiles, Contents
    <3>4. target # "config" => Access(c) = Rightful
      <4> SUFFICES ASSUME target # "config" PROVE Access(c) = Rightful
        OBVIOUS
      <4>1. existed[c] <=> file # NoFile
        BY <1>a DEF UserInv, Locked
      <4>2. Owned(file)
        BY DEF UserInv, Rights
      <4> QED BY <4>1, <4>2 DEF Access, Owned, Rightful
    <3>5. Goto(c, "write") /\ temp' = [temp EXCEPT ![c] = f]
      BY <2>2 DEF CreateTemp
    <3> HIDE DEF f
    <3> QED BY <2>2, <3>3, <3>4, <3>5
  <2> QED BY <2>1, <2>2
<1>e. at \in [Commands -> Steps] /\ lock \in Commands \cup {Nobody} /\ temp \in [Commands -> UserFiles]
      /\ result \in [Commands -> {"none", "ok", "absent", "failed"}]
  BY DEF UserInv, UserTypes
<1>1. UserTypes'
  <2>1. at' \in [Commands -> Steps] /\ lock' \in Commands \cup {Nobody} /\ temp' \in [Commands -> UserFiles]
        /\ result' \in [Commands -> {"none", "ok", "absent", "failed"}]
    BY <1>b, <1>e DEF Finish, Goto, Steps
  <2> QED BY <1>a, <2>1 DEF UserInv, UserTypes, fsVars, ghostVars
<1>2. Recorded'
  BY UserAssumption, NoFileIs DEF UserInv, Recorded, CreateTemp, Finish, Goto, Hitch, fsVars, ghostVars
<1>3. Prepared'
  BY UserAssumption, NoFileIs DEF UserInv, Prepared, UserTypes, CreateTemp, Finish, Goto, Hitch, fsVars, ghostVars
<1>4. Locked'
  <2>1. CASE Finish(c, "failed") /\ temp' = temp
    BY <1>a, <1>e, <2>1 DEF UserInv, Locked, Rightful, Finish, fsVars
  <2>2. ASSUME Goto(c, "write"), target = "unmanaged" => existed[c],
               NEW f \in UserFiles, temp' = [temp EXCEPT ![c] = f],
               target # "config" => f.access = Rightful
        PROVE  Locked'
    <3>1. temp'[c] = f /\ \A d \in Commands : d # c => temp'[d] = temp[d]
      BY <1>e, <2>2
    <3>2. at'[c] = "write" /\ (\A d \in Commands : d # c => at'[d] = at[d]) /\ UNCHANGED <<lock, result>>
      BY <1>e, <2>2 DEF Goto
    <3>3. UNCHANGED <<target, initially, file, existed, text>> /\ Rightful' = Rightful
      BY <1>a DEF fsVars, Rightful
    <3>4. result[c] = "none"
      BY <1>a DEF UserInv, Prepared
    <3>5. SUFFICES ASSUME target # "config", NEW d \in Commands
                   PROVE  /\ at'[d] \in {"read", "temp", "write", "backup", "replace", "sync"} => lock' = d
                          /\ at'[d] \in {"temp", "write", "backup", "replace"} =>
                                text'[d] = file'.data /\ (existed'[d] <=> file' # NoFile)
                          /\ at'[d] \in {"write", "backup", "replace"} =>
                                temp'[d].access = Rightful' /\ (target' = "unmanaged" => existed'[d])
                          /\ at'[d] \in {"start", "lock", "read", "temp", "sync"} \/ result'[d] = "failed" =>
                                temp'[d] = NoFile
                          /\ target' = "inactive" => at'[d] \in {"start", "over"}
      BY <3>3 DEF Locked
    <3>6. CASE d = c
      BY <1>a, <2>2, <3>1, <3>2, <3>3, <3>4, <3>5, <3>6 DEF UserInv, Locked
    <3>7. CASE d # c
      BY <3>1, <3>2, <3>3, <3>5, <3>7 DEF UserInv, Locked
    <3> QED BY <3>6, <3>7
  <2> QED BY <1>b, <2>1, <2>2
<1>5. Rights'
  BY UserAssumption, NoFileIs DEF UserInv, Rights, Owned, Rightful, CreateTemp, Finish, Goto, Hitch, fsVars, ghostVars
<1> QED BY <1>1, <1>2, <1>3, <1>4, <1>5 DEF UserInv

LEMMA WriteTempKeeps ==
    ASSUME UserInv, NEW c \in Commands, WriteTemp(c)
    PROVE  UserInv'
<1>a. at[c] = "write" /\ Goto(c, "backup")
      /\ UNCHANGED <<target, initially, fsVars, op, existed, text, ghostVars>>
  BY DEF WriteTemp
<1>b. \E f \in UserFiles : /\ temp' = [temp EXCEPT ![c] = f] /\ f.access = temp[c].access
                           /\ f.synced /\ f.data = Make(op[c], text[c], c)
  <2>1. temp[c] \in UserFiles /\ op[c] \in Operations /\ text[c] \in Contents
    BY DEF UserInv, UserTypes
  <2>2. PICK m \in Contents : m = Make(op[c], text[c], c)
    BY <2>1, MakeType
  <2>3. temp' = [temp EXCEPT ![c] = [@ EXCEPT !.data = m, !.synced = TRUE]]
    BY <2>2, EditedMakes DEF WriteTemp
  <2> DEFINE f == [temp[c] EXCEPT !.data = m, !.synced = TRUE]
  <2>4. f \in UserFiles /\ f.access = temp[c].access /\ f.synced /\ f.data = m
    BY <2>1 DEF UserFiles
  <2>5. temp' = [temp EXCEPT ![c] = f]
    BY <2>3
  <2> HIDE DEF f
  <2> QED BY <2>2, <2>4, <2>5
<1>c. PICK f \in UserFiles : /\ temp' = [temp EXCEPT ![c] = f] /\ f.access = temp[c].access
                             /\ f.synced /\ f.data = Make(op[c], text[c], c)
  BY <1>b
<1>d. temp \in [Commands -> UserFiles] /\ at \in [Commands -> Steps]
  BY DEF UserInv, UserTypes
<1>e. temp'[c] = f /\ (\A d \in Commands : d # c => temp'[d] = temp[d] /\ at'[d] = at[d])
      /\ at'[c] = "backup" /\ UNCHANGED <<lock, result>>
  BY <1>a, <1>c, <1>d DEF Goto
<1>1. UserTypes'
  <2>1. at' \in [Commands -> Steps] /\ temp' \in [Commands -> UserFiles]
    BY <1>a, <1>c, <1>d DEF Goto, Steps
  <2> QED BY <1>a, <1>e, <2>1 DEF UserInv, UserTypes, fsVars, ghostVars
<1>2. Recorded'
  BY UserAssumption, NoFileIs DEF UserInv, Recorded, WriteTemp, Finish, Goto, Hitch, fsVars, ghostVars
<1>3. Prepared'
  BY <1>a, <1>c, <1>e DEF UserInv, Prepared
<1>4. Locked'
  BY <1>a, <1>c, <1>e DEF UserInv, Locked, Rightful, fsVars, Prepared
<1>5. Rights'
  BY UserAssumption, NoFileIs DEF UserInv, Rights, Owned, Rightful, WriteTemp, Finish, Goto, Hitch, fsVars, ghostVars
<1> QED BY <1>1, <1>2, <1>3, <1>4, <1>5 DEF UserInv

LEMMA BackupKeeps ==
    ASSUME UserInv, NEW c \in Commands, Backup(c)
    PROVE  UserInv'
<1>1. UserTypes'
  <2>1. bak' \in UserFiles /\ bak'.synced
    BY DEF UserInv, UserTypes, Backup, UserFiles
  <2> QED BY <2>1 DEF UserInv, UserTypes, Steps, Backup, Goto, ghostVars
<1>2. Recorded'
  BY UserAssumption, NoFileIs DEF UserInv, Recorded, Backup, Finish, Goto, Hitch, fsVars, ghostVars
<1>3. Prepared'
  BY UserAssumption, NoFileIs DEF UserInv, Prepared, UserTypes, Backup, Finish, Goto, Hitch, fsVars, ghostVars
<1>4. Locked'
  BY UserAssumption, NoFileIs DEF UserInv, Locked, Rightful, UserTypes, Backup, Finish, Goto, Hitch, fsVars, ghostVars
<1>5. Rights'
  BY UserAssumption, NoFileIs DEF UserInv, Rights, Owned, Rightful, Backup, Finish, Goto, Hitch, fsVars, ghostVars
<1> QED BY <1>1, <1>2, <1>3, <1>4, <1>5 DEF UserInv

LEMMA ReplaceKeeps ==
    ASSUME UserInv, NEW c \in Commands, Replace(c)
    PROVE  UserInv'
<1>a. /\ at[c] = "replace" /\ Goto(c, "sync")
      /\ file' = temp[c] /\ temp' = [temp EXCEPT ![c] = NoFile]
      /\ versions' = versions \cup {temp[c].data}
      /\ UNCHANGED <<target, initially, bak, diskFile, diskBak, op, existed, text, kept, acked>>
  BY DEF Replace
<1>b. temp[c] \in UserFiles /\ temp[c].synced /\ temp[c].data = Make(op[c], text[c], c)
  BY <1>a DEF UserInv, UserTypes, Prepared
<1>c. /\ history \in Seq(Contents) /\ kept \in 1 .. Len(history) /\ Len(history) \in Nat
      /\ history[Len(history)] = file.data /\ file.data \in Contents /\ op[c] \in Operations
  BY DEF UserInv, UserTypes, Recorded, UserFiles
<1>d. PICK m \in Contents : m = Make(op[c], file.data, c)
  BY <1>c, MakeType
<1>e. history' = Append(history, m)
  BY <1>c, <1>d, EditedMakes DEF Replace
<1>f. temp[c].data = m
  <2>1. CASE target = "config"
    BY <1>b, <1>d, <2>1, MakeSaves DEF UserInv, Prepared
  <2>2. CASE target # "config"
    BY <1>a, <1>b, <1>d, <2>2 DEF UserInv, Locked
  <2> QED BY <2>1, <2>2
<1>g. /\ history' \in Seq(Contents) /\ Len(history') = Len(history) + 1
      /\ history'[Len(history')] = m /\ history'[kept] = history[kept]
  BY <1>c, <1>e
<1>h. temp \in [Commands -> UserFiles] /\ at \in [Commands -> Steps]
  BY DEF UserInv, UserTypes
<1>i. temp'[c] = NoFile /\ (\A d \in Commands : d # c => temp'[d] = temp[d] /\ at'[d] = at[d])
      /\ at'[c] = "sync" /\ UNCHANGED <<lock, result>>
  BY <1>a, <1>h DEF Goto
<1>1. UserTypes'
  <2>1. at' \in [Commands -> Steps] /\ temp' \in [Commands -> UserFiles]
    BY <1>a, <1>h, NoFileIs DEF Goto, Steps
  <2>2. kept \in 1 .. Len(history')
    BY <1>c, <1>g
  <2> QED BY <1>a, <1>b, <1>g, <1>i, <2>1, <2>2 DEF UserInv, UserTypes
<1>2. Recorded'
  <2>1. file'.data = history'[Len(history')] /\ diskFile'.data = history'[kept']
    BY <1>a, <1>f, <1>g DEF UserInv, Recorded
  <2> QED BY <1>a, <2>1 DEF UserInv, Recorded
<1>3. Prepared'
  BY <1>a, <1>i DEF UserInv, Prepared
<1>4. Locked'
  <2>1. SUFFICES ASSUME target # "config", NEW d \in Commands
                 PROVE  /\ at'[d] \in {"read", "temp", "write", "backup", "replace", "sync"} => lock' = d
                        /\ at'[d] \notin {"temp", "write", "backup", "replace"}
                        /\ at'[d] \in {"start", "lock", "read", "temp", "sync"} \/ result'[d] = "failed" =>
                              temp'[d] = NoFile
                        /\ target' = "inactive" => at'[d] \in {"start", "over"}
    BY <1>a DEF Locked
  <2>2. lock = c
    BY <1>a, <2>1 DEF UserInv, Locked
  <2> QED BY <1>a, <1>i, <2>1, <2>2 DEF UserInv, Locked
<1>5. Rights'
  <2>1. SUFFICES ASSUME target # "config" PROVE Owned(file)' /\ Owned(diskFile)'
    BY <1>a DEF Rights
  <2>2. /\ temp[c].access = Rightful /\ (target = "unmanaged" => file # NoFile)
        /\ target # "inactive" /\ Owned(file) /\ Owned(diskFile)
    BY <1>a, <2>1 DEF UserInv, Locked, Rights
  <2>3. temp[c] # NoFile
    BY <2>2, NoFileIs DEF Rightful
  <2> QED BY <1>a, <2>2, <2>3 DEF Owned, Rightful
<1> QED BY <1>1, <1>2, <1>3, <1>4, <1>5 DEF UserInv

LEMMA SyncParentKeeps ==
    ASSUME UserInv, NEW c \in Commands, SyncParent(c)
    PROVE  UserInv'
<1>1. UserTypes'
  BY UserAssumption, NoFileIs DEF UserInv, UserTypes, Steps, SyncParent, Finish, Goto, Hitch, fsVars, ghostVars
<1>2. Recorded'
  BY UserAssumption, NoFileIs DEF UserInv, Recorded, SyncParent, Finish, Goto, Hitch, fsVars, ghostVars
<1>3. Prepared'
  BY UserAssumption, NoFileIs DEF UserInv, Prepared, UserTypes, SyncParent, Finish, Goto, Hitch, fsVars, ghostVars
<1>4. Locked'
  BY UserAssumption, NoFileIs DEF UserInv, Locked, Rightful, UserTypes, SyncParent, Finish, Goto, Hitch, fsVars, ghostVars
<1>5. Rights'
  BY UserAssumption, NoFileIs DEF UserInv, Rights, Owned, Rightful, SyncParent, Finish, Goto, Hitch, fsVars, ghostVars
<1> QED BY <1>1, <1>2, <1>3, <1>4, <1>5 DEF UserInv

LEMMA StepFailsKeeps ==
    ASSUME UserInv, NEW c \in Commands, StepFails(c)
    PROVE  UserInv'
<1>1. UserTypes'
  BY UserAssumption, NoFileIs DEF UserInv, UserTypes, Steps, StepFails, Finish, Goto, Hitch, fsVars, ghostVars
<1>2. Recorded'
  BY UserAssumption, NoFileIs DEF UserInv, Recorded, StepFails, Finish, Goto, Hitch, fsVars, ghostVars
<1>3. Prepared'
  BY UserAssumption, NoFileIs DEF UserInv, Prepared, UserTypes, StepFails, Finish, Goto, Hitch, fsVars, ghostVars
<1>4. Locked'
  BY UserAssumption, NoFileIs DEF UserInv, Locked, Rightful, UserTypes, StepFails, Finish, Goto, Hitch, fsVars, ghostVars
<1>5. Rights'
  BY UserAssumption, NoFileIs DEF UserInv, Rights, Owned, Rightful, StepFails, Finish, Goto, Hitch, fsVars, ghostVars
<1> QED BY <1>1, <1>2, <1>3, <1>4, <1>5 DEF UserInv

LEMMA SyncFailsKeeps ==
    ASSUME UserInv, NEW c \in Commands, SyncFails(c)
    PROVE  UserInv'
<1>1. UserTypes'
  BY UserAssumption, NoFileIs DEF UserInv, UserTypes, Steps, SyncFails, Finish, Goto, Hitch, fsVars, ghostVars
<1>2. Recorded'
  BY UserAssumption, NoFileIs DEF UserInv, Recorded, SyncFails, Finish, Goto, Hitch, fsVars, ghostVars
<1>3. Prepared'
  BY UserAssumption, NoFileIs DEF UserInv, Prepared, UserTypes, SyncFails, Finish, Goto, Hitch, fsVars, ghostVars
<1>4. Locked'
  BY UserAssumption, NoFileIs DEF UserInv, Locked, Rightful, UserTypes, SyncFails, Finish, Goto, Hitch, fsVars, ghostVars
<1>5. Rights'
  BY UserAssumption, NoFileIs DEF UserInv, Rights, Owned, Rightful, SyncFails, Finish, Goto, Hitch, fsVars, ghostVars
<1> QED BY <1>1, <1>2, <1>3, <1>4, <1>5 DEF UserInv

LEMMA KilledKeeps ==
    ASSUME UserInv, NEW c \in Commands, Killed(c)
    PROVE  UserInv'
<1>1. UserTypes'
  BY UserAssumption, NoFileIs DEF UserInv, UserTypes, Steps, Killed, Finish, Goto, Hitch, fsVars, ghostVars
<1>2. Recorded'
  BY UserAssumption, NoFileIs DEF UserInv, Recorded, Killed, Finish, Goto, Hitch, fsVars, ghostVars
<1>3. Prepared'
  BY UserAssumption, NoFileIs DEF UserInv, Prepared, UserTypes, Killed, Finish, Goto, Hitch, fsVars, ghostVars
<1>4. Locked'
  BY UserAssumption, NoFileIs DEF UserInv, Locked, Rightful, UserTypes, Killed, Finish, Goto, Hitch, fsVars, ghostVars
<1>5. Rights'
  BY UserAssumption, NoFileIs DEF UserInv, Rights, Owned, Rightful, Killed, Finish, Goto, Hitch, fsVars, ghostVars
<1> QED BY <1>1, <1>2, <1>3, <1>4, <1>5 DEF UserInv

LEMMA RemovedKeeps ==
    ASSUME UserInv, Removed
    PROVE  UserInv'
<1>a. /\ target = "config" /\ file' = NoFile /\ history' = Append(history, {}) /\ versions' = versions \cup {{}}
      /\ UNCHANGED <<target, initially, bak, diskFile, diskBak, lock, op, at, existed, text, temp,
                     result, kept, acked>>
  BY DEF Removed
<1>b. history \in Seq(Contents) /\ kept \in 1 .. Len(history) /\ Len(history) \in Nat /\ {} \in Contents
  BY DEF UserInv, UserTypes, Contents
<1>c. /\ history' \in Seq(Contents) /\ Len(history') = Len(history) + 1
      /\ history'[Len(history')] = {} /\ history'[kept] = history[kept]
  BY <1>a, <1>b
<1>1. UserTypes'
  <2>1. kept \in 1 .. Len(history')
    BY <1>b, <1>c
  <2> QED BY <1>a, <1>c, <2>1, NoFileIs DEF UserInv, UserTypes
<1>2. Recorded'
  BY <1>a, <1>c, NoFileIs DEF UserInv, Recorded
<1>3. Prepared'
  BY UserAssumption, NoFileIs DEF UserInv, Prepared, UserTypes, Removed, Finish, Goto, Hitch, fsVars, ghostVars
<1>4. Locked'
  BY UserAssumption, NoFileIs DEF UserInv, Locked, Rightful, UserTypes, Removed, Finish, Goto, Hitch, fsVars, ghostVars
<1>5. Rights'
  BY UserAssumption, NoFileIs DEF UserInv, Rights, Owned, Rightful, Removed, Finish, Goto, Hitch, fsVars, ghostVars
<1> QED BY <1>1, <1>2, <1>3, <1>4, <1>5 DEF UserInv

LEMMA PowerLossKeeps ==
    ASSUME UserInv, PowerLoss
    PROVE  UserInv'
<1>a. /\ at' = [c \in Commands |-> "over"] /\ lock' = Nobody
      /\ diskFile' = file' /\ diskBak' = bak' /\ kept' = Len(history')
      /\ UNCHANGED <<target, initially, op, existed, text, temp, result, acked, versions>>
  BY DEF PowerLoss
<1>b. /\ file.synced /\ bak.synced /\ diskBak.synced /\ history \in Seq(Contents)
      /\ kept \in 1 .. Len(history) /\ Len(history) \in Nat
  BY DEF UserInv, UserTypes
<1>c. \/ file' = file /\ history' = history
      \/ file' = diskFile /\ history' = SubSeq(history, 1, kept)
  BY <1>b DEF PowerLoss, AfterLoss
<1>d. bak' = bak \/ bak' = diskBak
  BY <1>b DEF PowerLoss, AfterLoss
<1>e. /\ history' \in Seq(Contents) /\ Len(history') \in Nat /\ 1 <= Len(history') /\ kept <= Len(history')
      /\ file'.data = history'[Len(history')]
  <2>1. CASE file' = file /\ history' = history
    BY <1>b, <2>1 DEF UserInv, Recorded
  <2>2. CASE file' = diskFile /\ history' = SubSeq(history, 1, kept)
    <3>1. history' \in Seq(Contents) /\ Len(history') = kept /\ history'[kept] = history[kept]
      BY <1>b, <2>2
    <3> QED BY <1>b, <2>2, <3>1 DEF UserInv, Recorded
  <2> QED BY <1>c, <2>1, <2>2
<1>1. UserTypes'
  <2>1. file' \in UserFiles /\ file'.synced /\ bak' \in UserFiles /\ bak'.synced
    BY <1>c, <1>d DEF UserInv, UserTypes
  <2>2. kept' \in 1 .. Len(history')
    BY <1>a, <1>e
  <2>3. at' \in [Commands -> Steps]
    BY <1>a DEF Steps
  <2> QED BY <1>a, <1>e, <2>1, <2>2, <2>3 DEF UserInv, UserTypes
<1>2. Recorded'
  <2>1. file'.data \in versions /\ (bak' = NoFile \/ bak'.data \in versions)
    BY <1>c, <1>d DEF UserInv, Recorded
  <2>2. acked \in Nat /\ acked <= kept
    BY DEF UserInv, Recorded
  <2>3. acked <= kept'
    BY <1>a, <1>b, <1>e, <2>2
  <2> QED BY <1>a, <1>e, <2>1, <2>2, <2>3 DEF Recorded
<1>3. Prepared'
  BY UserAssumption, NoFileIs DEF UserInv, Prepared, UserTypes, PowerLoss, Finish, Goto, Hitch, fsVars, ghostVars
<1>4. Locked'
  BY UserAssumption, NoFileIs DEF UserInv, Locked, Rightful, UserTypes, PowerLoss, Finish, Goto, Hitch, fsVars, ghostVars
<1>5. Rights'
  BY <1>a, <1>c DEF UserInv, Rights, Owned, Rightful
<1> QED BY <1>1, <1>2, <1>3, <1>4, <1>5 DEF UserInv

LEMMA UserStarts == UserInit => UserInv
<1> SUFFICES ASSUME UserInit PROVE UserInv
  OBVIOUS
<1>1. initially \in UserFiles /\ initially.synced /\ (initially = NoFile \/ initially.access = "custom")
  <2>1. (CHOOSE u \in Users : TRUE) \in Users
    BY UserAssumption
  <2>2. Entry("config") \in Contents /\ Entry(CHOOSE u \in Users : TRUE) \in Contents
    BY <2>1 DEF Entry, Contents, UserEntries
  <2>3. CASE initially = NoFile
    BY <2>3, NoFileIs
  <2>4. ASSUME NEW d \in Contents, initially = [data |-> d, access |-> "custom", synced |-> TRUE]
        PROVE  initially \in UserFiles /\ initially.synced /\ initially.access = "custom"
    BY <2>4 DEF UserFiles
  <2> QED BY <2>2, <2>3, <2>4 DEF UserInit
<1>2. initially.data \in Contents
  BY <1>1 DEF UserFiles
<1>3. op \in [Commands -> Operations] /\ (target = "config" => \A c \in Commands : op[c].kind = "save")
  <2>1. CASE target = "config"
    <3> DEFINE o == [kind |-> "save", user |-> "config"]
    <3>1. op \in [Commands -> {o}]
      BY <2>1 DEF UserInit
    <3>2. o \in Operations /\ o.kind = "save"
      BY DEF Operations
    <3> HIDE DEF o
    <3> QED BY <3>1, <3>2
  <2>2. CASE target # "config"
    <3>1. op \in [Commands -> [kind : {"add", "delete"}, user : Users]]
      BY <2>2 DEF UserInit
    <3>2. [kind : {"add", "delete"}, user : Users] \subseteq Operations
      BY DEF Operations
    <3> QED BY <2>2, <3>1, <3>2
  <2> QED BY <2>1, <2>2
<1>4. UserTypes
  <2>1. history \in Seq(Contents) /\ Len(history) = 1 /\ kept \in 1 .. Len(history)
    BY <1>2 DEF UserInit
  <2>2. temp \in [Commands -> UserFiles] /\ text \in [Commands -> Contents]
    BY NoFileIs DEF UserInit, Contents
  <2>3. at \in [Commands -> Steps] /\ existed \in [Commands -> BOOLEAN]
        /\ result \in [Commands -> {"none", "ok", "absent", "failed"}]
    BY DEF UserInit, Steps
  <2> QED BY <1>1, <1>3, <2>1, <2>2, <2>3, NoFileIs DEF UserInit, UserTypes
<1>5. Recorded
  <2>1. history[Len(history)] = initially.data /\ history[kept] = initially.data
    BY DEF UserInit
  <2> QED BY <2>1 DEF UserInit, Recorded
<1>6. Prepared /\ Locked
  BY <1>3 DEF UserInit, Prepared, Locked
<1>7. Rights
  BY <1>1 DEF UserInit, Rights, Owned, Rightful
<1> QED BY <1>4, <1>5, <1>6, <1>7 DEF UserInv

LEMMA UserStutters == UserInv /\ UNCHANGED userVars => UserInv'
BY DEF userVars, fsVars, ghostVars, UserInv, UserTypes, Recorded, Prepared, Locked, Rights, Owned, Rightful

LEMMA UserStep == UserInv /\ [UserNext]_userVars => UserInv'
BY UserStutters, ResolveKeeps, AcquireLockKeeps, ReadListKeeps, CreateTempKeeps, WriteTempKeeps,
   BackupKeeps, ReplaceKeeps, SyncParentKeeps, StepFailsKeeps, SyncFailsKeeps, KilledKeeps,
   RemovedKeeps, PowerLossKeeps
DEF UserNext

(***************************************************************************)
(* Commands that run at once, fail at any step, are killed or lose power:  *)
(* what the disk holds, what each process has in hand and who holds the    *)
(* lock fit together.                                                      *)
(***************************************************************************)
THEOREM UserInvariant == UserSpec => []UserInv
BY UserStarts, UserStep, PTL DEF UserSpec

(***************************************************************************)
(* acquire_userlist_lock, write_userlist_atomically and                    *)
(* write_config_atomically: whatever runs at once, fails, is killed or     *)
(* loses power, edits take effect one after the other, the backup is a     *)
(* content the file once had, what was reported as done survives a power   *)
(* loss, the file keeps its access, and a command that failed leaves no    *)
(* copy of it.                                                             *)
(***************************************************************************)
THEOREM UserlistIsSafe == UserSpec => []UserlistSafe
<1>1. UserInv => UserlistSafe
  <2> SUFFICES ASSUME UserInv PROVE UserlistSafe
    OBVIOUS
  <2>1. target # "config" => Owned(file)
    BY DEF UserInv, Rights
  <2> QED BY <2>1 DEF UserInv, Recorded, Locked, Owned, Rightful, UserlistSafe
<1> QED BY <1>1, UserInvariant, PTL

-----------------------------------------------------------------------------
(* Log worker.                                                             *)

\* Induction over a number is done by its least counterexample.
LEMMA Least ==
    ASSUME NEW T, T \subseteq Nat, T # {}
    PROVE  \E x \in T : \A y \in T : x <= y
<1>1. PICK x \in T : \A y \in T : <<y, x>> \notin OpToRel(<, Nat)
  BY NatLessThanWellFounded, WFMin
<1>2. ASSUME NEW y \in T PROVE ~(y < x)
  BY <1>1 DEF OpToRel
<1>3. x \in T
  BY <1>1
<1>4. \A y \in T : x <= y
  BY <1>2, <1>3
<1> QED BY <1>3, <1>4

\* f lists the partial sums of the first n weights.
Sums(w, n, f) ==
    f \in [0 .. n -> Nat] /\ f[0] = 0 /\ \A i \in 1 .. n : f[i] = f[i - 1] + w[i]

LEMMA SumsExist ==
    ASSUME NEW w \in Seq(Nat), NEW n \in 0 .. Len(w)
    PROVE  \E f : Sums(w, n, f)
<1> DEFINE T == {k \in 0 .. Len(w) : ~\E f : Sums(w, k, f)}
<1> SUFFICES ASSUME T # {} PROVE FALSE
  OBVIOUS
<1>0. T \subseteq Nat
  OBVIOUS
<1>1. PICK k \in T : \A y \in T : k <= y
  <2> HIDE DEF T
  <2> QED BY <1>0, Least
<1>2. k \in 0 .. Len(w) /\ Len(w) \in Nat
  OBVIOUS
<1>3. k # 0
  <2>1. Sums(w, 0, [i \in 0 .. 0 |-> 0])
    BY DEF Sums
  <2> QED BY <2>1
<1>4. k - 1 \in 0 .. Len(w) /\ k - 1 \notin T
  <2>1. k - 1 \in 0 .. Len(w) /\ ~(k <= k - 1)
    BY <1>2, <1>3
  <2> QED BY <1>1, <2>1
<1>5. PICK f : Sums(w, k - 1, f)
  BY <1>4
<1>6. w[k] \in Nat
  BY <1>2, <1>3
<1> DEFINE g == [i \in 0 .. k |-> IF i = k THEN f[k - 1] + w[k] ELSE f[i]]
<1>7. Sums(w, k, g)
  <2>1. k \in Nat \ {0} /\ f \in [0 .. k - 1 -> Nat] /\ f[k - 1] \in Nat
    BY <1>2, <1>3, <1>5 DEF Sums
  <2>2. g \in [0 .. k -> Nat] /\ g[0] = 0
    BY <2>1, <1>5, <1>6 DEF Sums
  <2>3. ASSUME NEW i \in 1 .. k PROVE g[i] = g[i - 1] + w[i]
    <3>1. CASE i = k
      BY <2>1, <3>1
    <3>2. CASE i # k
      <4>1. i \in 1 .. k - 1 /\ g[i] = f[i] /\ g[i - 1] = f[i - 1]
        BY <2>1, <3>2
      <4> QED BY <1>5, <4>1 DEF Sums
    <3> QED BY <3>1, <3>2
  <2> HIDE DEF g
  <2> QED BY <2>2, <2>3 DEF Sums
<1> QED BY <1>7

LEMMA SumsUnique ==
    ASSUME NEW w, NEW n \in Nat, NEW m \in Nat, n <= m, NEW f, NEW g, Sums(w, n, f), Sums(w, m, g)
    PROVE  f[n] = g[n]
<1> DEFINE T == {i \in 0 .. n : i <= m /\ f[i] # g[i]}
<1> SUFFICES ASSUME T # {} PROVE FALSE
  <2>1. n \in 0 .. n /\ n <= m
    OBVIOUS
  <2> QED BY <2>1
<1>0. T \subseteq Nat
  OBVIOUS
<1>1. PICK i \in T : \A y \in T : i <= y
  <2> HIDE DEF T
  <2> QED BY <1>0, Least
<1>2. i # 0
  BY DEF Sums
<1>3. i - 1 \in 0 .. n /\ i - 1 <= m /\ i - 1 \notin T
  BY <1>1, <1>2
<1>4. f[i - 1] = g[i - 1]
  BY <1>3
<1>5. i \in 1 .. n /\ i \in 1 .. m
  BY <1>2
<1> QED BY <1>4, <1>5 DEF Sums

\* The recursive Total is the last partial sum.
LEMMA TotalIs ==
    ASSUME NEW w \in Seq(Nat), NEW f, Sums(w, Len(w), f)
    PROVE  Total(w) = f[Len(w)]
<1> DEFINE n == Len(w)
           Sum == CHOOSE g : g = [i \in 0 .. Len(w) |-> IF i = 0 THEN 0 ELSE g[i - 1] + w[i]]
<1>1. f = [i \in 0 .. n |-> IF i = 0 THEN 0 ELSE f[i - 1] + w[i]]
  BY DEF Sums
<1>2. Sum = [i \in 0 .. n |-> IF i = 0 THEN 0 ELSE Sum[i - 1] + w[i]]
  BY <1>1
<1>3. Total(w) = Sum[n]
  BY DEF Total
<1> HIDE DEF Sum
<1> DEFINE T == {i \in 0 .. n : Sum[i] # f[i]}
<1> SUFFICES ASSUME T # {} PROVE FALSE
  BY <1>3
<1>0. T \subseteq Nat
  OBVIOUS
<1>4. PICK i \in T : \A y \in T : i <= y
  <2> HIDE DEF T
  <2> QED BY <1>0, Least
<1>5. i # 0
  BY <1>2 DEF Sums
<1>6. i - 1 \in 0 .. n /\ i - 1 \notin T
  BY <1>4, <1>5
<1>7. Sum[i - 1] = f[i - 1]
  BY <1>6
<1>8. Sum[i] = Sum[i - 1] + w[i]
  BY <1>2, <1>5
<1>9. f[i] = f[i - 1] + w[i]
  BY <1>1, <1>5
<1> QED BY <1>7, <1>8, <1>9

LEMMA TotalSums ==
    ASSUME NEW w \in Seq(Nat)
    PROVE  \E f : Sums(w, Len(w), f) /\ Total(w) = f[Len(w)]
<1>1. Len(w) \in 0 .. Len(w)
  OBVIOUS
<1>2. PICK f : Sums(w, Len(w), f)
  BY <1>1, SumsExist
<1> QED BY <1>2, TotalIs

LEMMA TotalEmpty == Total(<<>>) = 0
<1>1. PICK f : Sums(<<>>, Len(<<>>), f) /\ Total(<<>>) = f[Len(<<>>)]
  <2>1. <<>> \in Seq(Nat)
    OBVIOUS
  <2> QED BY <2>1, TotalSums
<1> QED BY <1>1 DEF Sums

LEMMA TotalNat == ASSUME NEW w \in Seq(Nat) PROVE Total(w) \in Nat
<1>1. PICK f : Sums(w, Len(w), f) /\ Total(w) = f[Len(w)]
  BY TotalSums
<1>2. Len(w) \in 0 .. Len(w)
  OBVIOUS
<1> QED BY <1>1, <1>2 DEF Sums

LEMMA TotalAppend ==
    ASSUME NEW w \in Seq(Nat), NEW x \in Nat
    PROVE  Total(Append(w, x)) = Total(w) + x
<1> DEFINE v == Append(w, x)
           n == Len(w)
<1>1. v \in Seq(Nat) /\ Len(v) = n + 1 /\ v[n + 1] = x /\ n \in Nat /\ \A i \in 1 .. n : v[i] = w[i]
  OBVIOUS
<1> HIDE DEF v, n
<1>2. PICK f : Sums(w, n, f) /\ Total(w) = f[n]
  BY TotalSums DEF n
<1>3. PICK g : Sums(v, n + 1, g) /\ Total(v) = g[n + 1]
  BY <1>1, TotalSums
<1>4. Sums(v, n, f)
  BY <1>1, <1>2 DEF Sums
<1>5. f[n] = g[n]
  <2>1. n \in Nat /\ n + 1 \in Nat /\ n <= n + 1
    BY <1>1
  <2>2. Sums(v, n + 1, g)
    BY <1>3
  <2> QED BY <1>4, <2>1, <2>2, SumsUnique
<1>6. g[n + 1] = g[n] + x
  BY <1>1, <1>3 DEF Sums
<1> QED BY <1>2, <1>3, <1>5, <1>6 DEF v

LEMMA TotalTail ==
    ASSUME NEW w \in Seq(Nat), w # <<>>
    PROVE  Total(w) = Head(w) + Total(Tail(w))
<1> DEFINE v == Tail(w)
           n == Len(v)
<1>1. /\ v \in Seq(Nat) /\ n \in Nat /\ Len(w) = n + 1 /\ Head(w) = w[1] /\ w[1] \in Nat
      /\ \A i \in 1 .. n : v[i] = w[i + 1]
  OBVIOUS
<1> HIDE DEF v, n
<1>2. PICK f : Sums(v, n, f) /\ Total(v) = f[n]
  BY <1>1, TotalSums DEF n
<1>3. PICK g : Sums(w, n + 1, g) /\ Total(w) = g[n + 1]
  BY <1>1, TotalSums
<1> DEFINE h == [i \in 0 .. n + 1 |-> IF i = 0 THEN 0 ELSE w[1] + f[i - 1]]
<1>4. Sums(w, n + 1, h)
  <2>1. f \in [0 .. n -> Nat] /\ f[0] = 0
    BY <1>2 DEF Sums
  <2>2. h \in [0 .. n + 1 -> Nat] /\ h[0] = 0
    BY <1>1, <2>1
  <2>3. ASSUME NEW i \in 1 .. n + 1 PROVE h[i] = h[i - 1] + w[i]
    <3>1. CASE i = 1
      BY <1>1, <2>1, <3>1
    <3>2. CASE i # 1
      <4>a. /\ i \in 0 .. n + 1 /\ i # 0 /\ i - 1 \in 0 .. n + 1 /\ i - 1 # 0
            /\ i - 1 \in 1 .. n /\ (i - 1) + 1 = i
        BY <1>1, <3>2
      <4>b. h[i] = w[1] + f[i - 1]
        BY <4>a
      <4>c. h[i - 1] = w[1] + f[(i - 1) - 1]
        BY <4>a
      <4>d. v[i - 1] = w[i]
        BY <1>1, <4>a
      <4>1. /\ i - 1 \in 1 .. n /\ h[i] = w[1] + f[i - 1] /\ h[i - 1] = w[1] + f[(i - 1) - 1]
            /\ v[i - 1] = w[i]
        BY <4>a, <4>b, <4>c, <4>d
      <4>2. f[i - 1] = f[(i - 1) - 1] + v[i - 1]
        BY <1>2, <4>1 DEF Sums
      <4>3. f[(i - 1) - 1] \in Nat /\ v[i - 1] \in Nat
        <5>1. i - 1 \in 1 .. n /\ (i - 1) - 1 \in 0 .. n /\ Len(v) = n
          BY <1>1, <4>1 DEF n
        <5>2. v[i - 1] \in Nat
          BY <1>1, <5>1
        <5> QED BY <2>1, <5>1, <5>2
      <4>4. w[1] \in Nat /\ v[i - 1] = w[i]
        BY <1>1, <4>1
      <4>5. h[i] = w[1] + f[i - 1] /\ h[i - 1] = w[1] + f[(i - 1) - 1]
        BY <4>1
      <4> HIDE DEF h
      <4> QED BY <4>2, <4>3, <4>4, <4>5
    <3> QED BY <3>1, <3>2
  <2> HIDE DEF h
  <2> QED BY <2>2, <2>3 DEF Sums
<1>5. g[n + 1] = h[n + 1]
  <2> HIDE DEF h
  <2>1. n + 1 \in Nat /\ n + 1 <= n + 1
    BY <1>1
  <2>2. Sums(w, n + 1, g)
    BY <1>3
  <2> QED BY <1>4, <2>1, <2>2, SumsUnique
<1>6. h[n + 1] = w[1] + f[n]
  BY <1>1
<1> QED BY <1>1, <1>2, <1>3, <1>5, <1>6 DEF v

\* What one line adds to the records, and to the losses announced.
Record(x) == IF x > Flush THEN 1 ELSE 0
Loss(x) == IF x < 0 THEN 0 - x ELSE 0

LEMMA NothingIn == RecordsIn(<<>>) = 0 /\ Announced(<<>>) = 0
<1>1. /\ [i \in 1 .. Len(<<>>) |-> IF <<>>[i] > Flush THEN 1 ELSE 0] = <<>>
      /\ [i \in 1 .. Len(<<>>) |-> IF <<>>[i] < 0 THEN 0 - <<>>[i] ELSE 0] = <<>>
  OBVIOUS
<1> QED BY <1>1, TotalEmpty DEF RecordsIn, Announced

LEMMA CountsNat ==
    ASSUME NEW s \in Seq(Int)
    PROVE  RecordsIn(s) \in Nat /\ Announced(s) \in Nat
<1>1. /\ [i \in 1 .. Len(s) |-> IF s[i] > Flush THEN 1 ELSE 0] \in Seq(Nat)
      /\ [i \in 1 .. Len(s) |-> IF s[i] < 0 THEN 0 - s[i] ELSE 0] \in Seq(Nat)
  BY DEF Flush
<1> QED BY <1>1, TotalNat DEF RecordsIn, Announced

LEMMA CountsAppend ==
    ASSUME NEW s \in Seq(Int), NEW x \in Int
    PROVE  /\ RecordsIn(Append(s, x)) = RecordsIn(s) + Record(x)
           /\ Announced(Append(s, x)) = Announced(s) + Loss(x)
<1> DEFINE r == [i \in 1 .. Len(s) |-> IF s[i] > Flush THEN 1 ELSE 0]
           a == [i \in 1 .. Len(s) |-> IF s[i] < 0 THEN 0 - s[i] ELSE 0]
           t == Append(s, x)
<1>1. r \in Seq(Nat) /\ a \in Seq(Nat) /\ Record(x) \in Nat /\ Loss(x) \in Nat
  BY DEF Flush, Record, Loss
<1>2. /\ t \in Seq(Int) /\ Len(t) = Len(s) + 1 /\ Len(s) \in Nat /\ t[Len(s) + 1] = x
      /\ \A i \in 1 .. Len(s) : t[i] = s[i]
  OBVIOUS
<1>3. [i \in 1 .. Len(t) |-> IF t[i] > Flush THEN 1 ELSE 0] = Append(r, Record(x))
  BY <1>2 DEF Record
<1>4. [i \in 1 .. Len(t) |-> IF t[i] < 0 THEN 0 - t[i] ELSE 0] = Append(a, Loss(x))
  BY <1>2 DEF Loss
<1>5. Total(Append(r, Record(x))) = Total(r) + Record(x)
  <2> HIDE DEF r
  <2> QED BY <1>1, TotalAppend
<1>6. Total(Append(a, Loss(x))) = Total(a) + Loss(x)
  <2> HIDE DEF a
  <2> QED BY <1>1, TotalAppend
<1> QED BY <1>3, <1>4, <1>5, <1>6 DEF RecordsIn, Announced

LEMMA CountsTail ==
    ASSUME NEW s \in Seq(Int), s # <<>>
    PROVE  RecordsIn(s) = Record(Head(s)) + RecordsIn(Tail(s))
<1> DEFINE r == [i \in 1 .. Len(s) |-> IF s[i] > Flush THEN 1 ELSE 0]
           t == Tail(s)
<1>1. r \in Seq(Nat) /\ r # <<>> /\ Head(r) = Record(Head(s))
  BY DEF Flush, Record
<1>2. /\ t \in Seq(Int) /\ Len(t) = Len(s) - 1 /\ Len(s) \in Nat
      /\ \A i \in 1 .. Len(s) - 1 : t[i] = s[i + 1]
  OBVIOUS
<1>3. [i \in 1 .. Len(t) |-> IF t[i] > Flush THEN 1 ELSE 0] = Tail(r)
  BY <1>2
<1>4. Total(r) = Head(r) + Total(Tail(r))
  <2> HIDE DEF r
  <2> QED BY <1>1, TotalTail
<1> QED BY <1>1, <1>3, <1>4 DEF RecordsIn

-----------------------------------------------------------------------------
LogTypes ==
    /\ emitted \in Nat /\ uncounted \in Nat /\ dropped \in Nat /\ reported \in Nat
    /\ total \in Nat /\ owed \in Nat /\ missed \in Nat
    /\ queue \in Seq(Nat) /\ command \in Nat /\ out \in Seq(Int)
    /\ worker \in {"recv", "load", "warn", "act"} /\ guard \in {"held", "waiting", "over"}

\* A record is written, queued, in hand, refused or dropped; the log has announced
\* the drops it has reported, and never more than there were.
Accounts ==
    /\ emitted = RecordsIn(out) + RecordsIn(queue) + InHand + uncounted + dropped
    /\ Announced(out) = reported /\ reported <= dropped
    /\ worker = "warn" => reported < total /\ total <= dropped

\* Only the guard sends a Flush.
HeldGuard ==
    guard = "held" =>
      /\ owed = 0
      /\ \A i \in 1 .. Len(queue) : queue[i] # Flush
      /\ worker # "recv" => command # Flush

\* The drops the guard saw are announced before it is answered, or a line failed.
Owes ==
    /\ owed <= dropped
    /\ guard = "waiting" /\ command = Flush /\ worker = "warn" => owed <= total
    /\ guard = "waiting" /\ command = Flush /\ worker = "act" => owed <= reported \/ missed > 0
    /\ guard = "over" => owed <= reported \/ missed > 0

AccountInv == LogTypes /\ Accounts /\ HeldGuard /\ Owes

LEMMA AccountInit == LogInit(MaxRecords) /\ guard = "held" => AccountInv
<1> SUFFICES ASSUME LogInit(MaxRecords), guard = "held" PROVE AccountInv
  OBVIOUS
<1>1. MaxRecords - MaxRecords = 0 /\ out = <<>>
  BY LogAssumption DEF LogInit
<1>2. LogTypes
  BY <1>1 DEF LogTypes, LogInit, Flush
<1>3. Accounts
  BY <1>1, NothingIn DEF Accounts, LogInit, InHand
<1> QED BY <1>2, <1>3 DEF AccountInv, HeldGuard, Owes, LogInit

LEMMA LineOut ==
    ASSUME NEW x, Delivered(x) PROVE out' = Append(out, x)
BY DEF Delivered
LEMMA LineLost ==
    ASSUME Refused PROVE out' = out
BY DEF Refused

LEMMA EmitAccounts == AccountInv /\ Emit => AccountInv'
<1> SUFFICES ASSUME AccountInv, Emit PROVE AccountInv'
  OBVIOUS
<1> USE DEF AccountInv
<1>0. queue \in Seq(Int) /\ emitted' \in Nat /\ emitted' > 0 /\ RecordsIn(out)' = RecordsIn(out)
      /\ InHand' = InHand /\ InHand \in Nat /\ Announced(out)' = Announced(out)
      /\ out \in Seq(Int)
  BY DEF LogTypes, Emit, InHand
<1>1. CASE Len(queue) < Capacity
  <2>1. queue' = Append(queue, emitted') /\ uncounted' = uncounted /\ emitted' = emitted + 1
    BY <1>1 DEF Emit
  <2>2. RecordsIn(Append(queue, emitted')) = RecordsIn(queue) + 1
    <3>1. emitted' \in Int
      BY <1>0
    <3> QED BY <1>0, <3>1, CountsAppend DEF Record, Flush
  <2>3. RecordsIn(queue) \in Nat /\ RecordsIn(out) \in Nat
    BY <1>0, CountsNat
  <2>4. LogTypes'
    BY <2>1 DEF LogTypes, Emit
  <2>5. Accounts'
    <3>0. RecordsIn(queue)' = RecordsIn(queue) + 1
      BY <2>1, <2>2
    <3>1. emitted' = RecordsIn(out)' + RecordsIn(queue)' + InHand' + uncounted' + dropped'
      BY <1>0, <2>1, <2>3, <3>0 DEF LogTypes, Emit, Accounts
    <3> QED BY <1>0, <3>1 DEF Emit, Accounts
  <2>6. HeldGuard'
    BY <1>0, <2>1 DEF HeldGuard, Emit, LogTypes, Flush
  <2> QED BY <2>4, <2>5, <2>6 DEF Owes, Emit
<1>2. CASE ~(Len(queue) < Capacity)
  <2>1. queue' = queue /\ uncounted' = uncounted + 1 /\ emitted' = emitted + 1
    BY <1>2 DEF Emit
  <2>3. RecordsIn(queue) \in Nat /\ RecordsIn(out) \in Nat
    BY <1>0, CountsNat
  <2>4. LogTypes'
    BY <2>1 DEF LogTypes, Emit
  <2>5. Accounts'
    BY <1>0, <2>1, <2>3 DEF LogTypes, Emit, Accounts
  <2> QED BY <2>1, <2>4, <2>5 DEF Owes, HeldGuard, Emit
<1> QED BY <1>1, <1>2

LEMMA CountDropAccounts == AccountInv /\ CountDrop => AccountInv'
<1> SUFFICES ASSUME AccountInv, CountDrop PROVE AccountInv'
  OBVIOUS
<1> USE DEF AccountInv
<1>0. queue \in Seq(Int) /\ RecordsIn(queue)' = RecordsIn(queue) /\ RecordsIn(out)' = RecordsIn(out)
      /\ InHand' = InHand /\ InHand \in Nat /\ Announced(out)' = Announced(out)
      /\ out \in Seq(Int)
  BY DEF LogTypes, CountDrop, InHand
<1>1. RecordsIn(queue) \in Nat /\ RecordsIn(out) \in Nat
  BY <1>0, CountsNat
<1>2. LogTypes'
  BY DEF LogTypes, CountDrop
<1>3. Accounts'
  BY <1>0, <1>1 DEF LogTypes, CountDrop, Accounts
<1> QED BY <1>2, <1>3 DEF LogTypes, Owes, HeldGuard, CountDrop

LEMMA GuardFlushAccounts == AccountInv /\ GuardFlush => AccountInv'
<1> SUFFICES ASSUME AccountInv, GuardFlush PROVE AccountInv'
  OBVIOUS
<1> USE DEF AccountInv
<1>0. queue \in Seq(Int) /\ RecordsIn(out)' = RecordsIn(out) /\ queue' = Append(queue, Flush)
      /\ InHand' = InHand /\ InHand \in Nat /\ Announced(out)' = Announced(out)
      /\ out \in Seq(Int) /\ Flush \in Int
  BY DEF LogTypes, GuardFlush, InHand, Flush
<1>1. RecordsIn(queue) \in Nat /\ RecordsIn(out) \in Nat
  BY <1>0, CountsNat
<1>2. RecordsIn(queue)' = RecordsIn(queue)
  <2>1. RecordsIn(Append(queue, Flush)) = RecordsIn(queue) + Record(Flush)
    BY <1>0, CountsAppend
  <2> QED BY <1>0, <1>1, <2>1 DEF Record, Flush
<1>3. LogTypes'
  BY DEF LogTypes, GuardFlush, Flush
<1>4. Accounts'
  BY <1>0, <1>1, <1>2 DEF LogTypes, GuardFlush, Accounts
<1>5. Owes'
  BY DEF LogTypes, Owes, HeldGuard, GuardFlush
<1> QED BY <1>3, <1>4, <1>5 DEF HeldGuard, GuardFlush

LEMMA GuardTimeoutAccounts == AccountInv /\ GuardTimeout => AccountInv'
<1> SUFFICES ASSUME AccountInv, GuardTimeout PROVE AccountInv'
  OBVIOUS
<1> USE DEF AccountInv
<1>0. InHand' = InHand
  BY DEF GuardTimeout, InHand
<1>1. LogTypes'
  BY DEF LogTypes, GuardTimeout
<1>2. Accounts'
  BY <1>0 DEF LogTypes, GuardTimeout, Accounts
<1> QED BY <1>1, <1>2 DEF LogTypes, HeldGuard, Owes, GuardTimeout

LEMMA RecvAccounts == AccountInv /\ Recv => AccountInv'
<1> SUFFICES ASSUME AccountInv, Recv PROVE AccountInv'
  OBVIOUS
<1> USE DEF AccountInv
<1>0. /\ queue \in Seq(Int) /\ queue # <<>> /\ command' = Head(queue) /\ queue' = Tail(queue)
      /\ Head(queue) = queue[1] /\ queue[1] \in Nat /\ 1 \in 1 .. Len(queue) /\ out \in Seq(Int)
      /\ Tail(queue) \in Seq(Nat) /\ Tail(queue) \in Seq(Int) /\ RecordsIn(out)' = RecordsIn(out)
      /\ Announced(out)' = Announced(out)
  BY DEF LogTypes, Recv
<1>1. RecordsIn(queue) \in Nat /\ RecordsIn(out) \in Nat /\ RecordsIn(queue)' \in Nat
  BY <1>0, CountsNat
<1>2. RecordsIn(queue) = Record(Head(queue)) + RecordsIn(queue)'
  BY <1>0, CountsTail
<1>3. InHand = 0 /\ InHand' = Record(Head(queue))
  BY <1>0 DEF InHand, Recv, Record, Flush
<1>4. LogTypes'
  BY <1>0 DEF LogTypes, Recv
<1>5. Accounts'
  BY <1>0, <1>1, <1>2, <1>3 DEF LogTypes, Recv, Accounts, Record
<1>6. HeldGuard'
  <2>1. \A i \in 1 .. Len(Tail(queue)) : Tail(queue)[i] = queue[i + 1] /\ i + 1 \in 1 .. Len(queue)
    BY <1>0
  <2> QED BY <1>0, <2>1 DEF HeldGuard, Recv
<1> QED BY <1>4, <1>5, <1>6 DEF Owes, Recv

LEMMA LoadAccounts == AccountInv /\ Load => AccountInv'
<1> SUFFICES ASSUME AccountInv, Load PROVE AccountInv'
  OBVIOUS
<1> USE DEF AccountInv
<1>0. InHand' = InHand
  BY DEF Load, InHand
<1>1. LogTypes'
  BY DEF LogTypes, Load
<1>2. Accounts'
  BY <1>0 DEF LogTypes, Load, Accounts
<1> QED BY <1>1, <1>2 DEF LogTypes, HeldGuard, Owes, Load, Accounts

LEMMA WarnAccounts == AccountInv /\ Warn => AccountInv'
<1> SUFFICES ASSUME AccountInv, Warn PROVE AccountInv'
  OBVIOUS
<1> USE DEF AccountInv
<1>0. InHand' = InHand /\ reported - total \in Int /\ out \in Seq(Int)
      /\ reported < total /\ total <= dropped /\ RecordsIn(queue)' = RecordsIn(queue)
      /\ InHand \in Nat /\ queue \in Seq(Int)
  BY DEF LogTypes, Warn, InHand, Accounts
<1>1. RecordsIn(queue) \in Nat /\ RecordsIn(out) \in Nat
  BY <1>0, CountsNat
<1>2. CASE Delivered(reported - total) /\ reported' = total /\ UNCHANGED missed
  <2>1. out' = Append(out, reported - total)
    BY <1>2, LineOut
  <2>2. RecordsIn(out)' = RecordsIn(out) + Record(reported - total)
        /\ Announced(out)' = Announced(out) + Loss(reported - total)
    BY <1>0, <2>1, CountsAppend
  <2>3. Record(reported - total) = 0 /\ Loss(reported - total) = total - reported
    BY <1>0 DEF Record, Loss, Flush, LogTypes
  <2>4. LogTypes'
    BY <1>0, <1>2, <2>1 DEF LogTypes, Warn
  <2>5. Accounts'
    <3>1. emitted' = RecordsIn(out)' + RecordsIn(queue)' + InHand' + uncounted' + dropped'
      BY <1>0, <1>1, <2>2, <2>3 DEF LogTypes, Warn, Accounts
    <3>2. Announced(out)' = reported'
      BY <1>2, <2>2, <2>3 DEF LogTypes, Accounts
    <3> QED BY <1>0, <1>2, <3>1, <3>2 DEF Warn, Accounts
  <2> QED BY <1>0, <1>2, <2>4, <2>5 DEF LogTypes, HeldGuard, Owes, Warn
<1>3. CASE Refused /\ missed' = missed + 1 /\ UNCHANGED reported
  <2>1. out' = out
    BY <1>3, LineLost
  <2>2. LogTypes'
    BY <1>3, <2>1 DEF LogTypes, Warn
  <2>3. Accounts'
    BY <1>0, <1>3, <2>1 DEF LogTypes, Warn, Accounts
  <2> QED BY <1>3, <2>2, <2>3 DEF LogTypes, HeldGuard, Owes, Warn
<1> QED BY <1>2, <1>3 DEF Warn

LEMMA WriteRecordAccounts == AccountInv /\ WriteRecord => AccountInv'
<1> SUFFICES ASSUME AccountInv, WriteRecord PROVE AccountInv'
  OBVIOUS
<1> USE DEF AccountInv
<1>0. InHand = 1 /\ InHand' = 0 /\ command \in Int /\ out \in Seq(Int) /\ queue \in Seq(Int)
      /\ RecordsIn(queue)' = RecordsIn(queue) /\ command > 0
  BY DEF LogTypes, WriteRecord, InHand, Flush
<1>1. RecordsIn(queue) \in Nat /\ RecordsIn(out) \in Nat /\ Announced(out) \in Nat
  BY <1>0, CountsNat
<1>2. CASE Delivered(command) /\ UNCHANGED dropped
  <2>1. out' = Append(out, command)
    BY <1>2, LineOut
  <2>2. RecordsIn(out)' = RecordsIn(out) + Record(command)
        /\ Announced(out)' = Announced(out) + Loss(command)
    BY <1>0, <2>1, CountsAppend
  <2>3. Record(command) = 1 /\ Loss(command) = 0
    BY <1>0 DEF Record, Loss, Flush
  <2>4. LogTypes'
    BY <1>0, <1>2, <2>1 DEF LogTypes, WriteRecord
  <2>5. Accounts'
    <3>1. emitted' = RecordsIn(out)' + RecordsIn(queue)' + InHand' + uncounted' + dropped'
      BY <1>0, <1>1, <1>2, <2>2, <2>3 DEF LogTypes, WriteRecord, Accounts
    <3>2. Announced(out)' = reported'
      BY <1>1, <2>2, <2>3 DEF LogTypes, Accounts, WriteRecord
    <3> QED BY <1>2, <3>1, <3>2 DEF WriteRecord, Accounts
  <2> QED BY <1>2, <2>4, <2>5 DEF LogTypes, HeldGuard, Owes, WriteRecord
<1>3. CASE Refused /\ dropped' = dropped + 1
  <2>1. out' = out
    BY <1>3, LineLost
  <2>2. LogTypes'
    BY <1>3, <2>1 DEF LogTypes, WriteRecord
  <2>3. Accounts'
    BY <1>0, <1>1, <1>3, <2>1 DEF LogTypes, WriteRecord, Accounts
  <2> QED BY <1>3, <2>2, <2>3 DEF LogTypes, HeldGuard, Owes, WriteRecord
<1> QED BY <1>2, <1>3 DEF WriteRecord

LEMMA AckFlushAccounts == AccountInv /\ AckFlush => AccountInv'
<1> SUFFICES ASSUME AccountInv, AckFlush PROVE AccountInv'
  OBVIOUS
<1> USE DEF AccountInv
<1>0. InHand' = InHand
  BY DEF AckFlush, InHand
<1>1. LogTypes'
  BY DEF LogTypes, AckFlush
<1>2. Accounts'
  BY <1>0 DEF LogTypes, AckFlush, Accounts
<1> QED BY <1>1, <1>2 DEF LogTypes, HeldGuard, Owes, AckFlush

LEMMA IdleAccounts == AccountInv /\ UNCHANGED logVars => AccountInv'
BY DEF AccountInv, LogTypes, Accounts, HeldGuard, Owes, InHand, logVars

-----------------------------------------------------------------------------
\* The files after k operations of shift_backups, in closed form: backups above the
\* gap have moved up by one, the others are where they were.
Shifted(f, k) ==
    IF k = 0 THEN f
    ELSE [j \in 0 .. Keep |-> IF j > Keep - k + 1 THEN f[j - 1]
                              ELSE IF j = Keep - k + 1 THEN <<>> ELSE f[j]]

LEMMA ShiftSteps ==
    ASSUME NEW S, NEW f \in [0 .. Keep -> S], <<>> \in S, NEW k \in Nat, k >= 2, k <= Keep + 1
    PROVE  Shifted(f, k) = rename_if_exists(Shifted(f, k - 1), Keep - k + 1, Keep - k + 2)
<1> DEFINE a == Keep - k + 1
           g == Shifted(f, k - 1)
           h == Shifted(f, k)
<1>0. /\ Keep \in Nat /\ a \in 0 .. Keep /\ a + 1 \in 0 .. Keep /\ a + 1 = Keep - k + 2 /\ k # 0
      /\ k - 1 # 0 /\ Keep - (k - 1) + 1 = a + 1 /\ Keep - k + 1 = a /\ a \in Nat
  BY LogAssumption
<1> HIDE DEF a
<1>1. g = [j \in 0 .. Keep |-> IF j > a + 1 THEN f[j - 1] ELSE IF j = a + 1 THEN <<>> ELSE f[j]]
  BY <1>0 DEF Shifted
<1>2. h = [j \in 0 .. Keep |-> IF j > a THEN f[j - 1] ELSE IF j = a THEN <<>> ELSE f[j]]
  BY <1>0 DEF Shifted
<1>3. rename_if_exists(g, a, a + 1) = IF g[a] = <<>> THEN g ELSE [g EXCEPT ![a + 1] = g[a], ![a] = <<>>]
  BY DEF rename_if_exists
<1> HIDE DEF g, h
<1>4. g[a] = f[a] /\ (a + 1) - 1 = a
  BY <1>0, <1>1
<1>5. CASE f[a] = <<>>
  <2>1. ASSUME NEW j \in 0 .. Keep PROVE h[j] = g[j]
    BY <1>0, <1>1, <1>2, <1>4, <1>5
  <2>2. h = g
    BY <1>1, <1>2, <2>1
  <2> QED BY <1>0, <1>3, <1>4, <1>5, <2>2 DEF g, h
<1>6. CASE f[a] # <<>>
  <2> DEFINE e == [g EXCEPT ![a + 1] = g[a], ![a] = <<>>]
  <2>0. DOMAIN g = 0 .. Keep /\ a # a + 1
    BY <1>0, <1>1
  <2>1. ASSUME NEW j \in 0 .. Keep PROVE h[j] = e[j]
    <3>1. CASE j = a + 1
      <4>1. h[j] = f[a]
        BY <1>0, <1>2, <1>4, <3>1
      <4> QED BY <1>4, <2>0, <3>1, <4>1
    <3>2. CASE j = a
      <4>1. h[j] = <<>>
        BY <1>0, <1>2, <3>2
      <4> QED BY <2>0, <3>2, <4>1
    <3>3. CASE j # a /\ j # a + 1
      <4>1. h[j] = g[j]
        BY <1>0, <1>1, <1>2, <3>3
      <4> QED BY <2>0, <3>3, <4>1
    <3> QED BY <3>1, <3>2, <3>3
  <2>2. h = e
    <3>1. h = [j \in 0 .. Keep |-> h[j]]
      BY <1>2
    <3>2. e = [j \in 0 .. Keep |-> e[j]]
      BY <2>0
    <3> HIDE DEF e
    <3> QED BY <2>1, <3>1, <3>2
  <2> QED BY <1>0, <1>3, <1>4, <1>6, <2>2 DEF g, h
<1> QED BY <1>5, <1>6

\* What the recursive AfterOps computes, for every number of backups.
LEMMA RotationShifts ==
    ASSUME files \in [0 .. Keep -> Seq(Int)]
    PROVE  \A k \in 0 .. Keep + 1 : AfterOps[k] = Shifted(files, k)
<1> DEFINE n == Keep + 1
           A == CHOOSE g : g = [k \in 0 .. n |->
                  IF k = 0 THEN files
                  ELSE IF k = 1 THEN [files EXCEPT ![Keep] = <<>>]
                  ELSE rename_if_exists(g[k - 1], Keep - k + 1, Keep - k + 2)]
           B == [k \in 0 .. n |-> Shifted(files, k)]
<1>0. n \in Nat /\ Keep \in Nat
  BY LogAssumption
<1>1. AfterOps = A
  BY DEF AfterOps
<1>2. ASSUME NEW k \in 0 .. n
      PROVE  Shifted(files, k) = IF k = 0 THEN files
                    ELSE IF k = 1 THEN [files EXCEPT ![Keep] = <<>>]
                    ELSE rename_if_exists(B[k - 1], Keep - k + 1, Keep - k + 2)
  <2>1. CASE k = 0
    BY <2>1 DEF Shifted
  <2>2. CASE k = 1
    <3> DEFINE h == Shifted(files, 1)
               e == [files EXCEPT ![Keep] = <<>>]
    <3>0. h = [j \in 0 .. Keep |-> IF j > Keep THEN files[j - 1]
                                    ELSE IF j = Keep THEN <<>> ELSE files[j]]
      <4>1. Keep - 1 + 1 = Keep
        BY <1>0
      <4> QED BY <4>1 DEF Shifted
    <3>2. \A j \in 0 .. Keep : h[j] = e[j]
      <4> HIDE DEF h
      <4> QED BY <1>0, <3>0
    <3>3. h = [j \in 0 .. Keep |-> h[j]] /\ e = [j \in 0 .. Keep |-> e[j]]
      <4> HIDE DEF h
      <4> QED BY <3>0
    <3>1. h = e
      <4> HIDE DEF h, e
      <4> QED BY <3>2, <3>3
    <3> QED BY <2>2, <3>1
  <2>3. CASE k # 0 /\ k # 1
    <3>1. k \in Nat /\ k >= 2 /\ k <= Keep + 1 /\ <<>> \in Seq(Int) /\ k - 1 \in 0 .. n
      BY <1>0, <2>3
    <3>2. Shifted(files, k) = rename_if_exists(Shifted(files, k - 1), Keep - k + 1, Keep - k + 2)
      BY <3>1, ShiftSteps
    <3> QED BY <2>3, <3>1, <3>2
  <2> QED BY <2>1, <2>2, <2>3
<1>3. B = [k \in 0 .. n |-> IF k = 0 THEN files
                            ELSE IF k = 1 THEN [files EXCEPT ![Keep] = <<>>]
                            ELSE rename_if_exists(B[k - 1], Keep - k + 1, Keep - k + 2)]
  BY <1>2
<1>4. A = [k \in 0 .. n |-> IF k = 0 THEN files
                            ELSE IF k = 1 THEN [files EXCEPT ![Keep] = <<>>]
                            ELSE rename_if_exists(A[k - 1], Keep - k + 1, Keep - k + 2)]
  <2> HIDE DEF B
  <2> QED BY <1>3
<1> HIDE DEF A
<1> DEFINE T == {k \in 0 .. n : A[k] # B[k]}
<1> SUFFICES ASSUME T # {} PROVE FALSE
  BY <1>1
<1>5. T \subseteq Nat
  OBVIOUS
<1>6. PICK k \in T : \A y \in T : k <= y
  <2> HIDE DEF T
  <2> QED BY <1>5, Least
<1> HIDE DEF B
<1>7. k \in 0 .. n /\ k # 0
  BY <1>3, <1>4
<1>8. k - 1 \in 0 .. n /\ k - 1 \notin T
  <2>1. k - 1 \in 0 .. n /\ ~(k <= k - 1)
    BY <1>0, <1>7
  <2> QED BY <1>6, <2>1
<1>9. A[k - 1] = B[k - 1]
  BY <1>8
<1>10. A[k] # B[k]
  BY <1>6
<1>11. A[k] = IF k = 1 THEN [files EXCEPT ![Keep] = <<>>]
              ELSE rename_if_exists(A[k - 1], Keep - k + 1, Keep - k + 2)
  BY <1>4, <1>7
<1>12. B[k] = IF k = 1 THEN [files EXCEPT ![Keep] = <<>>]
              ELSE rename_if_exists(B[k - 1], Keep - k + 1, Keep - k + 2)
  BY <1>3, <1>7
<1> QED BY <1>9, <1>10, <1>11, <1>12

-----------------------------------------------------------------------------
LEMMA Slice ==
    ASSUME NEW s \in Seq(Int), NEW x \in Nat, NEW y \in Nat, x <= y, y <= Len(s)
    PROVE  /\ SubSeq(s, x + 1, y) \in Seq(Int) /\ Len(SubSeq(s, x + 1, y)) = y - x
           /\ \A i \in 1 .. y - x : SubSeq(s, x + 1, y)[i] = s[x + i]
           /\ SubSeq(s, x + 1, y) = [i \in 1 .. y - x |-> s[x + i]]
<1> DEFINE t == SubSeq(s, x + 1, y)
<1>1. t \in Seq(Int) /\ Len(t) = y - x
  OBVIOUS
<1>2. ASSUME NEW i \in 1 .. y - x PROVE t[i] = s[x + i]
  <2>1. x + 1 + i - 1 = x + i
    OBVIOUS
  <2> QED BY <2>1
<1>3. t = [i \in 1 .. y - x |-> t[i]]
  <2> HIDE DEF t
  <2> QED BY <1>1
<1> HIDE DEF t
<1>4. t = [i \in 1 .. y - x |-> s[x + i]]
  BY <1>2, <1>3
<1> QED BY <1>1, <1>2, <1>4 DEF t

LEMMA SliceEmpty ==
    ASSUME NEW s \in Seq(Int), NEW x \in Nat, x <= Len(s)
    PROVE  SubSeq(s, x + 1, x) = <<>>
OBVIOUS

LEMMA JoinLater ==
    ASSUME NEW a \in Seq(Int), NEW b \in Seq(Int), NEW i \in 1 .. Len(a) + Len(b), i > Len(a)
    PROVE  (a \o b)[i] = b[i - Len(a)]
<1>1. Len(a) \in Nat /\ Len(b) \in Nat
  OBVIOUS
<1> QED BY <1>1

LEMMA SliceJoin ==
    ASSUME NEW s \in Seq(Int), NEW x \in Nat, NEW y \in Nat, NEW z \in Nat,
           x <= y, y <= z, z <= Len(s)
    PROVE  SubSeq(s, x + 1, y) \o SubSeq(s, y + 1, z) = SubSeq(s, x + 1, z)
<1> DEFINE a == SubSeq(s, x + 1, y)
           b == SubSeq(s, y + 1, z)
           c == SubSeq(s, x + 1, z)
<1>0. y <= Len(s) /\ x <= z /\ Len(s) \in Nat
  OBVIOUS
<1>1. a \in Seq(Int) /\ Len(a) = y - x /\ \A i \in 1 .. y - x : a[i] = s[x + i]
  BY <1>0, Slice
<1>2. b \in Seq(Int) /\ Len(b) = z - y /\ \A i \in 1 .. z - y : b[i] = s[y + i]
  BY <1>0, Slice
<1>3. c \in Seq(Int) /\ Len(c) = z - x /\ \A i \in 1 .. z - x : c[i] = s[x + i]
  BY <1>0, Slice
<1> HIDE DEF a, b, c
<1>4. a \o b \in Seq(Int) /\ Len(a \o b) = z - x
  <2>1. a \o b \in Seq(Int) /\ Len(a \o b) = Len(a) + Len(b)
    <3>1. a \in Seq(Int) /\ b \in Seq(Int)
      BY <1>1, <1>2
    <3> QED BY <3>1
  <2> QED BY <1>1, <1>2, <2>1
<1>5. ASSUME NEW i \in 1 .. z - x PROVE (a \o b)[i] = c[i]
  <2>1. CASE i <= y - x
    <3>1. i \in 1 .. y - x /\ i \in 1 .. Len(a)
      BY <1>1, <2>1
    <3>2. (a \o b)[i] = a[i]
      BY <1>1, <1>2, <3>1
    <3> QED BY <1>1, <1>3, <3>1, <3>2
  <2>2. CASE ~(i <= y - x)
    <3>1. i - (y - x) \in 1 .. z - y /\ y + (i - (y - x)) = x + i
      BY <2>2
    <3>2. (a \o b)[i] = b[i - (y - x)]
      <4>1. /\ i \in 1 .. Len(a) + Len(b) /\ i > Len(a) /\ Len(a) = y - x
            /\ Len(a) \in Nat /\ Len(b) \in Nat
        BY <1>1, <1>2, <2>2
      <4>2. (a \o b)[i] = b[i - Len(a)]
        <5>1. a \in Seq(Int) /\ b \in Seq(Int)
          BY <1>1, <1>2
        <5> QED BY <4>1, <5>1, JoinLater
      <4> QED BY <4>1, <4>2
    <3> QED BY <1>2, <1>3, <3>1, <3>2
  <2> QED BY <2>1, <2>2
<1>6. a \o b = c
  <2> DEFINE d == a \o b
  <2>1. d = [i \in 1 .. z - x |-> d[i]] /\ c = [i \in 1 .. z - x |-> c[i]]
    <3>1. d \in Seq(Int) /\ Len(d) = z - x /\ c \in Seq(Int) /\ Len(c) = z - x
      BY <1>3, <1>4
    <3> HIDE DEF d
    <3> QED BY <3>1
  <2>2. \A i \in 1 .. z - x : d[i] = c[i]
    BY <1>5
  <2> HIDE DEF d
  <2>3. d = c
    BY <2>1, <2>2
  <2> QED BY <2>3 DEF d
<1> QED BY <1>6 DEF a, b, c

LEMMA SliceOld ==
    ASSUME NEW s \in Seq(Int), NEW v \in Int, NEW x \in Nat, NEW y \in Nat, x <= y, y <= Len(s)
    PROVE  SubSeq(Append(s, v), x + 1, y) = SubSeq(s, x + 1, y)
<1>1. Append(s, v) \in Seq(Int) /\ y <= Len(Append(s, v)) /\ \A i \in 1 .. Len(s) : Append(s, v)[i] = s[i]
  OBVIOUS
<1>2. SubSeq(Append(s, v), x + 1, y) = [i \in 1 .. y - x |-> Append(s, v)[x + i]]
  BY <1>1, Slice
<1>3. SubSeq(s, x + 1, y) = [i \in 1 .. y - x |-> s[x + i]]
  BY Slice
<1>4. \A i \in 1 .. y - x : x + i \in 1 .. Len(s)
  OBVIOUS
<1> QED BY <1>1, <1>2, <1>3, <1>4

LEMMA SliceNew ==
    ASSUME NEW s \in Seq(Int), NEW v \in Int, NEW x \in Nat, x <= Len(s)
    PROVE  SubSeq(Append(s, v), x + 1, Len(s) + 1) = Append(SubSeq(s, x + 1, Len(s)), v)
<1> DEFINE n == Len(s)
           a == SubSeq(s, x + 1, n)
           t == Append(s, v)
           b == SubSeq(t, x + 1, n + 1)
<1>1. t \in Seq(Int) /\ n + 1 <= Len(t) /\ t[n + 1] = v /\ n \in Nat /\ \A i \in 1 .. n : t[i] = s[i]
  OBVIOUS
<1>2. a \in Seq(Int) /\ Len(a) = n - x /\ \A i \in 1 .. n - x : a[i] = s[x + i]
  BY <1>1, Slice
<1> HIDE DEF t, n
<1>3. b \in Seq(Int) /\ Len(b) = n + 1 - x /\ \A i \in 1 .. n + 1 - x : b[i] = t[x + i]
  <2>1. n + 1 \in Nat /\ x <= n + 1
    BY <1>1 DEF n
  <2> QED BY <1>1, <2>1, Slice
<1> HIDE DEF a, b
<1>4. Append(a, v) \in Seq(Int) /\ Len(Append(a, v)) = n + 1 - x
  <2>1. Append(a, v) \in Seq(Int) /\ Len(Append(a, v)) = Len(a) + 1
    BY <1>2
  <2> QED BY <1>1, <1>2, <2>1
<1>5. ASSUME NEW i \in 1 .. n + 1 - x PROVE Append(a, v)[i] = b[i]
  <2>1. CASE i = n + 1 - x
    <3>1. i = Len(a) + 1 /\ x + i = n + 1
      BY <1>1, <1>2, <2>1
    <3>2. Append(a, v)[i] = v
      BY <1>2, <3>1
    <3> QED BY <1>1, <1>3, <3>1, <3>2
  <2>2. CASE i # n + 1 - x
    <3>1. i \in 1 .. n - x /\ x + i \in 1 .. n
      BY <1>1, <2>2
    <3>2. Append(a, v)[i] = a[i]
      BY <1>2, <3>1
    <3> QED BY <1>1, <1>2, <1>3, <3>1, <3>2
  <2> QED BY <2>1, <2>2
<1>6. Append(a, v) = b
  BY <1>3, <1>4, <1>5
<1> QED BY <1>6 DEF a, b, t, n

-----------------------------------------------------------------------------
\* File i holds lines c[i + 1] + 1 to c[i] of what was accepted: the newest ones
\* are in file 0, and what is no longer kept ends at c[Keep + 1].
Cut(c, f, a) ==
    /\ c \in [0 .. Keep + 1 -> Nat] /\ c[0] = Len(a)
    /\ \A i, j \in 0 .. Keep + 1 : i <= j => c[j] <= c[i]
    /\ \A i \in 0 .. Keep : f[i] = SubSeq(a, c[i + 1] + 1, c[i])

\* While nothing fails, no file is empty before a later one and nothing is forgotten
\* before every backup is in use.
Full(c, f, n) ==
    /\ n > 0 => f[0] # <<>>
    /\ \A i, j \in 0 .. Keep : j <= i /\ f[i] # <<>> => f[j] # <<>>
    /\ c[Keep + 1] > 0 => \A i \in 1 .. Keep : f[i] # <<>>

FileTypes ==
    /\ files \in [0 .. Keep -> Seq(Int)] /\ accepted \in Seq(Int)
    /\ len \in Nat /\ faults \in Nat

FileInv ==
    /\ FileTypes
    /\ \E c : Cut(c, files, accepted) /\ (faults = 0 => Full(c, files, len))

LEMMA ShiftedType ==
    ASSUME NEW f \in [0 .. Keep -> Seq(Int)], NEW k \in 0 .. Keep + 1
    PROVE  Shifted(f, k) \in [0 .. Keep -> Seq(Int)]
<1>0. Keep \in Nat
  BY LogAssumption
<1>1. CASE k = 0
  BY <1>1 DEF Shifted
<1>2. CASE k # 0
  <2>1. ASSUME NEW j \in 0 .. Keep, j > Keep - k + 1 PROVE f[j - 1] \in Seq(Int)
    <3>1. j - 1 \in 0 .. Keep
      BY <1>0, <2>1
    <3> QED BY <3>1
  <2>2. \A j \in 0 .. Keep : f[j] \in Seq(Int) /\ <<>> \in Seq(Int)
    OBVIOUS
  <2>3. Shifted(f, k) = [j \in 0 .. Keep |-> IF j > Keep - k + 1 THEN f[j - 1]
                              ELSE IF j = Keep - k + 1 THEN <<>> ELSE f[j]]
    BY <1>2 DEF Shifted
  <2> QED BY <2>1, <2>2, <2>3
<1> QED BY <1>1, <1>2

ShiftCut(c, k) == [j \in 0 .. Keep + 1 |-> IF j >= Keep - k + 2 THEN c[j - 1] ELSE c[j]]

LEMMA CutFacts ==
    ASSUME NEW c, NEW f, NEW a \in Seq(Int), Cut(c, f, a), NEW i \in 0 .. Keep
    PROVE  /\ c[i] \in Nat /\ c[i + 1] \in Nat /\ c[i + 1] <= c[i] /\ c[i] <= Len(a)
           /\ c[Keep + 1] \in Nat /\ c[Keep + 1] <= c[i] /\ c[Keep + 1] <= c[i + 1]
<1>1. Keep \in Nat /\ i \in Nat
  BY LogAssumption
<1>2. i \in 0 .. Keep + 1 /\ i + 1 \in 0 .. Keep + 1 /\ Keep + 1 \in 0 .. Keep + 1 /\ 0 \in 0 .. Keep + 1
  BY <1>1
<1>3. c \in [0 .. Keep + 1 -> Nat] /\ c[0] = Len(a)
  BY DEF Cut
<1>4. \A p, q \in 0 .. Keep + 1 : p <= q => c[q] <= c[p]
  BY DEF Cut
<1>5. i <= i + 1 /\ 0 <= i /\ i <= Keep + 1 /\ i + 1 <= Keep + 1
  BY <1>1
<1> QED BY <1>2, <1>3, <1>4, <1>5

LEMMA CutShift ==
    ASSUME NEW c, NEW f \in [0 .. Keep -> Seq(Int)], NEW a \in Seq(Int), Cut(c, f, a),
           NEW k \in Nat, k # 0, k <= Keep + 1
    PROVE  Cut(ShiftCut(c, k), Shifted(f, k), a)
<1> DEFINE d == ShiftCut(c, k)
           g == Shifted(f, k)
           b == Keep - k + 1
<1>0. Keep \in Nat /\ b \in 0 .. Keep /\ b + 1 = Keep - k + 2 /\ b \in Nat
  BY LogAssumption
<1>1. g = [j \in 0 .. Keep |-> IF j > b THEN f[j - 1] ELSE IF j = b THEN <<>> ELSE f[j]]
  BY DEF Shifted
<1>2. d = [j \in 0 .. Keep + 1 |-> IF j >= b + 1 THEN c[j - 1] ELSE c[j]]
  BY <1>0 DEF ShiftCut
<1>3. c \in [0 .. Keep + 1 -> Nat] /\ c[0] = Len(a)
  BY DEF Cut
<1>4. \A p, q \in 0 .. Keep + 1 : p <= q => c[q] <= c[p]
  BY DEF Cut
<1>5. \A i \in 0 .. Keep : f[i] = SubSeq(a, c[i + 1] + 1, c[i])
  BY DEF Cut
<1> HIDE DEF d, g, b
<1>6. d \in [0 .. Keep + 1 -> Nat]
  <2>1. ASSUME NEW j \in 0 .. Keep + 1 PROVE (IF j >= b + 1 THEN c[j - 1] ELSE c[j]) \in Nat
    <3>1. j >= b + 1 => j - 1 \in 0 .. Keep + 1
      BY <1>0
    <3> QED BY <1>3, <3>1
  <2> QED BY <1>2, <2>1
<1>7. d[0] = Len(a)
  <2>1. 0 \in 0 .. Keep + 1 /\ ~(0 >= b + 1)
    BY <1>0
  <2> QED BY <1>2, <1>3, <2>1
<1>8. ASSUME NEW p \in 0 .. Keep + 1, NEW q \in 0 .. Keep + 1, p <= q PROVE d[q] <= d[p]
  <2> DEFINE u == IF p >= b + 1 THEN p - 1 ELSE p
             v == IF q >= b + 1 THEN q - 1 ELSE q
  <2>1. u \in 0 .. Keep + 1 /\ v \in 0 .. Keep + 1 /\ u <= v
    BY <1>0, <1>8
  <2>2. d[p] = c[u] /\ d[q] = c[v]
    BY <1>2
  <2> HIDE DEF u, v
  <2> QED BY <1>4, <2>1, <2>2
<1>9. ASSUME NEW i \in 0 .. Keep PROVE g[i] = SubSeq(a, d[i + 1] + 1, d[i])
  <2>0. i \in 0 .. Keep + 1 /\ i + 1 \in 0 .. Keep + 1 /\ (i + 1) - 1 = i /\ i \in Nat
    BY <1>0
  <2>1. CASE i > b
    <3>1. i - 1 \in 0 .. Keep /\ (i - 1) + 1 = i /\ i >= b + 1 /\ i + 1 >= b + 1
      BY <1>0, <2>0, <2>1
    <3>2. d[i + 1] = c[i] /\ d[i] = c[i - 1] /\ g[i] = f[i - 1]
      BY <1>1, <1>2, <2>0, <2>1, <3>1
    <3>3. f[i - 1] = SubSeq(a, c[(i - 1) + 1] + 1, c[i - 1])
      BY <1>5, <3>1
    <3> QED BY <3>1, <3>2, <3>3
  <2>2. CASE i = b
    <3>1. ~(i >= b + 1) /\ i + 1 >= b + 1 /\ ~(i > b)
      BY <1>0, <2>0, <2>2
    <3>2. d[i + 1] = c[i] /\ d[i] = c[i] /\ g[i] = <<>>
      BY <1>1, <1>2, <2>0, <2>2, <3>1
    <3>3. c[i] \in Nat /\ c[i] <= Len(a)
      BY CutFacts
    <3>4. SubSeq(a, c[i] + 1, c[i]) = <<>>
      BY <3>3, SliceEmpty
    <3> QED BY <3>2, <3>4
  <2>3. CASE i < b
    <3>1. ~(i >= b + 1) /\ ~(i + 1 >= b + 1) /\ ~(i > b) /\ i # b
      BY <1>0, <2>0, <2>3
    <3>2. d[i + 1] = c[i + 1] /\ d[i] = c[i] /\ g[i] = f[i]
      BY <1>1, <1>2, <2>0, <3>1
    <3> QED BY <1>5, <3>2
  <2> QED BY <1>0, <2>0, <2>1, <2>2, <2>3
<1>10. Cut(d, g, a)
  BY <1>6, <1>7, <1>8, <1>9 DEF Cut
<1> QED BY <1>10 DEF d, g

LEMMA CutAppend ==
    ASSUME NEW c, NEW f \in [0 .. Keep -> Seq(Int)], NEW a \in Seq(Int), Cut(c, f, a), NEW v \in Int
    PROVE  Cut([c EXCEPT ![0] = Len(a) + 1], [f EXCEPT ![0] = Append(f[0], v)], Append(a, v))
<1> DEFINE d == [c EXCEPT ![0] = Len(a) + 1]
           g == [f EXCEPT ![0] = Append(f[0], v)]
           t == Append(a, v)
<1>0. Keep \in Nat /\ Len(t) = Len(a) + 1 /\ Len(a) \in Nat /\ 0 \in 0 .. Keep /\ 0 \in 0 .. Keep + 1
  BY LogAssumption
<1>1. c \in [0 .. Keep + 1 -> Nat] /\ c[0] = Len(a)
  BY DEF Cut
<1>2. \A p, q \in 0 .. Keep + 1 : p <= q => c[q] <= c[p]
  BY DEF Cut
<1>3. \A i \in 0 .. Keep : f[i] = SubSeq(a, c[i + 1] + 1, c[i])
  BY DEF Cut
<1>4. d \in [0 .. Keep + 1 -> Nat] /\ d[0] = Len(t) /\ \A j \in 0 .. Keep + 1 : j # 0 => d[j] = c[j]
  BY <1>0, <1>1
<1>5. g[0] = Append(f[0], v) /\ \A j \in 0 .. Keep : j # 0 => g[j] = f[j]
  BY <1>0
<1> HIDE DEF d, g
<1>6. ASSUME NEW p \in 0 .. Keep + 1, NEW q \in 0 .. Keep + 1, p <= q PROVE d[q] <= d[p]
  <2>0. d[p] \in Nat /\ c[p] \in Nat /\ c[q] \in Nat /\ c[q] <= c[p] /\ c[0] \in Nat /\ c[q] <= c[0]
    <3>1. 0 <= q
      OBVIOUS
    <3> QED BY <1>0, <1>1, <1>2, <1>4, <1>6, <3>1
  <2>1. CASE p = 0
    <3>1. CASE q = 0
      BY <2>0, <2>1, <3>1
    <3>2. CASE q # 0
      <4>1. d[q] = c[q] /\ d[p] = Len(a) + 1
        BY <1>0, <1>4, <2>1, <3>2
      <4> QED BY <1>0, <1>1, <2>0, <4>1
    <3> QED BY <3>1, <3>2
  <2>2. CASE p # 0
    <3>1. q # 0
      BY <1>6, <2>2
    <3> QED BY <1>4, <2>0, <2>2, <3>1
  <2> QED BY <2>1, <2>2
<1>7. ASSUME NEW i \in 0 .. Keep PROVE g[i] = SubSeq(t, d[i + 1] + 1, d[i])
  <2>1. /\ c[i] \in Nat /\ c[i + 1] \in Nat /\ c[i + 1] <= c[i] /\ c[i] <= Len(a)
        /\ i + 1 \in 0 .. Keep + 1 /\ i + 1 # 0 /\ i \in 0 .. Keep + 1
    <3>1. c[i] \in Nat /\ c[i + 1] \in Nat /\ c[i + 1] <= c[i] /\ c[i] <= Len(a)
      BY CutFacts
    <3> QED BY <1>0, <3>1
  <2>2. d[i + 1] = c[i + 1]
    BY <1>4, <2>1
  <2>3. CASE i = 0
    <3>0. c[0] = Len(a) /\ c[0 + 1] \in Nat /\ c[0 + 1] <= Len(a)
      BY <1>1, <2>1, <2>3
    <3>1. SubSeq(t, c[0 + 1] + 1, Len(a) + 1) = Append(SubSeq(a, c[0 + 1] + 1, Len(a)), v)
      BY <3>0, SliceNew
    <3>2. f[0] = SubSeq(a, c[0 + 1] + 1, Len(a))
      BY <1>0, <1>3, <3>0
    <3>3. d[i] = Len(a) + 1 /\ g[i] = Append(f[0], v) /\ d[i + 1] = c[0 + 1]
      BY <1>0, <1>4, <1>5, <2>2, <2>3
    <3> QED BY <3>1, <3>2, <3>3
  <2>4. CASE i # 0
    <3>1. d[i] = c[i] /\ g[i] = f[i]
      BY <1>4, <1>5, <2>1, <2>4
    <3>2. SubSeq(t, c[i + 1] + 1, c[i]) = SubSeq(a, c[i + 1] + 1, c[i])
      BY <2>1, SliceOld
    <3> QED BY <1>3, <2>2, <3>1, <3>2
  <2> QED BY <2>3, <2>4
<1> HIDE DEF t
<1>8. Cut(d, g, t)
  BY <1>4, <1>6, <1>7 DEF Cut
<1> QED BY <1>8 DEF d, g, t

LEMMA RotateFull ==
    ASSUME NEW c, NEW f \in [0 .. Keep -> Seq(Int)], NEW a \in Seq(Int), Cut(c, f, a),
           NEW n \in Nat, n > 0, Full(c, f, n), NEW v \in Int, NEW m
    PROVE  Full([ShiftCut(c, Keep + 1) EXCEPT ![0] = Len(a) + 1],
                [Shifted(f, Keep + 1) EXCEPT ![0] = Append(Shifted(f, Keep + 1)[0], v)], m)
<1> DEFINE s == Shifted(f, Keep + 1)
           d == ShiftCut(c, Keep + 1)
           g == [s EXCEPT ![0] = Append(s[0], v)]
           e == [d EXCEPT ![0] = Len(a) + 1]
<1>0. /\ Keep \in Nat /\ Keep + 1 # 0 /\ Keep - (Keep + 1) + 1 = 0 /\ Keep - (Keep + 1) + 2 = 1
      /\ 0 \in 0 .. Keep /\ Keep + 1 \in 0 .. Keep + 1 /\ Keep + 1 >= 1 /\ (Keep + 1) - 1 = Keep
  <2>1. Keep \in Nat
    BY LogAssumption
  <2>2. Keep + 1 # 0 /\ Keep - (Keep + 1) + 1 = 0 /\ Keep - (Keep + 1) + 2 = 1
    BY <2>1
  <2>3. 0 \in 0 .. Keep /\ Keep + 1 \in 0 .. Keep + 1 /\ Keep + 1 >= 1 /\ (Keep + 1) - 1 = Keep
    BY <2>1
  <2> QED BY <2>1, <2>2, <2>3
<1>1. s = [j \in 0 .. Keep |-> IF j > 0 THEN f[j - 1] ELSE IF j = 0 THEN <<>> ELSE f[j]]
  BY <1>0 DEF Shifted
<1>2. d = [j \in 0 .. Keep + 1 |-> IF j >= 1 THEN c[j - 1] ELSE c[j]]
  BY <1>0 DEF ShiftCut
<1> HIDE DEF s, d
<1>3. DOMAIN s = 0 .. Keep /\ s[0] = <<>> /\ \A j \in 1 .. Keep : s[j] = f[j - 1]
  BY <1>0, <1>1
<1>4. g[0] = Append(<<>>, v) /\ \A j \in 1 .. Keep : g[j] = f[j - 1]
  BY <1>0, <1>3
<1>5. e[Keep + 1] = c[Keep]
  <2>1. d[Keep + 1] = c[Keep]
    BY <1>0, <1>2
  <2>2. DOMAIN d = 0 .. Keep + 1
    BY <1>2
  <2> QED BY <1>0, <2>1, <2>2
<1> HIDE DEF g, e
<1>6. g[0] # <<>>
  BY <1>4
<1>7. f[0] # <<>>
  BY DEF Full
<1>8. \A i, j \in 0 .. Keep : j <= i /\ f[i] # <<>> => f[j] # <<>>
  BY DEF Full
<1>9. ASSUME NEW i \in 0 .. Keep, NEW j \in 0 .. Keep, j <= i, g[i] # <<>> PROVE g[j] # <<>>
  <2>1. CASE j = 0
    BY <1>6, <2>1
  <2>2. CASE j # 0
    <3>1. /\ i \in 1 .. Keep /\ j \in 1 .. Keep /\ i - 1 \in 0 .. Keep /\ j - 1 \in 0 .. Keep
          /\ j - 1 <= i - 1
      BY <1>0, <1>9, <2>2
    <3>2. g[i] = f[i - 1] /\ g[j] = f[j - 1]
      BY <1>4, <3>1
    <3> QED BY <1>8, <1>9, <3>1, <3>2
  <2> QED BY <2>1, <2>2
<1>10. ASSUME c[Keep] > 0, NEW i \in 1 .. Keep PROVE g[i] # <<>>
  <2>0. i - 1 \in 0 .. Keep /\ Keep \in 0 .. Keep /\ i - 1 <= Keep /\ g[i] = f[i - 1]
    BY <1>0, <1>4
  <2>1. /\ c[Keep] \in Nat /\ c[Keep + 1] \in Nat /\ c[Keep + 1] <= c[Keep] /\ c[Keep] <= Len(a)
        /\ f[Keep] = SubSeq(a, c[Keep + 1] + 1, c[Keep])
    <3>1. c[Keep] \in Nat /\ c[Keep + 1] \in Nat /\ c[Keep + 1] <= c[Keep] /\ c[Keep] <= Len(a)
      BY <2>0, CutFacts
    <3>2. f[Keep] = SubSeq(a, c[Keep + 1] + 1, c[Keep])
      BY <2>0 DEF Cut
    <3> QED BY <3>1, <3>2
  <2>2. CASE c[Keep + 1] > 0
    <3>1. \A j \in 1 .. Keep : f[j] # <<>>
      BY <2>2 DEF Full
    <3>2. i - 1 = 0 \/ i - 1 \in 1 .. Keep
      BY <1>0
    <3> QED BY <1>7, <2>0, <3>1, <3>2
  <2>3. CASE ~(c[Keep + 1] > 0)
    <3>1. c[Keep + 1] = 0
      BY <2>1, <2>3
    <3>2. Len(f[Keep]) = c[Keep] - c[Keep + 1]
      BY <2>1, Slice
    <3>3. f[Keep] # <<>>
      BY <1>10, <2>1, <3>1, <3>2
    <3> QED BY <1>8, <2>0, <3>3
  <2> QED BY <2>2, <2>3
<1>11. Full(e, g, m)
  <2>1. e[Keep + 1] > 0 => \A i \in 1 .. Keep : g[i] # <<>>
    BY <1>5, <1>10
  <2> QED BY <1>6, <1>9, <2>1 DEF Full
<1> QED BY <1>11 DEF e, g, s, d

LEMMA AppendFull ==
    ASSUME NEW c \in [0 .. Keep + 1 -> Nat], NEW f \in [0 .. Keep -> Seq(Int)], NEW n, NEW m,
           NEW p, NEW v \in Int, Full(c, f, n)
    PROVE  Full([c EXCEPT ![0] = p], [f EXCEPT ![0] = Append(f[0], v)], m)
<1> DEFINE e == [c EXCEPT ![0] = p]
           g == [f EXCEPT ![0] = Append(f[0], v)]
<1>0. Keep \in Nat /\ 0 \in 0 .. Keep /\ Keep + 1 \in 0 .. Keep + 1 /\ Keep + 1 # 0
  BY LogAssumption
<1>1. e[Keep + 1] = c[Keep + 1]
  BY <1>0
<1>2. g[0] = Append(f[0], v) /\ \A j \in 0 .. Keep : j # 0 => g[j] = f[j]
  BY <1>0
<1>3. f[0] \in Seq(Int)
  BY <1>0
<1> HIDE DEF e, g
<1>4. g[0] # <<>>
  BY <1>2, <1>3
<1>5. ASSUME NEW i \in 0 .. Keep, NEW j \in 0 .. Keep, j <= i, g[i] # <<>> PROVE g[j] # <<>>
  <2>1. CASE j = 0
    BY <1>4, <2>1
  <2>2. CASE j # 0
    <3>1. i # 0
      BY <1>0, <1>5, <2>2
    <3> QED BY <1>2, <1>5, <2>2, <3>1 DEF Full
  <2> QED BY <2>1, <2>2
<1>6. c[Keep + 1] > 0 => \A i \in 1 .. Keep : g[i] # <<>>
  <2>1. \A i \in 1 .. Keep : i \in 0 .. Keep /\ i # 0
    BY <1>0
  <2> QED BY <1>2, <2>1 DEF Full
<1>7. Full(e, g, m)
  BY <1>1, <1>4, <1>5, <1>6 DEF Full
<1> QED BY <1>7 DEF e, g

LEMMA RotatedAt ==
    ASSUME FileTypes, NEW k \in 0 .. Keep + 1
    PROVE  AfterOps[k] = Shifted(files, k) /\ AfterOps[k] \in [0 .. Keep -> Seq(Int)]
<1>1. files \in [0 .. Keep -> Seq(Int)]
  BY DEF FileTypes
<1>2. AfterOps[k] = Shifted(files, k)
  BY <1>1, RotationShifts
<1> QED BY <1>1, <1>2, ShiftedType

LEMMA FailKeeps ==
    ASSUME FileInv, NEW size \in Sizes, FileFails(size), Fault PROVE FileInv'
<1>0. FileTypes /\ faults' = faults + 1 /\ faults \in Nat /\ accepted' = accepted
  BY DEF FileInv, FileTypes, FileFails, Fault
<1>1. PICK c : Cut(c, files, accepted)
  BY DEF FileInv
<1>2. Keep \in Nat /\ Keep + 1 \in 0 .. Keep + 1 /\ 0 \in 0 .. Keep + 1
  BY LogAssumption
<1>3. len' \in Nat
  BY <1>0 DEF FileFails, FileTypes
<1>4. files' = files \/ \E k \in 0 .. Keep + 1 : files' = AfterOps[k]
  BY <1>2 DEF FileFails
<1>5. files' \in [0 .. Keep -> Seq(Int)] /\ \E d : Cut(d, files', accepted)
  <2>1. CASE files' = files
    BY <1>0, <1>1, <2>1 DEF FileTypes
  <2>2. CASE \E k \in 0 .. Keep + 1 : files' = AfterOps[k]
    <3>1. PICK k \in 0 .. Keep + 1 : files' = AfterOps[k]
      BY <2>2
    <3>2. files' = Shifted(files, k) /\ files' \in [0 .. Keep -> Seq(Int)]
      BY <1>0, <3>1, RotatedAt
    <3>3. CASE k = 0
      <4>1. files' = files
        BY <3>2, <3>3 DEF Shifted
      <4> QED BY <1>1, <3>2, <4>1
    <3>4. CASE k # 0
      <4>1. k \in Nat /\ k <= Keep + 1 /\ files \in [0 .. Keep -> Seq(Int)] /\ accepted \in Seq(Int)
        BY <1>0, <1>2 DEF FileTypes
      <4>2. Cut(ShiftCut(c, k), Shifted(files, k), accepted)
        BY <1>1, <3>4, <4>1, CutShift
      <4> QED BY <3>2, <4>2
    <3> QED BY <3>3, <3>4
  <2> QED BY <1>4, <2>1, <2>2
<1>6. FileTypes'
  BY <1>0, <1>3, <1>5 DEF FileTypes
<1>7. PICK d : Cut(d, files', accepted')
  BY <1>0, <1>5
<1>8. faults' # 0
  BY <1>0
<1> QED BY <1>6, <1>7, <1>8 DEF FileInv

LEMMA AcceptKeeps ==
    ASSUME FileInv, NEW line \in Int, NEW size \in Sizes, FileAccepts(line, size), faults' = faults
    PROVE  FileInv'
<1>0. /\ FileTypes /\ files \in [0 .. Keep -> Seq(Int)] /\ accepted \in Seq(Int) /\ len \in Nat
      /\ size \in Nat /\ faults \in Nat
  BY DEF FileInv, FileTypes, Sizes
<1>1. PICK c : Cut(c, files, accepted) /\ (faults = 0 => Full(c, files, len))
  BY DEF FileInv
<1>2. Keep \in Nat /\ Keep + 1 \in 0 .. Keep + 1 /\ 0 \in 0 .. Keep
  BY LogAssumption
<1>3. accepted' = Append(accepted, line) /\ accepted' \in Seq(Int)
  BY <1>0 DEF FileAccepts
<1>4. CASE should_rotate(size)
  <2> DEFINE s == Shifted(files, Keep + 1)
             d == ShiftCut(c, Keep + 1)
             g == [s EXCEPT ![0] = Append(s[0], line)]
             e == [d EXCEPT ![0] = Len(accepted) + 1]
  <2>1. AfterOps[Keep + 1] = s /\ s \in [0 .. Keep -> Seq(Int)]
    BY <1>0, <1>2, RotatedAt
  <2>2. files' = g /\ len' = size
    <3>1. files' = [AfterOps[Keep + 1] EXCEPT ![0] = Append(@, line)] /\ len' = size
      BY <1>4 DEF FileAccepts
    <3> QED BY <2>1, <3>1
  <2>3. Cut(d, s, accepted)
    <3>1. Keep + 1 \in Nat /\ Keep + 1 # 0 /\ Keep + 1 <= Keep + 1
      BY <1>2
    <3> QED BY <1>0, <1>1, <3>1, CutShift
  <2>4. faults = 0 => Full(e, g, len')
    <3>1. len > 0
      BY <1>4 DEF should_rotate
    <3> QED BY <1>0, <1>1, <3>1, RotateFull
  <2> HIDE DEF s, d
  <2>5. Cut(e, g, Append(accepted, line))
    BY <1>0, <2>1, <2>3, CutAppend
  <2>6. g \in [0 .. Keep -> Seq(Int)]
    <3>1. s[0] \in Seq(Int)
      BY <1>2, <2>1
    <3>2. Append(s[0], line) \in Seq(Int)
      BY <3>1
    <3> QED BY <2>1, <3>2
  <2> HIDE DEF g, e
  <2>7. FileTypes'
    BY <1>0, <1>3, <2>2, <2>6 DEF FileTypes
  <2>8. Cut(e, files', accepted') /\ (faults' = 0 => Full(e, files', len'))
    BY <1>3, <2>2, <2>4, <2>5
  <2> QED BY <2>7, <2>8 DEF FileInv
<1>5. CASE ~should_rotate(size)
  <2> DEFINE g == [files EXCEPT ![0] = Append(files[0], line)]
             e == [c EXCEPT ![0] = Len(accepted) + 1]
  <2>1. files' = g /\ len' = len + size /\ len' \in Nat
    BY <1>0, <1>5 DEF FileAccepts
  <2>2. Cut(e, g, Append(accepted, line))
    BY <1>0, <1>1, CutAppend
  <2>3. g \in [0 .. Keep -> Seq(Int)]
    <3>1. files[0] \in Seq(Int)
      BY <1>0, <1>2
    <3>2. Append(files[0], line) \in Seq(Int)
      BY <3>1
    <3> QED BY <1>0, <3>2
  <2>4. faults = 0 => Full(e, g, len')
    <3>1. c \in [0 .. Keep + 1 -> Nat]
      BY <1>1 DEF Cut
    <3> QED BY <1>0, <1>1, <3>1, AppendFull
  <2> HIDE DEF g, e
  <2>5. FileTypes'
    BY <1>0, <1>3, <2>1, <2>3 DEF FileTypes
  <2>6. Cut(e, files', accepted') /\ (faults' = 0 => Full(e, files', len'))
    BY <1>3, <2>1, <2>2, <2>4
  <2> QED BY <2>5, <2>6 DEF FileInv
<1> QED BY <1>4, <1>5

LEMMA SameFiles == ASSUME FileInv, UNCHANGED <<fileVars, faults>> PROVE FileInv'
BY DEF FileInv, FileTypes, Cut, Full, fileVars

LEMMA LineKeeps ==
    ASSUME FileInv, NEW line \in Int, Delivered(line) \/ Refused PROVE FileInv'
<1>1. ASSUME NEW size \in Sizes, HandleClosed(size), UNCHANGED faults PROVE FileInv'
  BY <1>1, SameFiles DEF HandleClosed
<1>2. ASSUME NEW size \in Sizes, FileFails(size), Fault PROVE FileInv'
  BY <1>2, FailKeeps
<1>3. ASSUME NEW size \in Sizes, FileAccepts(line, size), UNCHANGED faults PROVE FileInv'
  BY <1>3, AcceptKeeps
<1> QED BY <1>1, <1>2, <1>3 DEF Delivered, Refused

LEMMA FileStep == FileInv /\ LogTypes /\ [LogNext]_logVars => FileInv'
<1> SUFFICES ASSUME FileInv, LogTypes, [LogNext]_logVars PROVE FileInv'
  OBVIOUS
<1>1. CASE Emit \/ CountDrop \/ GuardFlush \/ Recv \/ Load \/ AckFlush \/ UNCHANGED logVars
  <2>1. UNCHANGED <<fileVars, faults>>
    BY <1>1 DEF Emit, CountDrop, GuardFlush, Recv, Load, AckFlush, logVars
  <2> QED BY <2>1, SameFiles
<1>2. CASE GuardTimeout
  <2>1. UNCHANGED fileVars /\ faults \in Nat /\ faults' = faults + 1
    BY <1>2 DEF GuardTimeout, Fault, FileInv, FileTypes
  <2>2. FileTypes'
    BY <2>1 DEF FileInv, FileTypes, fileVars
  <2>3. faults' # 0 /\ files' = files /\ accepted' = accepted
    BY <2>1 DEF fileVars
  <2>4. PICK c : Cut(c, files, accepted)
    BY DEF FileInv
  <2>5. Cut(c, files', accepted')
    BY <2>3, <2>4
  <2> QED BY <2>2, <2>3, <2>5 DEF FileInv
<1>3. CASE Warn
  <2>1. reported - total \in Int
    BY DEF LogTypes
  <2> QED BY <1>3, <2>1, LineKeeps DEF Warn
<1>4. CASE WriteRecord
  <2>1. command \in Int
    BY DEF LogTypes
  <2> QED BY <1>4, <2>1, LineKeeps DEF WriteRecord
<1> QED BY <1>1, <1>2, <1>3, <1>4 DEF LogNext

LEMMA FileInit == LogInit(MaxRecords) /\ faults = 0 => FileInv
<1> SUFFICES ASSUME LogInit(MaxRecords), faults = 0 PROVE FileInv
  OBVIOUS
<1>1. files = [i \in 0 .. Keep |-> <<>>] /\ accepted = <<>> /\ len = 0 /\ Keep \in Nat
  BY LogAssumption DEF LogInit
<1> DEFINE c == [i \in 0 .. Keep + 1 |-> 0]
<1>2. FileTypes
  BY <1>1 DEF FileTypes
<1>3. Cut(c, files, accepted)
  <2>1. c \in [0 .. Keep + 1 -> Nat] /\ c[0] = Len(accepted)
    BY <1>1
  <2>2. \A i, j \in 0 .. Keep + 1 : i <= j => c[j] <= c[i]
    BY <1>1
  <2>3. ASSUME NEW i \in 0 .. Keep PROVE files[i] = SubSeq(accepted, c[i + 1] + 1, c[i])
    <3>1. files[i] = <<>> /\ c[i] = 0 /\ c[i + 1] = 0
      BY <1>1
    <3>2. SubSeq(<<>>, 0 + 1, 0) = <<>>
      OBVIOUS
    <3> QED BY <1>1, <3>1, <3>2
  <2> HIDE DEF c
  <2> QED BY <2>1, <2>2, <2>3 DEF Cut
<1>4. Full(c, files, len)
  BY <1>1 DEF Full
<1> QED BY <1>2, <1>3, <1>4 DEF FileInv

LEMMA CutSuffix == FileInv => LogSuffix
<1> SUFFICES ASSUME FileInv PROVE LogSuffix
  OBVIOUS
<1>0. Keep \in Nat /\ files \in [0 .. Keep -> Seq(Int)] /\ accepted \in Seq(Int)
  BY LogAssumption DEF FileInv, FileTypes
<1>1. PICK c : Cut(c, files, accepted) /\ (faults = 0 => Full(c, files, len))
  BY DEF FileInv
<1> DEFINE base == c[Keep + 1]
           last == Len(accepted)
           B == [i \in 0 .. Keep |-> SubSeq(accepted, base + 1, c[i])]
           J == CHOOSE g : g = [i \in 0 .. Keep |-> IF i = Keep THEN files[i] ELSE g[i + 1] \o files[i]]
<1>2. base \in Nat /\ base <= last /\ last \in Nat
  <2>1. 0 \in 0 .. Keep
    BY <1>0
  <2> QED BY <1>0, <1>1, <2>1, CutFacts
<1>3. ASSUME NEW i \in 0 .. Keep
      PROVE  SubSeq(accepted, base + 1, c[i]) = IF i = Keep THEN files[i] ELSE B[i + 1] \o files[i]
  <2>0. files[i] = SubSeq(accepted, c[i + 1] + 1, c[i])
    BY <1>1 DEF Cut
  <2>1. CASE i = Keep
    BY <2>0, <2>1
  <2>2. CASE i # Keep
    <3>1. i + 1 \in 0 .. Keep
      BY <1>0, <2>2
    <3>2. /\ c[i] \in Nat /\ c[i + 1] \in Nat /\ base <= c[i + 1] /\ c[i + 1] <= c[i]
          /\ c[i] <= Len(accepted)
      BY <1>0, <1>1, CutFacts
    <3>3. SubSeq(accepted, base + 1, c[i + 1]) \o SubSeq(accepted, c[i + 1] + 1, c[i])
            = SubSeq(accepted, base + 1, c[i])
      BY <1>0, <1>2, <3>2, SliceJoin
    <3>4. B[i + 1] = SubSeq(accepted, base + 1, c[i + 1])
      BY <3>1
    <3> QED BY <2>0, <2>2, <3>3, <3>4
  <2> QED BY <2>1, <2>2
<1>4. B = [i \in 0 .. Keep |-> IF i = Keep THEN files[i] ELSE B[i + 1] \o files[i]]
  BY <1>3
<1>5. J = [i \in 0 .. Keep |-> IF i = Keep THEN files[i] ELSE J[i + 1] \o files[i]]
  <2> HIDE DEF B
  <2> QED BY <1>4
<1>6. LogSuffix <=>
        /\ Len(J[0]) <= Len(accepted)
        /\ J[0] = SubSeq(accepted, Len(accepted) - Len(J[0]) + 1, Len(accepted))
        /\ Len(J[0]) < Len(accepted) /\ faults = 0 => \A i \in 1 .. Keep : files[i] # <<>>
  BY DEF LogSuffix
<1>7. B[0] = SubSeq(accepted, base + 1, last)
  <2>1. 0 \in 0 .. Keep /\ c[0] = last
    BY <1>0, <1>1 DEF Cut
  <2> QED BY <2>1
<1> HIDE DEF J, B
<1>8. J[0] = B[0]
  <2> DEFINE T == {m \in 0 .. Keep : J[Keep - m] # B[Keep - m]}
  <2> SUFFICES ASSUME T # {} PROVE FALSE
    <3>1. Keep \in 0 .. Keep /\ Keep - Keep = 0
      BY <1>0
    <3> QED BY <3>1
  <2>1. T \subseteq Nat
    OBVIOUS
  <2>2. PICK m \in T : \A y \in T : m <= y
    <3> HIDE DEF T
    <3> QED BY <2>1, Least
  <2> DEFINE i == Keep - m
  <2>3. m \in 0 .. Keep /\ J[i] # B[i] /\ i \in 0 .. Keep
    BY <1>0, <2>2
  <2>4. i # Keep
    BY <1>4, <1>5, <2>3
  <2>5. m - 1 \in 0 .. Keep /\ ~(m <= m - 1) /\ Keep - (m - 1) = i + 1
    BY <1>0, <2>3, <2>4
  <2>6. m - 1 \notin T
    <3> HIDE DEF T
    <3> QED BY <2>2, <2>5
  <2>7. J[i + 1] = B[i + 1]
    BY <2>5, <2>6
  <2> HIDE DEF i, T
  <2>8. J[i] = J[i + 1] \o files[i]
    BY <1>5, <2>3, <2>4
  <2>9. B[i] = B[i + 1] \o files[i]
    BY <1>4, <2>3, <2>4
  <2> QED BY <2>3, <2>7, <2>8, <2>9
<1> HIDE DEF base, last
<1>9. Len(J[0]) = last - base /\ last - (last - base) = base
  <2>1. last <= Len(accepted)
    BY <1>2 DEF last
  <2>2. Len(SubSeq(accepted, base + 1, last)) = last - base
    BY <1>0, <1>2, <2>1, Slice
  <2> QED BY <1>2, <1>7, <1>8, <2>2
<1>10. Len(J[0]) <= last /\ J[0] = SubSeq(accepted, last - Len(J[0]) + 1, last)
  BY <1>2, <1>7, <1>8, <1>9
<1>11. ASSUME Len(J[0]) < last, faults = 0 PROVE \A i \in 1 .. Keep : files[i] # <<>>
  <2>1. base > 0
    BY <1>2, <1>9, <1>11
  <2> QED BY <1>1, <1>11, <2>1 DEF Full, base
<1> QED BY <1>6, <1>10, <1>11 DEF last

(***************************************************************************)
(* AsyncLogHandle, run_log_worker and RotatingFile: every record is        *)
(* written, waiting, refused or dropped, the drops announced are those     *)
(* reported, an answered flush has announced the drops before it, and      *)
(* whatever call fails in the middle of a rotation the files hold a        *)
(* gapless suffix of what they accepted.                                   *)
(***************************************************************************)
THEOREM LogIsSound == LogSpec => []LogSound
<1>1. AccountInv /\ [LogNext]_logVars => AccountInv'
  BY EmitAccounts, CountDropAccounts, GuardFlushAccounts, GuardTimeoutAccounts, RecvAccounts,
     LoadAccounts, WarnAccounts, WriteRecordAccounts, AckFlushAccounts, IdleAccounts DEF LogNext
<1>2. AccountInv /\ FileInv /\ [LogNext]_logVars => FileInv'
  BY FileStep DEF AccountInv
<1>3. AccountInv /\ FileInv => LogSound
  BY CutSuffix DEF AccountInv, Accounts, Owes, LogAccounted, LogSound
<1> QED BY <1>1, <1>2, <1>3, AccountInit, FileInit, PTL DEF LogSpec

-----------------------------------------------------------------------------
(* The service's log.                                                      *)

\* A configuration, with the paths it names.
Kind == [valid : BOOLEAN, logfile : Path, keep : 0 .. Len(Numerals), sources : SUBSET Path,
         userlist : Path, program : Path, tls : SUBSET Path, cache : SUBSET Path,
         patterns : SUBSET [dir : Path, prefix : Seq(STRING)]]

ServiceTypes ==
    /\ onDisk \in Configs /\ config \in Kind /\ family.keep \in Nat
    /\ Held => ~(service = "start pending" /\ starting \in {"load", "log"})

\* Nothing that configuration c reads or writes is a member of the log family f, by
\* its own name; nor, when n says so, by another.
Reads(c, f, n) ==
    /\ \A m \in Members(f), p \in Protected(c) :
          m # Normalized(p) /\ (n => ~SameFile(m, Normalized(p)))
    /\ \A m \in Members(f), p \in c.cache :
          ~IsPrefix(Normalized(p), m) /\ ~IsPrefix(m, Normalized(p))
    /\ \A m \in Members(f), pattern \in c.patterns : ~PatternMatches(pattern, m)

(***************************************************************************)
(* LogApart is inductive once the types are known: a reload is refused by  *)
(* the family in use and by the one it asks for, the rotation of a family  *)
(* makes no new members of it, and that of a predecessor changes only what *)
(* names the linked file has.                                              *)
(***************************************************************************)
ServiceInv == ServiceTypes /\ LogApart

LEMMA ActiveApart ==
    ASSUME NEW c, NEW f, NEW n, ActivePathsValid(c, f) PROVE Reads(c, f, n)
BY DEF ActivePathsValid, FilesApart, TreeConflicts, SameOrDescendant, SameFile, Reads

\* A step that leaves the configuration and the linked names alone, and at most lets
\* the log go.
LEMMA ApartFrame ==
    ASSUME LogApart, UNCHANGED <<config, linked>>, family' \in {family, NoFamily},
           UNCHANGED disturbed
    PROVE  LogApart'
<1>1. CASE family' = NoFamily
  BY <1>1 DEF LogApart, Held
<1>2. CASE family' = family
  BY <1>2 DEF LogApart, Held, SameFile
<1> QED BY <1>1, <1>2

LEMMA SameReads ==
    ASSUME NEW c \in Kind, NEW l \in Path, NEW k \in 0 .. Len(Numerals)
    PROVE  LET d == [c EXCEPT !.logfile = l, !.keep = k]
           IN  d \in Kind /\ Protected(d) = Protected(c) /\ d.cache = c.cache /\ d.patterns = c.patterns
<1> DEFINE d == [c EXCEPT !.logfile = l, !.keep = k]
<1>1. /\ d \in Kind /\ d.cache = c.cache /\ d.patterns = c.patterns /\ d.sources = c.sources
      /\ d.userlist = c.userlist /\ d.program = c.program /\ d.tls = c.tls
  BY DEF Kind
<1> HIDE DEF d
<1>2. Protected(d) = Protected(c)
  BY <1>1 DEF Protected
<1> QED BY <1>1, <1>2 DEF d

LEMMA RotateApart ==
    ASSUME ServiceInv, Rotate PROVE LogApart'
<1>9. Held /\ UNCHANGED disturbed
  BY DEF Rotate
<1> DEFINE moved(p) ==
             IF \E i \in 0 .. family.keep : p = Member(family, i)
             THEN LET i == CHOOSE i \in 0 .. family.keep : p = Member(family, i)
                  IN  IF i = family.keep THEN {} ELSE {Member(family, i + 1)}
             ELSE {p}
<1>0. /\ linked' = UNION {moved(p) : p \in linked} /\ config' = config /\ family' = family
      /\ family.keep \in Nat
  BY DEF Rotate, Rotation, ServiceInv, ServiceTypes
<1>1. ASSUME NEW p
      PROVE  \/ p \in Members(family) /\ moved(p) \subseteq Members(family)
             \/ p \notin Members(family) /\ moved(p) = {p}
  <2>1. CASE \E i \in 0 .. family.keep : p = Member(family, i)
    <3> DEFINE i == CHOOSE i \in 0 .. family.keep : p = Member(family, i)
    <3>1. i \in 0 .. family.keep /\ p = Member(family, i)
      BY <2>1
    <3>2. moved(p) = IF i = family.keep THEN {} ELSE {Member(family, i + 1)}
      BY <2>1
    <3> HIDE DEF i
    <3>3. i # family.keep => i + 1 \in 0 .. family.keep
      BY <1>0, <3>1
    <3>4. p \in Members(family)
      BY <3>1 DEF Members
    <3>5. CASE i = family.keep
      <4>1. moved(p) = {}
        BY <3>2, <3>5
      <4> HIDE DEF moved
      <4> QED BY <3>4, <4>1
    <3>6. CASE i # family.keep
      <4>1. moved(p) = {Member(family, i + 1)}
        BY <3>2, <3>6
      <4>2. Member(family, i + 1) \in Members(family)
        BY <3>3, <3>6 DEF Members
      <4> HIDE DEF moved
      <4> QED BY <3>4, <4>1, <4>2
    <3> QED BY <3>5, <3>6
  <2>2. CASE ~ \E i \in 0 .. family.keep : p = Member(family, i)
    BY <2>2 DEF Members
  <2> QED BY <2>1, <2>2
<1> HIDE DEF moved
<1>2. ASSUME NEW m \in Members(family), NEW p \in Protected(config), ~disturbed
      PROVE  ~({m, Normalized(p)} \subseteq linked') /\ m # Normalized(p)
  <2> DEFINE q == Normalized(p)
  <2>1. \A x \in Members(family) : ~SameFile(x, q)
    BY <1>2, <1>9 DEF ServiceInv, LogApart
  <2> HIDE DEF q
  <2>2. q \notin Members(family)
    BY <2>1 DEF SameFile
  <2>3. SUFFICES ASSUME m \in linked', q \in linked' PROVE FALSE
    BY <2>2 DEF q
  <2>4. PICK r \in linked : q \in moved(r)
    BY <1>0, <2>3
  <2>5. r = q
    BY <1>1, <2>2, <2>4
  <2>6. PICK t \in linked : m \in moved(t)
    BY <1>0, <2>3
  <2>7. t \in Members(family)
    BY <1>1, <2>6
  <2> QED BY <2>1, <2>5, <2>7 DEF SameFile
<1>3. ~disturbed => \A m \in Members(family), p \in Protected(config) :
         ~({m, Normalized(p)} \subseteq linked') /\ m # Normalized(p)
  BY <1>2
<1> QED BY <1>0, <1>3, <1>9 DEF ServiceInv, LogApart, Held, SameFile

LEMMA ServiceStep == ServiceInv /\ [ServiceNext]_serviceVars => ServiceInv'
<1> SUFFICES ASSUME ServiceInv, [ServiceNext]_serviceVars PROVE ServiceInv'
  OBVIOUS
<1>0. /\ onDisk \in Configs /\ onDisk \in Kind /\ config \in Kind /\ family.keep \in Nat
      /\ Len(Numerals) \in Nat /\ NoFamily.keep \in Nat /\ LogApart
  <2>1. Configs \subseteq Kind
    BY ServiceAssumption DEF Kind
  <2>2. Len(Numerals) \in Nat
    BY ServiceAssumption
  <2>3. NoFamily.keep \in Nat
    BY DEF NoFamily
  <2> QED BY <2>1, <2>2, <2>3 DEF ServiceInv, ServiceTypes
<1>1. CASE LoadServiceConfig
  <2>1. ~Held /\ ~Held'
    BY <1>1 DEF ServiceInv, ServiceTypes, LoadServiceConfig, Held
  <2> QED BY <1>0, <1>1, <2>1 DEF ServiceInv, ServiceTypes, LogApart, LoadServiceConfig
<1>2. CASE InitServiceLogging
  <2>1. ~Held /\ service = "start pending"
    BY <1>2 DEF ServiceInv, ServiceTypes, InitServiceLogging
  <2>2. CASE LoggingPathsValid(config) /\ family' = FamilyOf(config) /\ starting' = "bind"
    <3>1. UNCHANGED <<onDisk, config, linked>>
      BY <1>2 DEF InitServiceLogging
    <3>2. Reads(config, FamilyOf(config), TRUE)
      BY <2>2, ActiveApart DEF LoggingPathsValid
    <3>3. LogApart'
      BY <2>2, <3>1, <3>2 DEF LogApart, Reads, SameFile
    <3>4. FamilyOf(config).keep \in Nat
      BY <1>0 DEF FamilyOf, Kind
    <3> QED BY <1>0, <2>2, <3>1, <3>3, <3>4 DEF ServiceInv, ServiceTypes
  <2>3. CASE service' = "stopped" /\ UNCHANGED <<family, disturbed>>
    <3>1. UNCHANGED <<onDisk, config, linked>>
      BY <1>2 DEF InitServiceLogging
    <3> QED BY <1>0, <2>3, <3>1, ApartFrame DEF ServiceInv, ServiceTypes
  <2> QED BY <1>2, <2>2, <2>3 DEF InitServiceLogging, Stop
<1>3. CASE BindServer \/ StopRequested \/ Stopped
  <2>1. service' # "start pending" /\ UNCHANGED <<onDisk, config, family, disturbed, linked>>
    BY <1>3 DEF BindServer, StopRequested, Stopped, Stop
  <2> QED BY <1>0, <2>1, ApartFrame DEF ServiceInv, ServiceTypes
<1>4. CASE \E c \in Configs : Edit(c)
  <2>1. UNCHANGED <<service, starting, config, family, disturbed, linked>> /\ onDisk' \in Configs
    BY <1>4 DEF Edit
  <2> QED BY <1>0, <2>1, ApartFrame DEF ServiceInv, ServiceTypes, Held
<1>5. CASE ServiceReload
  <2>0. UNCHANGED <<service, starting, onDisk, family, linked>>
    BY <1>5 DEF ServiceReload
  <2>1. CASE onDisk.valid /\ ReloadValid(onDisk)
    <3> DEFINE d == [onDisk EXCEPT !.logfile = config.logfile, !.keep = config.keep]
    <3>1. config' = d
      BY <1>5, <2>1 DEF ServiceReload
    <3>2. config.logfile \in Path /\ config.keep \in 0 .. Len(Numerals)
      BY <1>0 DEF Kind
    <3>3. d \in Kind /\ Protected(d) = Protected(onDisk) /\ d.cache = onDisk.cache
          /\ d.patterns = onDisk.patterns
      BY <1>0, <3>2, SameReads
    <3> HIDE DEF d
    <3>4. Reads(onDisk, family, TRUE)
      BY <2>1, ActiveApart DEF ReloadValid
    <3>5. Reads(d, family, TRUE)
      BY <3>3, <3>4 DEF Reads
    <3>6. LogApart'
      BY <2>0, <3>1, <3>5 DEF LogApart, Reads, SameFile
    <3> QED BY <1>0, <2>0, <3>1, <3>3, <3>6 DEF ServiceInv, ServiceTypes, Held
  <2>2. CASE ~(onDisk.valid /\ ReloadValid(onDisk))
    <3>1. UNCHANGED <<config, disturbed>>
      BY <1>5, <2>2 DEF ServiceReload
    <3> QED BY <1>0, <2>0, <3>1, ApartFrame DEF ServiceInv, ServiceTypes, Held
  <2> QED BY <2>1, <2>2
<1>6. CASE Rotate
  <2>1. ServiceTypes'
    BY <1>6 DEF Rotate, ServiceInv, ServiceTypes, Held
  <2> QED BY <1>6, <2>1, RotateApart DEF ServiceInv
<1>7. CASE Exit
  <2>1. family' = NoFamily /\ UNCHANGED <<service, starting, onDisk, config, disturbed, linked>>
    BY <1>7 DEF Exit
  <2> QED BY <1>0, <2>1, ApartFrame DEF ServiceInv, ServiceTypes, Held
<1>8. CASE Restart
  <2>1. family' = NoFamily /\ UNCHANGED <<onDisk, config, disturbed, linked>>
    BY <1>8 DEF Restart
  <2> QED BY <1>0, <2>1, ApartFrame DEF ServiceInv, ServiceTypes, Held
<1>9. ASSUME NEW old \in leaving, RotateLeaving(old) \/ ExitLeaving(old) PROVE ServiceInv'
  <2>1. UNCHANGED <<service, starting, onDisk, config, family>>
    BY <1>9 DEF RotateLeaving, ExitLeaving
  <2>2. disturbed' = TRUE \/ UNCHANGED <<disturbed, linked>>
    BY <1>9 DEF RotateLeaving, ExitLeaving
  <2>3. CASE disturbed' = TRUE
    BY <1>0, <2>1, <2>3 DEF ServiceInv, ServiceTypes, LogApart, Held
  <2>4. CASE UNCHANGED <<disturbed, linked>>
    BY <1>0, <2>1, <2>4, ApartFrame DEF ServiceInv, ServiceTypes, Held
  <2> QED BY <2>2, <2>3, <2>4
<1>10. CASE UNCHANGED serviceVars
  BY <1>0, <1>10, ApartFrame DEF serviceVars, ServiceInv, ServiceTypes, Held
<1> QED BY <1>1, <1>2, <1>3, <1>4, <1>5, <1>6, <1>7, <1>8, <1>9, <1>10 DEF ServiceNext

LEMMA ServiceStart == ServiceInit => ServiceInv
<1> SUFFICES ASSUME ServiceInit PROVE ServiceInv
  OBVIOUS
<1>1. onDisk \in Configs /\ config \in Configs /\ family = NoFamily
  BY DEF ServiceInit
<1>2. Configs \subseteq Kind
  BY ServiceAssumption DEF Kind
<1>3. family.keep \in Nat
  BY <1>1 DEF NoFamily
<1> QED BY <1>1, <1>2, <1>3 DEF ServiceInv, ServiceTypes, LogApart, Held

(***************************************************************************)
(* run_service and its reloads, for any set of configurations and any      *)
(* number of rotations kept: from its start until its exit or its          *)
(* successor's start, also after STOPPED, no file of a process's log,      *)
(* rotated ones included, is one that the configuration in effect reads,   *)
(* writes beside or runs, is inside its ACME cache, or would be read as    *)
(* configuration; nor by another hard-linked name, unless a predecessor    *)
(* that had not yet exited rotated its own log since the last check.       *)
(***************************************************************************)
THEOREM LogStaysApart == ServiceSpec => []LogApart
<1>1. ServiceInv => LogApart
  BY DEF ServiceInv
<1> QED BY <1>1, ServiceStart, ServiceStep, PTL DEF ServiceSpec

-----------------------------------------------------------------------------
(* Configuration.                                                          *)

(***************************************************************************)
(* Every setting was accepted when it was read, and what was built passed  *)
(* the checks of build and, in force, those of the start.                  *)
(***************************************************************************)
ConfigInv ==
    /\ settings = [k \in Keys |-> settings[k]]
    /\ \A k \in Keys : settings[k] # Unset => \E v : settings[k] = {v} /\ Accepts(k, v)
    /\ status \in {"built", "effective"} => Buildable
    /\ status = "effective" => ValidStartup

LEMMA ConfigStart == ASSUME NEW t, ConfigInit(t) PROVE ConfigInv
BY DEF ConfigInit, ConfigInv

LEMMA SameSettings ==
    ASSUME ConfigInv, settings' = settings,
           status' = status \/ status' \notin {"built", "effective"}
    PROVE  ConfigInv'
BY DEF ConfigInv, Buildable, ValidStartup, IsSet, OffersUsername, LogsToFile, HasFiles, HasAcme

LEMMA ConfigStep == ConfigInv /\ [ConfigNext]_configVars => ConfigInv'
<1> SUFFICES ASSUME ConfigInv, [ConfigNext]_configVars PROVE ConfigInv'
  OBVIOUS
<1>1. CASE LoadRoot \/ IncludeFile \/ EndOfFile \/ UNCHANGED configVars
  <2>1. settings' = settings /\ (status' = status \/ status' \notin {"built", "effective"})
    BY <1>1 DEF LoadRoot, IncludeFile, EndOfFile, configVars, Fail
  <2> QED BY <2>1, SameSettings
<1>2. CASE ParseLine
  <2> DEFINE line == Lines(Top.file)[Top.line]
  <2>1. \/ settings' = settings /\ (status' = status \/ status' \notin {"built", "effective"})
        \/ /\ Accepts(line.key, line.val) /\ settings' = [settings EXCEPT ![line.key] = {line.val}]
           /\ status' = status
    BY <1>2 DEF ParseLine, Fail
  <2> HIDE DEF line
  <2>2. CASE settings' = settings /\ (status' = status \/ status' \notin {"built", "effective"})
    BY <2>2, SameSettings
  <2>3. CASE /\ Accepts(line.key, line.val) /\ settings' = [settings EXCEPT ![line.key] = {line.val}]
             /\ status' = status
    <3> DEFINE key == line.key
               val == line.val
    <3> HIDE DEF key, val
    <3>1. key \in Keys /\ Accepts(key, val) /\ settings' = [settings EXCEPT ![key] = {val}]
      BY <2>3 DEF Accepts, Keys, key, val
    <3>2. settings' = [k \in Keys |-> settings'[k]] /\ settings'[key] = {val}
          /\ \A k \in Keys : k # key => settings'[k] = settings[k]
      BY <3>1 DEF ConfigInv
    <3>3. \A k \in Keys : settings'[k] # Unset => \E v : settings'[k] = {v} /\ Accepts(k, v)
      BY <3>1, <3>2 DEF ConfigInv
    <3>4. status' \notin {"built", "effective"}
      BY <1>2, <2>3 DEF ParseLine
    <3> QED BY <3>2, <3>3, <3>4 DEF ConfigInv
  <2> QED BY <2>1, <2>2, <2>3
<1>3. CASE Build
  BY <1>3 DEF Build, ConfigInv, Buildable, ValidStartup, IsSet, OffersUsername, LogsToFile,
              HasFiles, HasAcme
<1>4. CASE TakeEffect
  BY <1>4 DEF TakeEffect, ConfigInv, Buildable, ValidStartup, IsSet, OffersUsername, LogsToFile,
              HasFiles, HasAcme
<1> QED BY <1>1, <1>2, <1>3, <1>4 DEF ConfigNext

LEMMA Ranges ==
    ASSUME ConfigInv
    PROVE  /\ \A k \in Positive \cap Capped : settings[k] \subseteq 1 .. Cap
           /\ \A k \in Capped : settings[k] \subseteq 0 .. Cap
           /\ \A k \in Positive : settings[k] # {0}
<1>0. Positive \subseteq Numeric /\ Capped \subseteq Numeric /\ Numeric \subseteq Keys /\ Cap \in Nat
  BY ConfigAssumption DEF Numeric, Keys
<1>1. ASSUME NEW k \in Numeric, NEW v \in settings[k]
      PROVE  v \in Nat /\ (k \in Positive => v > 0) /\ (k \in Capped => v <= Cap)
  <2>1. k \in Keys /\ settings[k] # Unset
    BY <1>0, <1>1 DEF Unset
  <2>2. PICK w : settings[k] = {w} /\ Accepts(k, w)
    BY <2>1 DEF ConfigInv
  <2>3. v = w
    BY <1>1, <2>2
  <2> QED BY <1>1, <2>2, <2>3 DEF Accepts
<1>2. ASSUME NEW k \in Positive \cap Capped PROVE settings[k] \subseteq 1 .. Cap
  BY <1>0, <1>1
<1>3. ASSUME NEW k \in Capped PROVE settings[k] \subseteq 0 .. Cap
  BY <1>0, <1>1
<1>4. ASSUME NEW k \in Positive PROVE settings[k] # {0}
  BY <1>0, <1>1
<1> QED BY <1>2, <1>3, <1>4

LEMMA InvUsable == ConfigInv => ConfigUsable
<1> SUFFICES ASSUME ConfigInv, status = "effective" PROVE ConfigUsable
  BY DEF ConfigUsable
<1>1. /\ Rates \cup {"maxconnections", "concurrentconnections", "udpportrange"} \subseteq Positive \cap Capped
      /\ "dnstimeout" \in Positive \cap Capped /\ "shutdowndraintimeout" \in Capped
      /\ "connecttimeout" \in Positive /\ "handshaketimeout" \in Positive
  BY DEF Positive, Capped
<1>2. /\ \A k \in Rates \cup {"maxconnections", "concurrentconnections", "udpportrange"} :
           settings[k] \subseteq 1 .. Cap
      /\ settings["dnstimeout"] \subseteq 1 .. Cap
      /\ settings["shutdowndraintimeout"] \subseteq 0 .. Cap
      /\ settings["connecttimeout"] # {0} /\ settings["handshaketimeout"] # {0}
  BY <1>1, Ranges
<1>3. Buildable /\ ValidStartup
  BY DEF ConfigInv
<1>4. settings["socksmethod"] \in {{"username"}, {"both"}} =>
           {settings["userlist"], settings["authcommand"]} # {Unset}
  BY <1>3 DEF Buildable, OffersUsername, IsSet
<1>5. /\ LogsToFile => settings["logfile"] # Unset
      /\ settings["metricslisten"] = {"public"} => settings["allowpublic"] = {"true"}
  BY <1>3 DEF Buildable, ValidStartup, IsSet
<1>6. <<HasFiles, HasAcme>> # <<TRUE, TRUE>>
  BY <1>3 DEF Buildable
<1>7. /\ (settings["certfile"] = Unset) = (settings["keyfile"] = Unset)
      /\ (settings["acmedomains"] = Unset) = (settings["acmecache"] = Unset)
      /\ settings["acmedomains"] = Unset => settings["acmeemail"] = Unset
  BY <1>3 DEF Buildable, HasFiles, HasAcme, IsSet
<1> QED BY <1>2, <1>4, <1>5, <1>6, <1>7 DEF ConfigUsable

(***************************************************************************)
(* Config::load, build and validate_startup: whatever the files say and    *)
(* include, settings that come into force have no zero or excessive rate,  *)
(* limit or timeout, a source of users when a password is asked for, one   *)
(* whole source of a certificate, and metrics that are public only when    *)
(* asked to be.                                                            *)
(***************************************************************************)
THEOREM EffectiveIsUsable ==
    ASSUME NEW CONSTANT t PROVE ConfigSpec(t) => []ConfigUsable
<1>1. ConfigInit(t) => ConfigInv
  BY ConfigStart
<1> QED BY <1>1, ConfigStep, InvUsable, PTL DEF ConfigSpec

-----------------------------------------------------------------------------
(* Wizard.                                                                 *)

AtMostOne(option) == option = {} \/ \E x : option = {x}

IsForm(f) ==
    f = [template |-> f.template, output |-> f.output, listen |-> f.listen,
         client |-> f.client, userlist |-> f.userlist, log |-> f.log, domain |-> f.domain,
         cache |-> f.cache, staging |-> f.staging, udp |-> f.udp, range |-> f.range,
         advertise |-> f.advertise]

\* SavedGuarded, for one configuration that was saved.
Guarded(s) ==
    /\ s.by.token
    /\ "none" \in Range(s.config.methods) => s.config.listen.ip = "loopback"
    /\ "username" \in Range(s.config.methods) => s.config.userlist # {}
    /\ s.config.listen.port = 443 /\ s.config.tls.kind = "acme" =>
         /\ s.config.methods = <<"username">>
         /\ \A p \in s.config.log, u \in s.config.userlist :
              \A q \in {s.form.output, u, Lock(u)} : ~Conflict(q, p)

WizardInv == saved # {} => wizard = "done" /\ \E s : saved = {s} /\ Guarded(s)

LEMMA JoinAt ==
    ASSUME NEW S, NEW a \in Seq(S), NEW b \in Seq(S), NEW i \in 1 .. Len(a), NEW j \in 1 .. Len(b)
    PROVE  /\ a \o b \in Seq(S) /\ Len(a \o b) = Len(a) + Len(b) /\ Len(a) \in Nat /\ Len(b) \in Nat
           /\ (a \o b)[i] = a[i] /\ (a \o b)[Len(a) + j] = b[j]
           /\ i \in 1 .. Len(a \o b) /\ Len(a) + j \in 1 .. Len(a \o b) /\ i < Len(a) + j
<1>1. Len(a) \in Nat /\ Len(b) \in Nat
  OBVIOUS
<1>2. a \o b \in Seq(S) /\ Len(a \o b) = Len(a) + Len(b)
  OBVIOUS
<1>3. i \in 1 .. Len(a) + Len(b) /\ Len(a) + j \in 1 .. Len(a) + Len(b) /\ i < Len(a) + j
  BY <1>1
<1>4. (a \o b)[i] = a[i]
  BY <1>1
<1>5. (a \o b)[Len(a) + j] = b[j]
  <2>1. (a \o b)[Len(a) + j] = b[(Len(a) + j) - Len(a)]
    BY <1>1, <1>3
  <2>2. (Len(a) + j) - Len(a) = j
    BY <1>1
  <2> QED BY <2>1, <2>2
<1> QED BY <1>1, <1>2, <1>3, <1>4, <1>5

LEMMA JoinFirst ==
    ASSUME NEW S, NEW a \in Seq(S), NEW b \in Seq(S), NEW i \in 1 .. Len(a)
    PROVE  /\ a \o b \in Seq(S) /\ Len(a \o b) = Len(a) + Len(b) /\ Len(a) \in Nat /\ Len(b) \in Nat
           /\ (a \o b)[i] = a[i] /\ i \in 1 .. Len(a \o b)
<1>1. Len(a) \in Nat /\ Len(b) \in Nat
  OBVIOUS
<1>2. a \o b \in Seq(S) /\ Len(a \o b) = Len(a) + Len(b)
  OBVIOUS
<1>3. i \in 1 .. Len(a) + Len(b)
  BY <1>1
<1>4. (a \o b)[i] = a[i]
  BY <1>1
<1> QED BY <1>1, <1>2, <1>3, <1>4

\* The log comes after the output, the list of users and its lock in the order the
\* roles are compared.
LEMMA RolesInOrder ==
    ASSUME NEW S, NEW own \in Seq(S), NEW other \in Seq(S), NEW users \in Seq(S), NEW log \in Seq(S),
           1 \in 1 .. Len(own), 1 \in 1 .. Len(users), 3 \in 1 .. Len(users), 1 \in 1 .. Len(log),
           NEW roles, roles = ((own \o other) \o users) \o log,
           \A x, y \in DOMAIN roles : x < y => ~Conflict(roles[x], roles[y])
    PROVE  ~Conflict(own[1], log[1]) /\ ~Conflict(users[1], log[1]) /\ ~Conflict(users[3], log[1])
<1> DEFINE pre == own \o other
           all == pre \o users
<1>1. pre \in Seq(S) /\ pre[1] = own[1] /\ 1 \in 1 .. Len(pre)
  BY JoinFirst
<1> HIDE DEF pre
<1> DEFINE j == Len(pre) + 1
           k == Len(pre) + 3
<1>2. pre \in Seq(S)
  BY <1>1
<1>3. 1 \in 1 .. Len(pre)
  BY <1>1
<1>4. /\ all \in Seq(S) /\ all[1] = pre[1] /\ 1 \in 1 .. Len(all)
      /\ all[j] = users[1] /\ j \in 1 .. Len(all)
  BY <1>2, <1>3, JoinAt
<1>5. all[k] = users[3] /\ k \in 1 .. Len(all)
  BY <1>2, <1>3, JoinAt
<1> HIDE DEF all, j, k
<1> DEFINE l == Len(all) + 1
<1>6. all \in Seq(S)
  BY <1>4
<1>7. roles = all \o log
  BY DEF all, pre
<1>8. ASSUME NEW i \in 1 .. Len(all)
      PROVE  roles \in Seq(S) /\ roles[i] = all[i] /\ i \in 1 .. Len(roles) /\ l \in 1 .. Len(roles)
             /\ i < l /\ roles[l] = log[1]
  BY <1>6, <1>7, JoinAt
<1> HIDE DEF l
<1>9. roles \in Seq(S)
  BY <1>4, <1>8
<1>10. DOMAIN roles = 1 .. Len(roles)
  BY <1>9
<1>11. 1 \in DOMAIN roles /\ j \in DOMAIN roles /\ k \in DOMAIN roles /\ l \in DOMAIN roles
  BY <1>4, <1>5, <1>8, <1>10
<1>12. /\ 1 < l /\ j < l /\ k < l
       /\ roles[1] = own[1] /\ roles[j] = users[1] /\ roles[k] = users[3] /\ roles[l] = log[1]
  BY <1>1, <1>4, <1>5, <1>8
<1> QED BY <1>11, <1>12

\* validate_path_roles leaves the log a path of its own.
LEMMA LogHasOwnPlace ==
    ASSUME NEW f, NEW u, NEW p, f.userlist = {u}, f.log = {p}, RolesApart(f)
    PROVE  ~Conflict(f.output, p) /\ ~Conflict(u, p) /\ ~Conflict(Lock(u), p)
<1> DEFINE unless(x, y) == IF OneFile(x, y) THEN <<>> ELSE << y >>
           own == << f.output, BackupOf(f.output) >>
           one == unless(f.output, ServiceConfig)
           two == unless(BackupOf(f.output), BackupOf(ServiceConfig))
           users == << u, BackupOf(u), Lock(u) >>
           log == << p, RotatedLog(p) >>
           S == {f.output, BackupOf(f.output), ServiceConfig, BackupOf(ServiceConfig), u, BackupOf(u),
                 Lock(u), p, RotatedLog(p)}
<1>0. Only({u}) = u /\ Only({p}) = p
  BY DEF Only
<1>1. Roles(f) = ((own \o (one \o two)) \o users) \o log
  BY <1>0 DEF Roles
<1>2. /\ own[1] = f.output /\ users[1] = u /\ users[3] = Lock(u) /\ log[1] = p
      /\ Len(own) = 2 /\ Len(users) = 3 /\ Len(log) = 2
  OBVIOUS
<1>3. own \in Seq(S)
  OBVIOUS
<1>4. users \in Seq(S)
  OBVIOUS
<1>5. log \in Seq(S)
  OBVIOUS
<1>6. ASSUME NEW x, NEW y \in S PROVE unless(x, y) \in Seq(S)
  <2> HIDE DEF S
  <2>1. <<>> \in Seq(S) /\ << y >> \in Seq(S)
    OBVIOUS
  <2>2. CASE OneFile(x, y)
    BY <2>1, <2>2
  <2>3. CASE ~OneFile(x, y)
    BY <2>1, <2>3
  <2> QED BY <2>2, <2>3
<1>7. ServiceConfig \in S /\ BackupOf(ServiceConfig) \in S
  OBVIOUS
<1> HIDE DEF S
<1>8. one \in Seq(S)
  BY <1>6, <1>7
<1>9. two \in Seq(S)
  BY <1>6, <1>7
<1> HIDE DEF own, one, two, users, log
<1>10. one \o two \in Seq(S)
  BY <1>8, <1>9
<1> DEFINE other == one \o two
           roles == Roles(f)
<1>11. other \in Seq(S)
  BY <1>10
<1>12. roles = ((own \o other) \o users) \o log
  BY <1>1
<1>13. \A x, y \in DOMAIN roles : x < y => ~Conflict(roles[x], roles[y])
  BY DEF RolesApart
<1> HIDE DEF other, roles
<1>14. 1 \in 1 .. Len(own) /\ 1 \in 1 .. Len(users) /\ 3 \in 1 .. Len(users) /\ 1 \in 1 .. Len(log)
  BY <1>2
<1>15. ~Conflict(own[1], log[1]) /\ ~Conflict(users[1], log[1]) /\ ~Conflict(users[3], log[1])
  BY <1>3, <1>4, <1>5, <1>11, <1>12, <1>13, <1>14, RolesInOrder
<1> QED BY <1>2, <1>15

\* wizard_form_from_fields reads a form, with one userlist and one log at the most.
LEMMA FilledIsForm ==
    ASSUME NEW s \in Fields
    PROVE  IsForm(Filled(s)) /\ AtMostOne(Filled(s).userlist) /\ AtMostOne(Filled(s).log)
<1>1. s.userlist \in Option(FilePath) /\ s.log \in Option(FilePath)
  BY DEF Fields
<1>2. AtMostOne(s.userlist) /\ AtMostOne(s.log)
  BY <1>1 DEF Option, AtMostOne
<1>3. ASSUME NEW o, AtMostOne(o), NEW x PROVE AtMostOne(o \ {x})
  BY <1>3 DEF AtMostOne
<1>4. ASSUME NEW o, AtMostOne(o), NEW p, NEW n PROVE AtMostOne(FollowsOutput(o, p, n))
  <2>1. AtMostOne(o \ {Blank}) /\ AtMostOne({Beside(p, n)})
    BY <1>3, <1>4 DEF AtMostOne
  <2> QED BY <2>1 DEF FollowsOutput
<1>5. ASSUME NEW o, NEW x PROVE AtMostOne(Required(o, x))
  <2>1. AtMostOne({Field(o, x)})
    BY DEF AtMostOne
  <2> QED BY <1>3, <2>1 DEF Required
<1>6. AtMostOne({})
  BY DEF AtMostOne
<1>7. IsForm(Filled(s))
  BY DEF IsForm, Filled
<1>8. PICK t, o :
        /\ Filled(s).userlist = IF t = "public" THEN Required(s.userlist, PublicUserlist)
                                ELSE FollowsOutput(s.userlist, o, <<"users">>)
        /\ Filled(s).log = LogFollowsOutput(s.log, o)
  BY DEF Filled
<1>9. AtMostOne(Filled(s).userlist)
  BY <1>2, <1>4, <1>5, <1>8
<1>10. AtMostOne(Filled(s).log)
  BY <1>2, <1>4, <1>6, <1>8 DEF LogFollowsOutput
<1> QED BY <1>7, <1>9, <1>10

\* What generate renders from fields that it accepts.
LEMMA AcceptedIsGuarded ==
    ASSUME NEW fs \in Fields, Acceptable(fs), NEW r, r.token
    PROVE  Guarded([fields |-> fs, form |-> FormKept(fs), config |-> render_config(FormKept(fs)),
                    by |-> r])
<1> DEFINE g == Filled(fs)
           k == FormKept(fs)
           c == render_config(k)
<1>1. IsForm(g) /\ AtMostOne(g.userlist) /\ AtMostOne(g.log)
  BY FilledIsForm
<1>2. FormValid(g) /\ g.template \in {"local", "lan", "public"}
  BY DEF Acceptable, FormValid
<1>3. /\ k.template = g.template /\ k.listen = g.listen /\ k.log = g.log /\ k.output = g.output
      /\ k.userlist = IF g.template = "local" THEN {} ELSE g.userlist
  <2> HIDE DEF g
  <2> QED BY <1>1 DEF FormKept, IsForm, g
<1>4. /\ c.listen = k.listen /\ c.log = k.log
      /\ c.methods = IF k.template = "local" THEN <<"none">> ELSE <<"username">>
      /\ c.userlist = IF k.template = "local" THEN {} ELSE k.userlist
      /\ c.tls.kind = IF k.template = "public" THEN "acme" ELSE "none"
  <2> HIDE DEF k
  <2> QED BY DEF render_config, Plain
<1> HIDE DEF g, k, c
<1>5. g.template = "local" => c.listen.ip = "loopback"
  BY <1>2, <1>3, <1>4 DEF FormValid
<1>6. g.template # "local" => c.userlist = g.userlist /\ g.userlist # {}
  BY <1>2, <1>3, <1>4 DEF FormValid, PublicFormValid
<1>7. Range(<<"none">>) = {"none"} /\ Range(<<"username">>) = {"username"}
  BY DEF Range
<1>8. /\ "none" \in Range(c.methods) => c.listen.ip = "loopback"
      /\ "username" \in Range(c.methods) => c.userlist # {}
  BY <1>2, <1>3, <1>4, <1>5, <1>6, <1>7
<1>9. ASSUME c.tls.kind = "acme"
      PROVE  /\ c.methods = <<"username">>
             /\ \A p \in c.log, u \in c.userlist : \A q \in {k.output, u, Lock(u)} : ~Conflict(q, p)
  <2>1. g.template = "public"
    BY <1>2, <1>3, <1>4, <1>9
  <2>2. RolesApart(g)
    BY <1>2, <2>1 DEF FormValid, PublicFormValid
  <2>3. c.methods = <<"username">> /\ c.log = g.log /\ c.userlist = g.userlist
    BY <1>3, <1>4, <2>1
  <2>4. ASSUME NEW p \in c.log, NEW u \in c.userlist
        PROVE  \A q \in {k.output, u, Lock(u)} : ~Conflict(q, p)
    <3>1. g.userlist = {u} /\ g.log = {p}
      BY <1>1, <2>3, <2>4 DEF AtMostOne
    <3>2. ~Conflict(g.output, p) /\ ~Conflict(u, p) /\ ~Conflict(Lock(u), p)
      BY <2>2, <3>1, LogHasOwnPlace
    <3> QED BY <1>3, <3>2
  <2> QED BY <2>3, <2>4
<1> DEFINE s == [fields |-> fs, form |-> k, config |-> c, by |-> r]
<1>10. s.form = k /\ s.config = c /\ s.by = r
  OBVIOUS
<1> HIDE DEF s
<1>11. Guarded(s)
  BY <1>8, <1>9, <1>10 DEF Guarded
<1> QED BY <1>11 DEF s, c, k

LEMMA WizardStep == WizardInv /\ [WizardNext(Fields)]_wizardVars => WizardInv'
<1> SUFFICES ASSUME WizardInv, [WizardNext(Fields)]_wizardVars PROVE WizardInv'
  OBVIOUS
<1>1. CASE Start
  <2>1. saved = {} /\ saved' = saved
    BY <1>1 DEF Start, WizardInv
  <2> QED BY <2>1 DEF WizardInv
<1>2. CASE BadRequest \/ OtherRequest \/ UNCHANGED wizardVars
  BY <1>2 DEF BadRequest, OtherRequest, wizardVars, WizardInv
<1>3. ASSUME NEW r \in Requests, NEW fs \in Fields, Generate(r, fs) PROVE WizardInv'
  <2>1. saved = {}
    BY <1>3 DEF Generate, WizardInv, Asked
  <2>2. CASE saved' = saved
    BY <2>1, <2>2 DEF WizardInv
  <2>3. CASE saved' # saved
    <3> DEFINE s == [fields |-> fs, form |-> FormKept(fs), config |-> render_config(FormKept(fs)),
                     by |-> r]
    <3>1. Acceptable(fs) /\ wizard' = "done" /\ saved' = saved \cup {s}
      BY <1>3, <2>3 DEF Generate
    <3>2. r.token
      <4>1. route_request(r) = 0
        BY <1>3 DEF Generate
      <4>2. r.token \in BOOLEAN
        BY DEF Requests
      <4> QED BY <4>1, <4>2 DEF route_request
    <3>3. Guarded(s)
      BY <3>1, <3>2, AcceptedIsGuarded
    <3>4. saved' = {s}
      BY <2>1, <3>1
    <3> HIDE DEF s
    <3> QED BY <3>1, <3>3, <3>4 DEF WizardInv
  <2> QED BY <2>2, <2>3
<1> QED BY <1>1, <1>2, <1>3 DEF WizardNext

LEMMA InvGuarded == WizardInv => SavedGuarded
<1> SUFFICES ASSUME WizardInv PROVE SavedGuarded
  OBVIOUS
<1>1. CASE saved = {}
  <2>1. Cardinality({}) = 0
    BY FS_EmptySet
  <2> QED BY <1>1, <2>1 DEF SavedGuarded
<1>2. CASE saved # {}
  <2>1. PICK s : saved = {s} /\ Guarded(s)
    BY <1>2 DEF WizardInv
  <2>2. Cardinality({s}) = 1
    BY FS_Singleton
  <2> QED BY <2>1, <2>2 DEF SavedGuarded, Guarded
<1> QED BY <1>1, <1>2

(***************************************************************************)
(* route_request and wizard_form_from_fields: whatever is imported and     *)
(* whatever fields are submitted, on whichever template's defaults, at     *)
(* most one configuration is saved, for a request with the token; without  *)
(* authentication it listens on loopback, with it there is a list of       *)
(* users, and the public one has a log that is not, under any name, the    *)
(* configuration, that list or its lock, nor in or above one.              *)
(***************************************************************************)
THEOREM SavedIsGuarded ==
    ASSUME NEW CONSTANT o PROVE WizardSpec(o) => []SavedGuarded
<1>1. WizardInit(o) => WizardInv
  BY DEF WizardInit, WizardInv
<1> QED BY <1>1, WizardStep, InvGuarded, PTL DEF WizardSpec

-----------------------------------------------------------------------------
(***************************************************************************)
(* Resolver. The coalescing of lookups and the bound on blocking jobs, for *)
(* any number of callers, names and slots, whatever the caches hold.       *)
(***************************************************************************)
Searching == {"new", "cached", "negative", "join", "follow"}
Lead == {"slot", "lookup", "store", "publish"}

Types ==
    /\ pc \in [Callers -> Searching \cup Lead \cup {"send"} \cup Ended]
    /\ leader \in [Callers -> Callers]
    /\ found \in [Callers -> Results \cup {"none"}]
    /\ inflight \in [CacheKeys -> Callers \cup {NoCaller}]
    /\ channel \in [Callers -> Results \cup {"none", "open", "dropped"}]
    /\ job \in [Callers -> Jobs \ {"orphan"}]
    /\ seen \in [Callers -> SUBSET Callers]

\* A registered channel is that of a caller still leading for the name.
Registered ==
    \A k \in CacheKeys : inflight[k] # NoCaller => /\ pc[inflight[k]] \in Lead
                                                   /\ Name[inflight[k]] = k

\* A channel is open from the registration to the send.
Channels ==
    \A c \in Callers :
        /\ pc[c] \in Searching => channel[c] = "none"
        /\ pc[c] \in Lead \cup {"send"} => channel[c] = "open"
        /\ pc[c] \in {"publish", "send"} => found[c] # "none"
        /\ pc[c] \in Ended => channel[c] # "open"
        /\ pc[c] = "store" => found[c] # "none"
        /\ pc[c] = "follow" => channel[leader[c]] # "none"

Past == \A c \in Callers : \A l \in seen[c] : channel[l] \in Results

DnsInv ==
    /\ Types /\ Registered /\ Channels /\ Past
    /\ OneFlight /\ OutcomeScoped /\ NoFanOut

USE SlotsAssumption

LEMMA DnsStart == Init => DnsInv
  BY DEF Init, DnsInv, Types, Registered, Channels, Past, OneFlight, OutcomeScoped, NoFanOut,
     Leading, Searching, Lead, Ended, Results, Jobs

LEMMA DnsStep == DnsInv /\ [Next]_vars => DnsInv'
<1> SUFFICES ASSUME DnsInv, [Next]_vars PROVE DnsInv'
  OBVIOUS
<1> USE DEF DnsInv, Types, Registered, Channels, Past, OneFlight, OutcomeScoped, NoFanOut,
            Leading, Searching, Lead, Ended, Results, Jobs, Step
<1>1. ASSUME NEW c \in Callers, Begin(c) PROVE DnsInv'
  BY <1>1 DEF Begin
<1>2. ASSUME NEW c \in Callers, Cached(c) PROVE DnsInv'
  <2>1. \E to \in {"ok", "negative"} : pc' = [pc EXCEPT ![c] = to] /\ pc[c] = "cached"
    BY <1>2 DEF Cached
  <2> QED
    BY <1>2, <2>1 DEF Cached
<1>3. ASSUME NEW c \in Callers, NegativelyCached(c) PROVE DnsInv'
  BY <1>3 DEF NegativelyCached
<1>4. ASSUME NEW c \in Callers, JoinOrLead(c) PROVE DnsInv'
  <2> USE <1>4 DEF JoinOrLead
  <2>1. Types'
    <3> Name[c] \in CacheKeys /\ inflight[Name[c]] \in Callers \cup {NoCaller}
      OBVIOUS
    <3>1. CASE inflight[Name[c]] = NoCaller
      <4>1. /\ pc' = [pc EXCEPT ![c] = "slot"]
            /\ inflight' = [inflight EXCEPT ![Name[c]] = c]
            /\ channel' = [channel EXCEPT ![c] = "open"]
            /\ UNCHANGED <<leader, found, job, seen>>
        BY <3>1
      <4>2. pc' \in [Callers -> Searching \cup Lead \cup {"send"} \cup Ended]
        BY <4>1
      <4> QED
        BY <4>1, <4>2
    <3>2. CASE inflight[Name[c]] # NoCaller
      <4>1. /\ pc' = [pc EXCEPT ![c] = "follow"]
            /\ leader' = [leader EXCEPT ![c] = inflight[Name[c]]]
            /\ UNCHANGED <<inflight, channel, found, job, seen>>
        BY <3>2
      <4>2. pc' \in [Callers -> Searching \cup Lead \cup {"send"} \cup Ended]
        BY <4>1
      <4> QED
        BY <3>2, <4>1, <4>2
    <3> QED
      BY <3>1, <3>2
  <2>2. Registered'
    OBVIOUS
  <2>3. Channels'
    OBVIOUS
  <2>4. Past'
    OBVIOUS
  <2>5. OneFlight'
    OBVIOUS
  <2>6. OutcomeScoped' /\ NoFanOut'
    OBVIOUS
  <2> QED
    BY <2>1, <2>2, <2>3, <2>4, <2>5, <2>6
<1>5. ASSUME NEW c \in Callers, Follow(c) PROVE DnsInv'
  <2> USE <1>5 DEF Follow
  <2>1. Types'
    OBVIOUS
  <2>2. Registered'
    OBVIOUS
  <2>3. Channels'
    OBVIOUS
  <2>4. Past'
    OBVIOUS
  <2>5. OneFlight'
    OBVIOUS
  <2>6. OutcomeScoped' /\ NoFanOut'
    OBVIOUS
  <2> QED
    BY <2>1, <2>2, <2>3, <2>4, <2>5, <2>6
<1>6. ASSUME NEW c \in Callers, AcquireSlot(c) PROVE DnsInv'
  BY <1>6 DEF AcquireSlot
<1>7. ASSUME NEW c \in Callers, TakeResult(c) PROVE DnsInv'
  BY <1>7 DEF TakeResult
<1>8. ASSUME NEW c \in Callers, LeaderTimeout(c) PROVE DnsInv'
  BY <1>8 DEF LeaderTimeout, Waiting
<1>9. ASSUME NEW c \in Callers, Store(c) PROVE DnsInv'
  BY <1>9 DEF Store
<1>10. ASSUME NEW c \in Callers, Deregister(c) PROVE DnsInv'
  BY <1>10 DEF Deregister
<1>11. ASSUME NEW c \in Callers, Send(c) PROVE DnsInv'
  BY <1>11 DEF Send
<1>12. ASSUME NEW c \in Callers, Cancel(c) PROVE DnsInv'
  <2> USE <1>12 DEF Cancel, Awaiting
  <2>1. Types'
    <3>1. CASE channel[c] = "open"
      BY <3>1
    <3>2. CASE channel[c] # "open"
      BY <3>2
    <3> QED
      BY <3>1, <3>2
  <2>2. Registered'
    OBVIOUS
  <2>3. Channels'
    OBVIOUS
  <2>4. Past'
    OBVIOUS
  <2>5. OneFlight'
    OBVIOUS
  <2>6. OutcomeScoped' /\ NoFanOut'
    OBVIOUS
  <2> QED
    BY <2>1, <2>2, <2>3, <2>4, <2>5, <2>6
<1>13. ASSUME NEW c \in Callers, NEW how \in {"ok", "error"}, JobEnds(c, how) PROVE DnsInv'
  BY <1>13 DEF JobEnds, callVars
<1>14. CASE CacheExpires
  BY <1>14 DEF CacheExpires, callVars
<1>15. CASE NegativeExpires
  BY <1>15 DEF NegativeExpires, callVars
<1>16. CASE UNCHANGED vars
  BY <1>16 DEF vars, callVars
<1> QED
  BY <1>1, <1>2, <1>3, <1>4, <1>5, <1>6, <1>7, <1>8, <1>9, <1>10, <1>11, <1>12, <1>13, <1>14,
     <1>15, <1>16 DEF Next, Advance

(***************************************************************************)
(* The invariant that carries the coalescing, whatever the callers do.     *)
(***************************************************************************)
THEOREM DnsInvariant == Spec => []DnsInv
  BY DnsStart, DnsStep, PTL DEF Spec

(***************************************************************************)
(* join_or_lead: a leader that has not published is the registered one,    *)
(* so a name has at most one coalesced lookup.                             *)
(***************************************************************************)
THEOREM OneFlightAlways == Spec => []OneFlight
  BY DnsInvariant, PTL DEF DnsInv

(***************************************************************************)
(* publish deregisters before it sends, so an outcome reaches only the     *)
(* requests that were under way.                                           *)
(***************************************************************************)
THEOREM OutcomesAreScoped == Spec => []OutcomeScoped
  BY DnsInvariant, PTL DEF DnsInv

(***************************************************************************)
(* A timed-out leader publishes: followers are sent back to look for       *)
(* themselves only by a leader that was cancelled.                         *)
(***************************************************************************)
THEOREM TimeoutsDoNotFanOut == Spec => []NoFanOut
  BY DnsInvariant, PTL DEF DnsInv

(***************************************************************************)
(* resolve_domain shares lookups soundly: one flight per name, outcomes    *)
(* only for those who asked meanwhile, and timeouts shared too.            *)
(***************************************************************************)
THEOREM CoalescingSound == Spec => []Coalesced
  <1>1. OneFlight /\ OutcomeScoped /\ NoFanOut => Coalesced
    BY DEF Coalesced
  <1> QED
    BY <1>1, OneFlightAlways, OutcomesAreScoped, TimeoutsDoNotFanOut, PTL

-----------------------------------------------------------------------------
\* Without orphans, the threads at work are the jobs that hold a slot.
LEMMA BusyIsRunning == Types => Busy = Running /\ IsFiniteSet(Running)
  <1> SUFFICES ASSUME Types PROVE Busy = Running /\ IsFiniteSet(Running)
    OBVIOUS
  <1>1. Busy = Running
    BY DEF Types, Busy, Running, Jobs
  <1>2. Running \subseteq Callers
    BY DEF Running
  <1> QED
    BY <1>1, <1>2, FS_Subset

LEMMA OccupancyStep == DnsInv /\ LookupsBounded /\ [Next]_vars => LookupsBounded'
<1> SUFFICES ASSUME DnsInv, LookupsBounded, [Next]_vars PROVE LookupsBounded'
  OBVIOUS
<1>0. /\ Types /\ Types'
      /\ Busy = Running /\ IsFiniteSet(Running)
      /\ Busy' = Running' /\ IsFiniteSet(Running')
  <2>1. Types /\ Types'
    BY DnsStep DEF DnsInv
  <2>2. Busy' = Running' /\ Running' \subseteq Callers
    BY <2>1 DEF Types, Busy, Running, Jobs
  <2>3. IsFiniteSet(Running')
    BY <2>2, FS_Subset
  <2> QED
    BY <2>1, <2>2, <2>3, BusyIsRunning
<1>1. CASE Running' \subseteq Running
  <2>1. /\ Cardinality(Running') <= Cardinality(Running)
        /\ Cardinality(Running') \in Nat /\ Cardinality(Running) \in Nat
    BY <1>0, <1>1, FS_Subset, FS_CardinalityType
  <2> QED
    BY <1>0, <2>1 DEF LookupsBounded
<1>2. ASSUME NEW c \in Callers, AcquireSlot(c) PROVE LookupsBounded'
  <2>1. Running' \subseteq Running \cup {c}
    BY <1>0, <1>2 DEF AcquireSlot, Running, Types
  <2>2. /\ IsFiniteSet(Running \cup {c})
        /\ Cardinality(Running \cup {c}) <= Cardinality(Running) + 1
        /\ Cardinality(Running \cup {c}) \in Nat
    <3>1. /\ IsFiniteSet(Running \cup {c})
          /\ Cardinality(Running \cup {c}) =
                IF c \in Running THEN Cardinality(Running) ELSE Cardinality(Running) + 1
      BY <1>0, FS_AddElement
    <3> QED
      BY <1>0, <3>1, FS_CardinalityType
  <2>3. Cardinality(Running') <= Cardinality(Running \cup {c}) /\ Cardinality(Running') \in Nat
    BY <1>0, <2>1, <2>2, FS_Subset, FS_CardinalityType
  <2>4. Cardinality(Running) < LookupSlots /\ Cardinality(Running) \in Nat
    BY <1>0, <1>2, FS_CardinalityType DEF AcquireSlot
  <2> QED
    BY <1>0, <2>2, <2>3, <2>4 DEF LookupsBounded
<1>3. ASSUME NEW c \in Callers, NEW how \in {"ok", "error"}, JobEnds(c, how)
      PROVE Running' \subseteq Running
  BY <1>0, <1>3 DEF JobEnds, Running, Types
<1>4. CASE UNCHANGED job
  BY <1>1, <1>4 DEF Running
<1> QED
  BY <1>1, <1>2, <1>3, <1>4
  DEF Next, Advance, vars, callVars, Begin, Cached, NegativelyCached, JoinOrLead, Follow, TakeResult,
      LeaderTimeout, Store, Deregister, Send, Cancel, CacheExpires, NegativeExpires

(***************************************************************************)
(* system_lookup moves the permit into the job: the threads in getaddrinfo *)
(* stay within the slots, those abandoned by a timeout included.           *)
(***************************************************************************)
THEOREM LookupsStayBounded == Spec => []LookupsBounded
<1>1. Init => LookupsBounded
  <2> SUFFICES ASSUME Init PROVE LookupsBounded
    OBVIOUS
  <2>1. Busy = {}
    BY DEF Init, Busy
  <2> QED
    BY <2>1, FS_EmptySet DEF LookupsBounded
<1> QED
  BY <1>1, OccupancyStep, DnsInvariant, PTL DEF Spec

(***************************************************************************)
(* What the resolver promises about its lookups: they are shared soundly   *)
(* and bounded, whatever times out, is cancelled or never returns.         *)
(***************************************************************************)
THEOREM LookupsAreSound == Spec => []LookupsSound
<1>1. Coalesced /\ LookupsBounded => LookupsSound
  BY DEF LookupsSound
<1> QED
  BY <1>1, CoalescingSound, LookupsStayBounded, PTL

=============================================================================
