---------------------- MODULE SambaConfigurationProofs ----------------------
(***************************************************************************)
(* What holds of smb.conf and of its reader for any lines, any default      *)
(* settings, and any number of starts and of files of the user.            *)
(***************************************************************************)
EXTENDS SambaConfiguration, TLAPS

(* ClientFollowsFile is not inductive: a task that fails ends without a    *)
(* reset.  But such a task has not written yet, and until it writes the     *)
(* client that was up to date stays so.  Nothing runs without a process.   *)
UnwrittenIsRead ==
  /\ task \in {"none", "read", "open"} /\ initialised => client = file
  /\ ~up => task = "none"

(* A task that has read the external file as it is now holds its settings, *)
(* of which write() has printed some.  A task that has not writes the       *)
(* default settings beside an external file only if that was passed over,   *)
(* and never where one has been copied, since then there is a file.  A      *)
(* process that is not up has no task.                                     *)
Copying ==
  /\ copied \/ fromExternal => hasExternal
  /\ copied => exists
  /\ task \in {"open", "write"} =>
       IF fromExternal THEN config = external \cap Settings
       ELSE ~copied /\ (hasExternal => passedOver)
  /\ task = "write" => exists /\ file \cup unwritten = config
  /\ ~up => task = "none"

CopyInv == Copying /\ ExternalIsFollowed

(* Every value that the variables take is of its kind: above all, smb.conf *)
(* and mConfigurations hold settings only, whatever the user wrote.        *)
THEOREM ConfigurationTypeOK == Spec => []TypeOK
<1>1. Init => TypeOK
  <2>1. 0 \in 0..MaxStarts /\ 0 \in 0..MaxPuts
    BY SettingsAssumption
  <2>2. Init => file \subseteq Settings /\ external \subseteq Lines
                /\ config \subseteq Settings /\ unwritten \subseteq Settings
                /\ client \subseteq Settings
    BY DEF Init
  <2> QED
    BY <2>1, <2>2 DEF Init, TypeOK
<1>2. TypeOK /\ [Next]_vars => TypeOK'
  <2> SUFFICES ASSUME TypeOK, [Next]_vars PROVE TypeOK'
    OBVIOUS
  <2> USE SettingsAssumption DEF TypeOK, folders, clientVars, copyVars
  <2>1. CASE Start
    <3>1. PICK ready \in BOOLEAN :
            /\ SyncFromExternal(ready) \/ FlushDefault(ready)
            /\ passedOver' = (passedOver \/ (hasExternal /\ ~ready /\ ~exists))
      BY <2>1, Zenon DEF Start
    <3>2. passedOver' \in BOOLEAN
      BY <3>1, Zenon
    <3>3. config' \subseteq Settings /\ task' \in {"read", "open", "none"}
      BY <3>1 DEF SyncFromExternal, FlushDefault
    <3>4. up' = TRUE /\ fromExternal' = FALSE /\ starts' \in 0..MaxStarts
          /\ UNCHANGED <<folders, unwritten, clientVars, copied, puts>>
      BY <2>1 DEF Start
    <3> QED
      BY <3>2, <3>3, <3>4
  <2>2. CASE Read
    BY <2>2 DEF Read
  <2>3. CASE ReadFails
    BY <2>3 DEF ReadFails
  <2>4. CASE OpenForWriting
    BY <2>4 DEF OpenForWriting, Dated
  <2>5. CASE OpenFails
    BY <2>5 DEF OpenFails
  <2>6. CASE PrintEntry
    BY <2>6 DEF PrintEntry, Dated
  <2>7. CASE WriteEnds
    BY <2>7 DEF WriteEnds, Copied
  <2>8. CASE OnConfigurationChanged
    BY <2>8 DEF OnConfigurationChanged, Reset
  <2>9. CASE OnAvailable
    BY <2>9 DEF OnAvailable, Reset
  <2>10. CASE PutExternal
    <3>1. passedOver' \in BOOLEAN
      BY <2>10, Zenon DEF PutExternal
    <3>2. /\ hasExternal' = TRUE /\ newer' \in BOOLEAN /\ external' \subseteq Lines
          /\ puts' \in 0..MaxPuts /\ fromExternal' = FALSE /\ copied' = FALSE
          /\ UNCHANGED <<exists, file, config, task, unwritten, up, clientVars, starts>>
      BY <2>10 DEF PutExternal
    <3> QED
      BY <3>1, <3>2
  <2>11. CASE RemoveExternal
    BY <2>11 DEF RemoveExternal
  <2>12. CASE Kill
    BY <2>12 DEF Kill, Copied
  <2>13. CASE UNCHANGED vars
    BY <2>13 DEF vars
  <2> QED
    BY <2>1, <2>2, <2>3, <2>4, <2>5, <2>6, <2>7, <2>8, <2>9, <2>10, <2>11,
       <2>12, <2>13 DEF Next
<1> QED
  BY <1>1, <1>2, PTL DEF Spec

(* The listener of the task resets the client after every write, also one  *)
(* that a full disk cut short, and a task that fails earlier has changed   *)
(* nothing that the client read.                                           *)
THEOREM ClientFollowsFileAlways == Spec => []ClientFollowsFile
<1>1. Init => UnwrittenIsRead
  BY DEF Init, UnwrittenIsRead
<1>2. UnwrittenIsRead /\ TypeOK /\ [Next]_vars => UnwrittenIsRead'
  <2> SUFFICES ASSUME UnwrittenIsRead, TypeOK, [Next]_vars
               PROVE  UnwrittenIsRead'
    OBVIOUS
  <2> USE DEF UnwrittenIsRead, folders, clientVars, copyVars
  <2>1. CASE Start
    BY <2>1 DEF Start, SyncFromExternal, FlushDefault, FindsNewer, TypeOK
  <2>2. CASE Read \/ ReadFails \/ OpenFails
    BY <2>2 DEF Read, ReadFails, OpenFails
  <2>3. CASE OpenForWriting \/ PrintEntry \/ WriteEnds
    <3>1. task' \in {"write", "posted"}
      BY <2>3 DEF OpenForWriting, PrintEntry, WriteEnds
    <3>2. up' = up /\ up
      BY <2>3 DEF OpenForWriting, PrintEntry, WriteEnds
    <3> QED
      BY <3>1, <3>2
  <2>4. CASE OnConfigurationChanged \/ OnAvailable
    BY <2>4 DEF OnConfigurationChanged, OnAvailable, Reset
  <2>5. CASE PutExternal \/ RemoveExternal
    <3>1. UNCHANGED <<file, task, up, clientVars>>
      BY <2>5 DEF PutExternal, RemoveExternal
    <3> QED
      BY <3>1
  <2>6. CASE Kill
    BY <2>6 DEF Kill
  <2>7. CASE UNCHANGED vars
    BY <2>7 DEF vars
  <2> QED
    BY <2>1, <2>2, <2>3, <2>4, <2>5, <2>6, <2>7 DEF Next
<1>3. UnwrittenIsRead => ClientFollowsFile
  BY DEF UnwrittenIsRead, ClientFollowsFile
<1> QED
  BY <1>1, <1>2, <1>3, ConfigurationTypeOK, PTL DEF Spec

(* What the user put is there whole once it has been copied, since the      *)
(* default settings are written only where there is no file; and a start    *)
(* that writes them beside an external file had found that not to be newer, *)
(* so that it was passed over before, or could not see it.                  *)
THEOREM ExternalIsFollowedAlways == Spec => []ExternalIsFollowed
<1>1. Init => CopyInv
  BY DEF Init, CopyInv, Copying, ExternalIsFollowed
<1>2. CopyInv /\ TypeOK /\ [Next]_vars => CopyInv'
  <2> SUFFICES ASSUME TypeOK, Copying, ExternalIsFollowed, [Next]_vars
               PROVE  Copying' /\ ExternalIsFollowed'
    BY DEF CopyInv
  <2> USE DEF Copying, ExternalIsFollowed, folders, clientVars, copyVars
  <2>1. CASE Start
    <3>1. PICK ready \in BOOLEAN :
            /\ SyncFromExternal(ready) \/ FlushDefault(ready)
            /\ passedOver' = (passedOver \/ (hasExternal /\ ~ready /\ ~exists))
      BY <2>1 DEF Start
    <3>2. /\ task = "none" /\ fromExternal' = FALSE /\ up'
          /\ UNCHANGED <<exists, file, hasExternal, external, newer, unwritten, copied>>
      BY <2>1 DEF Start
    <3>3. CASE SyncFromExternal(ready)
      BY <3>1, <3>2, <3>3 DEF SyncFromExternal
    <3>4. CASE FlushDefault(ready) /\ exists
      BY <3>1, <3>2, <3>4 DEF FlushDefault
    <3>5. CASE FlushDefault(ready) /\ ~exists
      <4>1. task' = "open" /\ ~copied
        BY <3>5 DEF FlushDefault
      <4>2. hasExternal => passedOver'
        BY <3>1, <3>2, <3>5, <4>1 DEF FlushDefault, FindsNewer
      <4> QED
        BY <3>1, <3>2, <4>1, <4>2
    <3> QED
      BY <3>1, <3>3, <3>4, <3>5
  <2>2. CASE Read \/ ReadFails
    BY <2>2 DEF Read, ReadFails
  <2>3. CASE OpenForWriting
    BY <2>3 DEF OpenForWriting
  <2>4. CASE PrintEntry
    BY <2>4 DEF PrintEntry
  <2>5. CASE WriteEnds
    BY <2>5 DEF WriteEnds, Copied
  <2>6. CASE OnConfigurationChanged \/ OnAvailable
    BY <2>6 DEF OnConfigurationChanged, OnAvailable, Reset
  <2>7. CASE PutExternal
    BY <2>7 DEF PutExternal
  <2>8. CASE RemoveExternal
    BY <2>8 DEF RemoveExternal
  <2>9. CASE Kill
    <3>1. CASE task = "write"
      BY <2>9, <3>1 DEF Kill, Copied
    <3>2. CASE task # "write"
      BY <2>9, <3>2 DEF Kill
    <3> QED
      BY <3>1, <3>2
  <2>10. CASE OpenFails
    BY <2>10 DEF OpenFails
  <2>11. CASE UNCHANGED vars
    BY <2>11 DEF vars
  <2> QED
    BY <2>1, <2>2, <2>3, <2>4, <2>5, <2>6, <2>7, <2>8, <2>9, <2>10, <2>11
    DEF Next
<1>3. CopyInv => ExternalIsFollowed
  BY DEF CopyInv
<1> QED
  BY <1>1, <1>2, <1>3, ConfigurationTypeOK, PTL DEF Spec
=============================================================================
