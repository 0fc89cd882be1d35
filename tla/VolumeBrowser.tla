---------------------------- MODULE VolumeBrowser ----------------------------
(***************************************************************************)
(* Browsing and editing the files of a container.  Directories, files and  *)
(* saves are asked for in any order and each answer is taken as it comes.  *)
(* A path is the sequence of its parts.                                    *)
(***************************************************************************)
EXTENDS Sequences, SequencesExt, FiniteSets

CONSTANTS Dirs,    \* the directories there are
          Mounts,  \* those a volume is mounted at
          Files,   \* the files, each a path
          Binary,  \* those of them that are not text
          NoFile, MaxAsked \* bound: requests under way

VARIABLES currentPath, \* the directory listed, or NoFile before the first
          listed,      \* the directory the entries are of, or NoFile for none
          listLoading,
          file,        \* fileContent: its path and the edit it was read or saved with
          edited,      \* editedContent: the file it is of, and which edit
          askedDirs, askedFiles, askedSaves, \* requests under way
          swapped      \* a save was answered under another file than its own

browserVars == <<currentPath, listed, listLoading, file, edited, askedDirs, askedFiles,
                 askedSaves, swapped>>

\* What was read from a file, and what the user made of it.
Edits == {"read", "typed", "retyped"}

Text(f, edit) == [path |-> f, edit |-> edit]

ASSUME NoFileAssumption == NoFile \notin {Text(f, edit) : f \in Files \cup {NoFile}, edit \in Edits}

asked == Cardinality(askedDirs) + Cardinality(askedFiles) + Cardinality(askedSaves)

-----------------------------------------------------------------------------

BrowserInit ==
  /\ currentPath = NoFile /\ listed = NoFile /\ listLoading = FALSE
  /\ file = NoFile /\ edited = NoFile
  /\ askedDirs = {} /\ askedFiles = {} /\ askedSaves = {}
  /\ swapped = FALSE

NothingOpen == file' = NoFile /\ edited' = NoFile /\ swapped' = FALSE

navigateTo(d) ==
  /\ asked < MaxAsked
  /\ askedDirs' = askedDirs \cup {d}
  /\ listLoading' = TRUE
  /\ NothingOpen
  /\ UNCHANGED <<currentPath, listed, askedFiles, askedSaves>>

\* A mount or the root, the parent, a breadcrumb, or an entry of the list.
Navigate ==
  /\ file = NoFile
  /\ \/ currentPath = NoFile /\ \E d \in Mounts \cup {<<>>} : navigateTo(d)
     \/ /\ currentPath # NoFile
        /\ \/ currentPath # <<>> /\ navigateTo(Front(currentPath))
           \/ \E d \in Dirs : IsPrefix(d, currentPath) /\ navigateTo(d)
           \/ ~listLoading /\ \E d \in Dirs : listed # NoFile /\ d # <<>> /\ Front(d) = listed /\ navigateTo(d)

DirAnswer(d) ==
  /\ askedDirs' = askedDirs \ {d}
  /\ currentPath' = d
  /\ listed' = d
  /\ listLoading' = FALSE
  /\ UNCHANGED <<file, edited, askedFiles, askedSaves, swapped>>

\* No entries, under the path there was.
DirFailed(d) ==
  /\ askedDirs' = askedDirs \ {d}
  /\ listed' = NoFile
  /\ listLoading' = FALSE
  /\ UNCHANGED <<currentPath, file, edited, askedFiles, askedSaves, swapped>>

openFile(f) ==
  /\ file = NoFile /\ ~listLoading
  /\ listed # NoFile /\ Front(f) = listed
  /\ asked < MaxAsked
  /\ askedFiles' = askedFiles \cup {f}
  /\ UNCHANGED <<currentPath, listed, listLoading, file, edited, askedDirs, askedSaves, swapped>>

\* A fault: an edit that is there is kept.
OpenedKeepingEdit(f) ==
  /\ file' = Text(f, "read")
  /\ edited' = IF edited = NoFile THEN Text(f, "read") ELSE edited

\* Both are set, whatever is open by now.
Opened(f) ==
  /\ file' = Text(f, "read")
  /\ edited' = Text(f, "read")

FileAnswer(f) ==
  /\ askedFiles' = askedFiles \ {f}
  /\ Opened(f)
  /\ swapped' = FALSE
  /\ UNCHANGED <<currentPath, listed, listLoading, askedDirs, askedSaves>>

\* A file that cannot be read closes the one that is open.
FileFailed(f) ==
  /\ askedFiles' = askedFiles \ {f}
  /\ NothingOpen
  /\ UNCHANGED <<currentPath, listed, listLoading, askedDirs, askedSaves>>

\* Typed into the text that is there, or into an empty editor.
setEditedContent(edit) ==
  /\ file # NoFile
  /\ file.path \notin Binary
  /\ edited' = Text(IF edited = NoFile THEN NoFile ELSE edited.path, edit)
  /\ UNCHANGED <<currentPath, listed, listLoading, file, askedDirs, askedFiles, askedSaves, swapped>>

isDirty == file # NoFile /\ edited # NoFile /\ edited # file

\* The button is there while something changed, and not enabled while saving.
saveFile ==
  /\ isDirty
  /\ askedSaves = {}
  /\ asked < MaxAsked
  /\ askedSaves' = {[to |-> file.path, text |-> edited, swapped |-> swapped]}
  /\ UNCHANGED <<currentPath, listed, listLoading, file, edited, askedDirs, askedFiles, swapped>>

\* The file of the save is open again, under whatever is edited by now.
FileSaved(r) ==
  /\ askedSaves' = askedSaves \ {r}
  /\ file' = Text(r.to, r.text.edit)
  /\ swapped' = (swapped \/ file = NoFile \/ file.path # r.to)
  /\ UNCHANGED <<currentPath, listed, listLoading, edited, askedDirs, askedFiles>>

FileNotSaved(r) ==
  /\ askedSaves' = askedSaves \ {r}
  /\ UNCHANGED <<currentPath, listed, listLoading, file, edited, askedDirs, askedFiles, swapped>>

closeFile ==
  /\ file # NoFile
  /\ NothingOpen
  /\ UNCHANGED <<currentPath, listed, listLoading, askedDirs, askedFiles, askedSaves>>

BrowserNext ==
  \/ Navigate
  \/ \E d \in askedDirs : DirAnswer(d) \/ DirFailed(d)
  \/ \E f \in Files : openFile(f)
  \/ \E f \in askedFiles : FileAnswer(f) \/ FileFailed(f)
  \/ \E edit \in Edits \ {"read"} : setEditedContent(edit)
  \/ saveFile \/ closeFile
  \/ \E r \in askedSaves : FileSaved(r) \/ FileNotSaved(r)

BrowserSpec == BrowserInit /\ [][BrowserNext]_browserVars

-----------------------------------------------------------------------------

\* No file is written with the text of another one, unless a save was answered when its
\* file had been left: that answer opens the file over what is edited by now.
EditIsOfFile == \A r \in askedSaves : r.to = r.text.path \/ r.swapped

=============================================================================
