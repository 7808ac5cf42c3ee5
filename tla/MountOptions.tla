---------------------------- MODULE MountOptions ----------------------------
(***************************************************************************)
(* parse_mount_options (src/linyaps_box/config.cpp): the words of a        *)
(* mount's option list, each a bit to set, a bit to clear, a kind of       *)
(* propagation, or data for the file system.  A word of flags is the set   *)
(* of its bits.                                                            *)
(***************************************************************************)
EXTENDS Naturals, Sequences

\* What is the name of a file or of a type of file systems: any string.  Those
\* that the code has are named once more because the provers do not see that a
\* literal is a string.
Name == STRING \cup {"", "/", "bind", "dev", "devpts", "proc", "pts", "rootfs", "shm",
                    "sys", "sysfs", "tmpfs"}

FlagsMap ==
  [bind |-> {"BIND"}, defaults |-> {}, dirsync |-> {"DIRSYNC"},
   iversion |-> {"I_VERSION"}, lazytime |-> {"LAZYTIME"}, mand |-> {"MANDLOCK"},
   noatime |-> {"NOATIME"}, nodev |-> {"NODEV"}, nodiratime |-> {"NODIRATIME"},
   noexec |-> {"NOEXEC"}, nosuid |-> {"NOSUID"}, nosymfollow |-> {"NOSYMFOLLOW"},
   rbind |-> {"BIND", "REC"}, relatime |-> {"RELATIME"}, remount |-> {"REMOUNT"},
   ro |-> {"RDONLY"}, silent |-> {"SILENT"}, strictatime |-> {"STRICTATIME"},
   sync |-> {"SYNCHRONOUS"}]

UnsetFlagsMap ==
  [async |-> {"SYNCHRONOUS"}, atime |-> {"NOATIME"}, dev |-> {"NODEV"},
   diratime |-> {"NODIRATIME"}, exec |-> {"NOEXEC"}, loud |-> {"SILENT"},
   noiversion |-> {"I_VERSION"}, nolazytime |-> {"LAZYTIME"}, nomand |-> {"MANDLOCK"},
   norelatime |-> {"RELATIME"}, nostrictatime |-> {"STRICTATIME"}, rw |-> {"RDONLY"},
   suid |-> {"NOSUID"}, symfollow |-> {"NOSYMFOLLOW"}]

PropagationFlagsMap ==
  [rprivate |-> {"PRIVATE", "REC"}, private |-> {"PRIVATE"},
   rslave |-> {"SLAVE", "REC"}, slave |-> {"SLAVE"},
   rshared |-> {"SHARED", "REC"}, shared |-> {"SHARED"},
   runbindable |-> {"UNBINDABLE", "REC"}, unbindable |-> {"UNBINDABLE"}]

Flag == {"BIND", "REC", "REMOUNT", "SILENT", "RDONLY", "NOSUID", "NODEV", "NOEXEC",
         "SYNCHRONOUS", "MANDLOCK", "DIRSYNC", "NOSYMFOLLOW", "NOATIME", "NODIRATIME",
         "RELATIME", "I_VERSION", "STRICTATIME", "LAZYTIME"}

PropagationFlag == {"REC", "PRIVATE", "SLAVE", "SHARED", "UNBINDABLE"}

\* What a word sets and what it clears; the first map that has the word counts.
Sets(opt) == IF opt \in DOMAIN FlagsMap THEN FlagsMap[opt] ELSE {}
Clears(opt) ==
  IF opt \in DOMAIN UnsetFlagsMap \ DOMAIN FlagsMap THEN UnsetFlagsMap[opt] ELSE {}
IsData(opt) ==
  opt \notin DOMAIN FlagsMap \cup DOMAIN UnsetFlagsMap \cup DOMAIN PropagationFlagsMap

\* What has been made of the words so far.
NoOptions == [flags |-> {}, propagation |-> {}, data |-> <<>>]

\* Faulty: flags are assigned, not added.
ParseOptionForgets(acc, opt) ==
  [acc EXCEPT
     !.flags = IF opt \in DOMAIN FlagsMap THEN FlagsMap[opt] ELSE @ \ Clears(opt),
     !.propagation = IF opt \in DOMAIN PropagationFlagsMap
                       THEN @ \cap PropagationFlagsMap[opt] ELSE @,
     !.data = IF IsData(opt) THEN Append(@, opt) ELSE @]

\* One turn of the loop.  The propagation flags are combined with &=, from none:
\* the words of PropagationFlagsMap are taken and have no effect.
ParseOption(acc, opt) ==
  [acc EXCEPT
     !.flags = (@ \cup Sets(opt)) \ Clears(opt),
     !.propagation = IF opt \in DOMAIN PropagationFlagsMap
                       THEN @ \cap PropagationFlagsMap[opt] ELSE @,
     !.data = IF IsData(opt) THEN Append(@, opt) ELSE @]

-----------------------------------------------------------------------------
\* For reference: the last word that speaks of a bit decides it.
LastWord(opts, flag) ==
  \E i \in 1 .. Len(opts) :
    /\ flag \in Sets(opts[i])
    /\ \A j \in (i + 1) .. Len(opts) : flag \notin Clears(opts[j])
=============================================================================
