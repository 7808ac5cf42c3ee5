---------------------------- MODULE ConfigParser ----------------------------
(***************************************************************************)
(* config::parse (src/linyaps_box/config.cpp), as far as what it accepts   *)
(* and the list of mounts go: the version is compared with 1.2.0           *)
(* (utils/semver.cpp), the sections before the mounts are read, and then   *)
(* the mounts one option at a time.                                        *)
(*                                                                         *)
(* A mount_t has no initialisers for its flags: without "options" they     *)
(* are whatever the memory held.                                           *)
(***************************************************************************)
EXTENDS MountOptions

CONSTANTS
  Documents,  \* the configuration files considered
  Garbage     \* what the two words of flags of a new mount_t may hold

\* std::optional: a set of at most one element.
Optional(S) == {s \in SUBSET S : \A x, y \in s : x = y}

\* A path is the sequence of its parts, beginning with "/" if it is absolute,
\* as std::filesystem::path iterates over it.
Path == Seq(Name)

Version == [major : Nat, minor : Nat, patch : Nat]

Entry == [source : Optional(Path), destination : Optional(Path), type : Name,
          options : Optional(Seq(STRING))]

Process == [uid : Nat, gid : Nat, additionalGids : Optional(SUBSET Nat)]

Document == [version : Version, mounts : Seq(Entry), process : Process]

Uninitialised == [flags : SUBSET Flag, propagation : SUBSET PropagationFlag]

\* config::mount_t
MountT == [source : Optional(Path), destination : Optional(Path), type : Name,
           flags : SUBSET Flag, propagation : SUBSET PropagationFlag,
           data : Seq(STRING)]

ASSUME DocumentsAssumption == Documents \subseteq Document
ASSUME GarbageAssumption == Garbage \subseteq Uninitialised

VARIABLES
  doc,     \* the file
  parser,  \* where parse_1_2_0 is
  parsed,  \* how many options of the current entry are parsed
  acc,     \* what parse_mount_options has made of them
  list     \* config::mounts

pvars == <<doc, parser, parsed, acc, list>>

ParserTypeOK ==
  /\ doc \in Documents
  /\ parser \in {"version", "sections", "mounts", "parsed", "failed"}
  /\ parsed \in Nat
  /\ acc.flags \subseteq Flag /\ acc.propagation \subseteq PropagationFlag
  /\ list \in Seq(MountT)
  /\ Len(list) <= Len(doc.mounts)

PInit ==
  /\ doc \in Documents
  /\ parser = "version"
  /\ parsed = 0
  /\ acc = NoOptions
  /\ list = <<>>

-----------------------------------------------------------------------------
Supported == [major |-> 1, minor |-> 2, patch |-> 0]

\* semver::is_compatible_with: its early returns in their order.
IsCompatibleWith(v, other) ==
  /\ v.major = other.major
  /\ \/ v.minor > other.minor
     \/ v.minor = other.minor /\ v.patch >= other.patch

CheckVersion ==
  /\ parser = "version"
  /\ parser' = IF IsCompatibleWith(Supported, doc.version) THEN "sections" ELSE "failed"
  /\ UNCHANGED <<doc, parsed, acc, list>>

\* process, namespaces, mappings and hooks.
ParseSections ==
  /\ parser = "sections"
  /\ parser' = "mounts"
  /\ UNCHANGED <<doc, parsed, acc, list>>

\* The entry the loop over "mounts" has come to.
Current == doc.mounts[Len(list) + 1]
MoreEntries == parser = "mounts" /\ Len(list) < Len(doc.mounts)

ParseMountOption ==
  /\ MoreEntries
  /\ \E opts \in Current.options :
       /\ parsed < Len(opts)
       /\ acc' = ParseOption(acc, opts[parsed + 1])
  /\ parsed' = parsed + 1
  /\ UNCHANGED <<doc, parser, list>>

MountOf(entry, flags, propagation, data) ==
  [source |-> entry.source, destination |-> entry.destination, type |-> entry.type,
   flags |-> flags, propagation |-> propagation, data |-> data]

\* mounts.push_back(mount), with the options or without any.
PushMount ==
  /\ MoreEntries
  /\ \/ /\ \E opts \in Current.options : parsed = Len(opts)
        /\ list' = Append(list, MountOf(Current, acc.flags, acc.propagation, acc.data))
     \/ /\ Current.options = {}
        /\ \E g \in Garbage :
             list' = Append(list, MountOf(Current, g.flags, g.propagation, <<>>))
  /\ parsed' = 0
  /\ acc' = NoOptions
  /\ UNCHANGED <<doc, parser>>

MountsParsed ==
  /\ parser = "mounts" /\ Len(list) = Len(doc.mounts)
  /\ parser' = "parsed"
  /\ UNCHANGED <<doc, parsed, acc, list>>

\* A section that is missing or of the wrong type, an entry of env without
\* '=', a namespace without type or of an unknown one: an exception.
ParserThrows ==
  /\ parser \in {"version", "sections", "mounts"}
  /\ parser' = "failed"
  /\ UNCHANGED <<doc, parsed, acc, list>>

PNext ==
  \/ CheckVersion \/ ParseSections \/ ParseMountOption \/ PushMount
  \/ MountsParsed \/ ParserThrows

PSpec == PInit /\ [][PNext]_pvars

-----------------------------------------------------------------------------
\* Of two options that contradict each other the later one decides, whatever
\* stands between them: a flag is in a parsed mount iff some option sets it
\* and none after that clears it.
LastOptionDecides ==
  \A k \in 1 .. Len(list) :
    \A opts \in doc.mounts[k].options :
      list[k].flags = {f \in Flag : LastWord(opts, f)}
=============================================================================
