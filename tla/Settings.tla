------------------------------ MODULE Settings ------------------------------
(***************************************************************************)
(* Which configurations reach the store: the checks of PUT /api/config     *)
(* (Runtime.Validate and pathAllowed of internal/runtimeconfig) and those  *)
(* of config.json, which seeds the row on the first launch                 *)
(* (internal/config).  The two differ: the file may name any path, any     *)
(* protocol and any format.  The module closes HotReload: its Offered and  *)
(* Seeds are what these checks let through.                                *)
(*                                                                         *)
(* A document has watch, keywords and sources; a source has the fields of  *)
(* runtimeconfig.Source but its name and its recursive flag.  A path is    *)
(* its elements and whether it begins with a slash.                        *)
(***************************************************************************)
EXTENDS HotReload, SequencesExt

CONSTANTS
    Bodies,      \* the documents administrators send
    Files,       \* what config.json may hold: documents, or NoFile
    NoFile,
    Roots,       \* allowed_log_roots, a set of paths
    WorkingDirs, \* where the process may have been started: element sequences
    Printable,   \* the keyword lists without control characters
    Globs        \* the patterns filepath.Match accepts

NoPath == [rooted |-> FALSE, elements |-> <<>>]
BlankPath == [rooted |-> FALSE, elements |-> <<" ">>]

-----------------------------------------------------------------------------
(* Paths.                                                                  *)

\* filepath.Clean: "." goes, ".." takes its predecessor along.
Clean(p) ==
    LET Walk(done, e) ==
            CASE e = "." -> done
              [] e = ".." /\ done # <<>> /\ Last(done) # ".." -> Front(done)
              [] e = ".." /\ done = <<>> /\ p.rooted -> done
              [] OTHER -> Append(done, e)
    IN  [p EXCEPT !.elements = FoldLeft(Walk, <<>>, @)]

\* How many elements two cleaned paths share from the start.
Shared(p, q) ==
    Cardinality({n \in 1..Len(p.elements) : IsPrefix(SubSeq(p.elements, 1, n), q.elements)})

\* filepath.Rel of cleaned paths fails: one is absolute and the other is
\* not, or where the base lies depends on the working directory.
NoRel(base, to) ==
    \/ base.rooted # to.rooted
    \/ LET n == Shared(base, to)
       IN  n < Len(base.elements) /\ base.elements[n + 1] = ".."

\* filepath.Rel: up from what the base has alone, then down.
Rel(base, to) ==
    LET n == Shared(base, to)
    IN  [i \in 1..(Len(base.elements) - n) |-> ".."]
            \o SubSeq(to.elements, n + 1, Len(to.elements))

\* Mutant of PathAllowed: the submitted path begins with a root.
PathAllowedByPrefix(p) ==
    \/ Roots = {}
    \/ \E root \in Roots :
          p.rooted = root.rooted /\ IsPrefix(root.elements, p.elements)

\* pathAllowed: some root has the path below it.  A root that is the working
\* directory itself counts for nothing.
PathAllowed(p) ==
    \/ Roots = {}
    \/ \E root \in {Clean(r) : r \in Roots} \ {NoPath} :
          /\ ~NoRel(root, Clean(p))
          /\ LET rel == Rel(root, Clean(p)) IN rel = <<>> \/ Head(rel) # ".."

-----------------------------------------------------------------------------
(* Documents.                                                              *)

\* Validate of both packages: a syslog source without protocol is UDP.
WithProto(s) ==
    IF s.type = "syslog" /\ s.proto = "" THEN [s EXCEPT !.proto = "udp"] ELSE s

\* Runtime.Validate of one source, but for its format: that is Valid.
SourceAccepted(s) ==
    \/ s.type = "file" /\ s.path \notin {NoPath, BlankPath} /\ PathAllowed(s.path)
    \/ /\ s.type = "dir" /\ s.path \notin {NoPath, BlankPath} /\ PathAllowed(s.path)
       /\ s.pattern \in Globs
    \/ s.type = "syslog" /\ s.addr # "" /\ s.proto \in {"", "udp", "tcp"}

BodyAccepted(body) ==
    /\ \A i \in DOMAIN body.sources : SourceAccepted(body.sources[i])
    /\ body.keywords \in Printable

\* Config.Validate.
FileAccepted(doc) ==
    \A i \in DOMAIN doc.sources :
        LET s == doc.sources[i]
        IN  \/ s.type \in {"file", "dir"} /\ s.path # NoPath
            \/ s.type = "syslog" /\ s.addr # ""

\* Load: without a file the program goes on with defaults.
DefaultConfig == [watch |-> FALSE, keywords |-> NoKeywords, sources |-> <<>>]
Load(f) == IF f = NoFile THEN DefaultConfig ELSE f

\* Source.Key: what the manager knows a source by.  The path is not cleaned.  No
\* source of another type gets here.
Key(s) ==
    CASE s.type = "file" -> <<"file", s.path>>
      [] s.type = "dir" -> <<"dir", s.path, s.pattern>>
      [] s.type = "syslog" -> <<"syslog", s.proto, s.addr>>

\* A document as the store and the manager handle it.
AsRuntime(doc) ==
    LET Entry(s) == [key |-> Key(s), definition |-> s]
    IN  [doc EXCEPT !.sources = [i \in DOMAIN @ |-> Entry(WithProto(@[i]))]]

\* Store.Set gets past Validate with these.
Submitted == {AsRuntime(b) : b \in {d \in Bodies : BodyAccepted(d)}}

\* Config.RuntimeSeed of every file the program starts with.
RuntimeSeeds == {AsRuntime(d) : d \in {c \in {Load(f) : f \in Files} : FileAccepted(c)}}

ASSUME SettingsAssumption == Offered = Submitted /\ Seeds = RuntimeSeeds

\* A path is a record of its elements, and the decoder fills all fields.
ASSUME DocumentsAssumption ==
    LET Path == [rooted : BOOLEAN, elements : Seq(STRING)]
    IN  /\ Roots \subseteq Path /\ WorkingDirs \subseteq Seq(STRING)
        /\ \A body \in Bodies :
              /\ DOMAIN body = {"watch", "keywords", "sources"}
              /\ \A i \in DOMAIN body.sources :
                    /\ {"type", "proto"} \subseteq DOMAIN body.sources[i]
                    /\ body.sources[i].path \in Path

-----------------------------------------------------------------------------
(* Properties.                                                             *)

\* Where a path leads in a process that was started in cwd.
Resolve(p, cwd) ==
    Clean([rooted |-> TRUE,
           elements |-> IF p.rooted THEN p.elements ELSE cwd \o p.elements]).elements

InRoots(s) ==
    \/ s.type = "syslog" \/ Roots = {}
    \/ \E root \in Roots : \A cwd \in WorkingDirs :
          IsPrefix(Resolve(root, cwd), Resolve(s.path, cwd))

\* docs/ROADMAP.md:76: "a settings edit cannot point a file source at a path
\* outside the configured roots".  Once an edit has been applied no reader is
\* at work outside, wherever the process was started: neither one of the edit
\* nor one that config.json, whose paths nobody checks, had put there.
EditsKeepReadersInRoots ==
    mu = Nobody /\ applied # NoRuntime /\ applied \notin Seeds =>
        \A s \in Slots :
            reader[s].phase # "returned" => InRoots(reader[s].source.definition)
=============================================================================
