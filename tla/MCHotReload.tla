---------------------------- MODULE MCHotReload -----------------------------
(* Instances of HotReload and Settings for TLC: a file and a syslog        *)
(* listener, edits that Validate accepts and edits that it has to refuse.  *)
EXTENDS Settings

CONSTANTS good, noparser,  \* formats: a known one, one no parser accepts
          none, some,      \* keyword lists
          control          \* a list with a control character

Log == [rooted |-> TRUE, elements |-> <<"logs", "a">>]
\* Up to the directory above the working directory, and down again.
Archive == [rooted |-> FALSE, elements |-> <<".", "..", "old", "a">>]
Escape == [rooted |-> TRUE, elements |-> <<"logs", "..", "etc">>]
Above == [rooted |-> FALSE, elements |-> <<"..", "old", "..", "..", "a">>]

Src(type, path, addr, proto) ==
    [type |-> type, path |-> path, pattern |-> "", addr |-> addr, proto |-> proto,
     compressed |-> FALSE, format |-> good]
File(path) == Src("file", path, "", "")
Syslog(proto) == Src("syslog", NoPath, "a", proto)
Archived(s) == [s EXCEPT !.compressed = TRUE]
Unparsable(s) == [s EXCEPT !.format = noparser]
Doc(w, l, s) == [watch |-> w, keywords |-> l, sources |-> s]

\* Accepted.  The last one lists a file twice; only the first entry counts.
GoodBodies ==
    { Doc(TRUE, none, <<File(Log), Syslog("")>>),
      Doc(TRUE, some, <<File(Log)>>),
      Doc(FALSE, none, <<File(Log)>>),
      Doc(TRUE, none, <<Archived(File(Log)), File(Log), File(Archive)>>) }

\* Refused, each for a reason of its own.
BadBodies ==
    { Doc(TRUE, none, <<s>>) :
        s \in { File(BlankPath), File(Escape), File(Above),
                [File(Log) EXCEPT !.type = "dir", !.pattern = "["],
                [File(Log) EXCEPT !.type = "pipe"],
                Unparsable(File(Log)), Syslog("both") } }
    \cup { Doc(TRUE, control, <<File(Log)>>) }

MCBodies == GoodBodies \cup BadBodies

\* A first launch without config.json, and one with a file that the panel
\* would refuse.
MCFiles == { NoFile, Doc(TRUE, some, <<Unparsable(File(Log)), File(Above)>>) }

MCRoots == { [rooted |-> TRUE, elements |-> <<"logs">>],
             [rooted |-> FALSE, elements |-> <<"..", "old">>] }
MCWorkingDirs == { <<>>, <<"srv", "app">> }

MCDocuments == MCBodies \cup (MCFiles \ {NoFile})
MCDefinitions ==
    UNION { {WithProto(d.sources[i]) : i \in DOMAIN d.sources} : d \in MCDocuments }
MCKeys == {Key(s) : s \in {d \in MCDefinitions : d.type # "pipe"}}
MCStartable == {s \in MCDefinitions : s.format = good}
MCMortal == {s \in MCDefinitions : s.type = "syslog"}

MCThreads == Handlers \cup {Main, Signal}

=============================================================================
