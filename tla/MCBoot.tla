------------------------------- MODULE MCBoot -------------------------------
(* Instances of Boot for TLC. *)
EXTENDS Boot

\* "/a/b", "/a/b/", "/a/./b", "/a/b/g", "/a", "/c", "/a/../c", "/.", "/", "a" and
\* one that is not in the image; "/a" holds more entries than the ceiling.
MCDests == {<<"", "a", "b">>, <<"", "a", "b", "">>, <<"", "a", ".", "b">>,
            <<"", "a", "b", "g">>, <<"", "a">>, <<"", "c">>, <<"", "a", "..", "c">>,
            <<"", ".">>, <<"", "">>, <<"a">>, <<"", "x">>}

MCDirs == {<<>>, <<"a">>, <<"a", "b">>, <<"a", "b", "g">>, <<"c">>}

MCMount(dest, id) ==
    [destination |-> dest, authToken |-> "t", filesystemID |-> id,
     memoryStoreID |-> "absent", readonly |-> "false", cacheDurationS |-> "0",
     dirPerms |-> "0755", filePerms |-> "0644", vfsCacheMaxSize |-> "1G",
     vfsCacheMode |-> "writes", vfsWriteBack |-> ""]

MCDoc(mounts) ==
    [form |-> "object", schemaVersion |-> "v1alpha", serviceURL |-> "https",
     caCertPEM |-> "pem", hasMounts |-> TRUE, mounts |-> mounts]

MCBase == MCDoc(<<MCMount(<<"", "a", "b">>, "f1"), MCMount(<<"", "c">>, "f2")>>)

\* Every other value of every field of a mount.
MCVariants(m) ==
    {[m EXCEPT !.authToken = ""], [m EXCEPT !.filesystemID = ""],
     [m EXCEPT !.filesystemID = "absent"], [m EXCEPT !.memoryStoreID = "s1"],
     [m EXCEPT !.filesystemID = "absent", !.memoryStoreID = "s1"],
     [m EXCEPT !.filesystemID = "absent", !.memoryStoreID = ""],
     [m EXCEPT !.readonly = "absent"], [m EXCEPT !.readonly = "true"],
     [m EXCEPT !.dirPerms = "755"], [m EXCEPT !.filePerms = "644"],
     [m EXCEPT !.vfsCacheMaxSize = "10"], [m EXCEPT !.vfsCacheMaxSize = "1X"],
     [m EXCEPT !.vfsCacheMode = "async"], [m EXCEPT !.vfsCacheMode = "minimal"]}
    \cup {[m EXCEPT !.cacheDurationS = d] : d \in {"absent", "-1", "3600"}}
    \cup {[m EXCEPT !.vfsWriteBack = w] : w \in {"1s", "0s", "soon"}}

MCDocuments ==
    {MCDoc(<<MCMount(d, "f1"), MCMount(e, "f2")>>) : d \in MCDests, e \in MCDests}
    \cup UNION {{[MCBase EXCEPT !.mounts[i] = v] : v \in MCVariants(MCBase.mounts[i])} : i \in 1..2}
    \cup {[MCBase EXCEPT !.form = f] : f \in {"unreadable", "unknown_field"}}
    \cup {[MCBase EXCEPT !.serviceURL = u] : u \in {"http", "opaque", "hostless"}}
    \cup {[MCBase EXCEPT !.caCertPEM = c] : c \in {"", "text"}}
    \cup {[MCBase EXCEPT !.schemaVersion = "1"], [MCBase EXCEPT !.hasMounts = FALSE, !.mounts = <<>>],
          MCDoc(<<>>), MCDoc(<<MCMount(<<"", "c">>, "f1")>>)}
=============================================================================
