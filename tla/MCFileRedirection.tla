------------------------ MODULE MCFileRedirection ------------------------
(* An instance of FileRedirection for TLC: the game's directory g, a rule for
   what is below g/s, a deeper one for g/s/k, and one for t, where the first
   leads. *)
EXTENDS FileRedirection

CONSTANTS t1, t2

MCNames == {"g", "s", "S", "k", "x", "t", "u", "v", ".", ".."}
MCLowerCase == [n \in MCNames |-> IF n = "S" THEN "s" ELSE n]
MCGameDir == <<"g">>

Relative(names) == [ns |-> "none", form |-> "relative", names |-> names]
Rooted(names) == [ns |-> "none", form |-> "rooted", names |-> names]
Win(names) == Drive("none", names)
Nt(names) == Drive("nt", names)
Entry(source, target, directory) ==
    [source |-> source, target |-> target, directory |-> directory]
Chain == <<Entry(Relative(<<"s">>), Win(<<"t">>), TRUE),
           Entry(Drive("extended", <<"t">>), Win(<<"u">>), TRUE),
           Entry(Win(<<"g", "s", "k">>), Relative(<<"v">>), TRUE)>>
OneFile == <<Entry(Rooted(<<"t">>), Win(<<"u">>), TRUE),
             Entry(Win(<<"g", "S", "x">>), Win(<<"v", "x">>), FALSE),
             Entry(Win(<<"g", "s", "x">>), Win(<<"u", "x">>), FALSE)>>
MCConfigs == {[rules |-> Chain, root |-> Disabled],
              [rules |-> OneFile, root |-> Win(<<"t">>)],
              [rules |-> <<>>, root |-> Disabled]}
MCDataRoots == <<<<"u">>>>

Mine == {"CreateFileW", "MoveFileW", "GetFileAttributesW", "CopyFileW", "ReplaceFileW",
         "DeleteFileW", "RemoveDirectoryW", "CreateDirectoryW", "FindFirstFileW"}
System(kernelbase, refused, enables) ==
    [kernelbase |-> kernelbase, kernel32 |-> Mine, refused |-> refused, enables |-> enables,
     ntdll |-> NtOpeners \cup {"NtSetInformationFile", "NtQueryAttributesFile"}]
MCSystems == {System({}, {}, TRUE), System(Mine, {"CreateFileW", "MoveFileW"}, TRUE),
              System(Mine, {"NtOpenFile"}, TRUE), System(Mine, {}, FALSE)}

Call(api, kind, paths) == [api |-> api, kind |-> kind, paths |-> paths]
MCRequests ==
    {Call("CreateFileW", "create", <<Win(<<"g", "S", "k", "x">>)>>),
     Call("CreateFileW", "create", <<Relative(<<"k", "..", "s", "x">>)>>),
     Call("CreateFileW", "create", <<Win(<<"g", "s", "v", "x">>)>>),
     Call("CreateFileW", "look", <<Rooted(<<"g", "s", "x">>)>>),
     Call("NtCreateFile", "create", <<Nt(<<"g", "s", "x">>)>>),
     Call("GetFileAttributesW", "look", <<Drive("extended", <<"t", "x">>)>>),
     Call("FindFirstFileW", "look", <<Win(<<"g", "s">>)>>),
     Call("DeleteFileW", "remove", <<Win(<<"u", "x">>)>>),
     Call("RemoveDirectoryW", "rmdir", <<Win(<<"g", "s">>)>>),
     Call("MoveFileW", "move", <<Win(<<"g", "s", "v">>), Win(<<"u", "v">>)>>),
     Call("CreateDirectoryW", "make", <<Win(<<"g", "s">>)>>),
     Call("CopyFileW", "copy", <<Win(<<"t", "x">>), Win(<<"g", "s", "k">>)>>),
     Call("MoveFileW", "move", <<Win(<<"g", "s", "x">>), Win(<<"u", "x">>)>>),
     Call("ReplaceFileW", "replace",
          <<Win(<<"g", "s", "x">>), Win(<<"g", "s", "k", "x">>), Win(<<"u", "x">>)>>)}

MCPlaces ==
    LET deep == {<<"g", "s", "k", "x">>, <<"g", "s", "x">>, <<"t", "k", "x">>, <<"t", "x">>,
                 <<"u", "x">>, <<"u", "k", "x">>, <<"t", "v", "x">>, <<"u", "v", "x">>,
                 <<"g", "s", "v", "x">>, <<"v", "x">>, <<"g", "v", "x">>}
    IN UNION {Prefixes(p) \ {<<>>} : p \in deep}
==========================================================================
