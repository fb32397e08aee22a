-------------------------- MODULE MCPersonalFiles --------------------------
(* Two users and the public profile share a folder name.  Their files      *)
(* collide with each other and with the new profile, a directory collides  *)
(* with a directory and with a file.                                       *)
EXTENDS PersonalFiles

E(o, p) == [owner |-> o, path |-> p]
TheProfiles == <<"ann", "bob", "public">>
TheSorted == <<E("ann", <<"Docs">>), E("ann", <<"Docs", "a">>), E("ann", <<"Docs", "ini">>),
               E("ann", <<"Docs", "sub">>), E("ann", <<"Docs", "sub", "a">>),
               E("bob", <<"Docs">>), E("bob", <<"Docs", "a">>), E("bob", <<"Docs", "lnk">>),
               E("bob", <<"Docs", "sub">>),
               E("public", <<"Docs">>), E("public", <<"Docs", "a">>)>>
TheKind == [e \in {TheSorted[i] : i \in 1..Len(TheSorted)} |->
               CASE Len(e.path) = 1 -> "folder"
                 [] e = E("ann", <<"Docs", "ini">>) -> "ini"
                 [] e = E("ann", <<"Docs", "sub">>) -> "dir"
                 [] e = E("bob", <<"Docs", "lnk">>) -> "shortcut"
                 [] e = E("bob", <<"Docs", "sub">>) -> "link"
                 [] OTHER -> "file"]
TheNewFiles == [p \in {[scope |-> "personal", names |-> <<Plain("Docs"), Plain("a")>>]} |-> "new"]
=============================================================================
