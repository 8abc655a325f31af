---------------------------- MODULE MCFileSystem ----------------------------
(* FileSystem for TLC: files and directories one and two levels below "/". *)
EXTENDS FileSystem

Abs(s) == [abs |-> TRUE, elems |-> s]
Rel(s) == [abs |-> FALSE, elems |-> s]

X == Abs(<<"x">>)
XY == Abs(<<"x", "y">>)
Y == Rel(<<"y">>)

SomeRequests ==
  {<<"creat", X>>, <<"open", X>>, <<"unlink", X>>, <<"link", X>>, <<"chdir", X>>,
   <<"mkdir", Y>>, <<"mknod", Y>>, <<"unlink", XY>>,
   <<"unlink", Abs(<<"x", ".">>)>>, <<"chdir", Abs(<<>>)>>, <<"open", Rel(<<"..">>)>>,
   <<"link", Rel(<<"..">>)>>, <<"mkdir", Rel(<<"..", "y">>)>>}
SomeNested == {<<>>, <<"x">>, <<"x", "y">>}
SomeNewPaths == {XY, Y}
=============================================================================
