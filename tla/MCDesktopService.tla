-------------------------- MODULE MCDesktopService --------------------------
(***************************************************************************)
(* Two applications and two known mime types; a system and a user's         *)
(* directory, and one in that which is not there at the start, each root    *)
(* with a mimeapps.list read after it.                                      *)
(***************************************************************************)
EXTENDS DesktopService

MCSources == <<"applications", "mimeapps.list", "applications", "applications", "mimeapps.list">>

\* Vi is installed, and overridden by the user's file, which is removed; ed is being
\* installed, and changed in the new directory.
MCAppChanges == { [dir |-> 1, app |-> "vi", content |-> {"text", "odd"}],
                  [dir |-> 3, app |-> "vi", content |-> {}],
                  [dir |-> 3, app |-> "vi", content |-> NoFile],
                  [dir |-> 4, app |-> "ed", content |-> {"text"}],
                  [dir |-> 1, app |-> "ed", content |-> Partial] }

MCListChanges ==
    { [file |-> 2, content |-> [NoList EXCEPT !.defaults["text"] = <<"vi", "ed">>, !.added["html"] = {"vi"}]],
      [file |-> 5, content |-> [NoList EXCEPT !.defaults["text"] = <<"ed">>]],
      [file |-> 5, content |-> Malformed] }

MCPatches == { <<"ed">>, <<"vi", "ed", "vi">> }

=============================================================================
