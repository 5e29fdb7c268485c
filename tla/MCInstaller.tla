----------------------------- MODULE MCInstaller -----------------------------
(* Installer for a package of two releases: an executable both ship, a file    *)
(* only the first ships, one only the second ships, settings, and a menu       *)
(* launcher.                                                                   *)

EXTENDS Installer, TLC

CONSTANTS exe, old, new, conf,                        \* destination files
          exe1, exe2, old1, new2, conf1, conf2, exec, \* shipped contents
          mine,                \* a user's contents
          r1, r2                                      \* the releases

MCFile == {exe, old, new, conf, Temp}
MCContent == {exe1, exe2, old1, new2, conf1, conf2, exec, mine, Junk}
MCRelease == {r1, r2}

First == exe :> exe1 @@ old :> old1 @@ new :> Absent @@ conf :> conf1
         @@ Launcher :> exec @@ Temp :> Absent

\* the second release has another executable and no launcher
MCShips == r1 :> First
           @@ r2 :> (exe :> exe2 @@ old :> Absent @@ new :> new2 @@ conf :> conf2
                     @@ Launcher :> Absent @@ Temp :> Absent)

\* Both declare the settings as the user's; the second release also declares the
\* file only it ships, and the one it no longer ships.
MCPreserve == r1 :> {conf} @@ r2 :> {conf, old, new}

\* for PreservedIsNeverOverwritten: the settings are declared by the first only
DeclaredInFirst == r1 :> {conf} @@ r2 :> {}

\* The user has one of the first release's files, and files of their own; a path that
\* only the other release ships is old, when the second release is the one installed.
MCWritten == exe :> {} @@ old :> {old1, mine} @@ new :> {}
             @@ conf :> {mine} @@ Launcher :> {mine} @@ Temp :> {}
=============================================================================
