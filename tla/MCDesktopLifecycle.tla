------------------------- MODULE MCDesktopLifecycle -------------------------
(* One instance of the application, launched twice, which may be the        *)
(* relaunch it has asked for; no more than two backends are ever alive.     *)
EXTENDS DesktopLifecycle

CONSTANTS a1, p1, p2

\* Linux, where the icon is needed, may lack it.
DarwinAndLinux ==
    {<<"darwin", {"backend", "frontend"}>>, <<"linux", {"backend", "frontend"}>>,
     <<"linux", {"backend", "frontend", "icon"}>>}

============================================================================
