---------------------------- MODULE MCImageView -----------------------------
(* Both kinds of events, two images, and two actions of the user.          *)
EXTENDS ImageView

MCPlatforms == {"win32", "posix"}
=============================================================================
