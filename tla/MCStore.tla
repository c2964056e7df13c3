------------------------------- MODULE MCStore -------------------------------
\* Module Store for TLC: what can come together, and how much of it.
EXTENDS Store

Load(ops, bound, width) == [ops |-> ops, bound |-> bound, width |-> width]

WorkloadSets ==
    {Load({"settings", "play", "reload", "start", "logger", "roles", "expire"}, 2, 3),
     Load({"auth", "unauth", "skip", "roles", "expire"}, 2, 3),
     Load({"broadcast", "cancel"}, 3, 3),
     Load({"backup", "restore", "start"}, 2, 2),
     Load({"createPlaylist", "deletePlaylist", "addSong", "removeSong"}, 4, 2),
     Load({"youtube", "reset"}, 2, 2),
     Load({"direct", "telegram", "spotify", "other"}, 3, 3)}

Ids == 1..5

=============================================================================
