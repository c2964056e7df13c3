------------------------------- MODULE Playlists -------------------------------
(***************************************************************************)
(* The users' playlists: the commands (handlers/playlist.go) and the       *)
(* operations on the collection they are made of (core/db/playlist.go),    *)
(* each a request of its own.  Nothing is cached, and nothing keeps what a *)
(* command has read from changing before it writes.  The songs of a        *)
(* playlist are a bag: their order only says which of them a number means. *)
(***************************************************************************)
EXTENDS Handlers

CONSTANTS
    PlaylistIds,    \* the ids that are generated, 1 to the bound
    Songs,          \* what a song's url leads to
    MaxPlaylists    \* the playlists a user may have (10)

ASSUME PlaylistAssumption ==
    /\ IsFiniteSet(PlaylistIds) /\ PlaylistIds = 1..Cardinality(PlaylistIds)
    /\ MaxPlaylists \in 1..(Cardinality(PlaylistIds) + 1)

VARIABLES
    playlists,   \* the documents: the owner and the songs of each id, or None
    generated,   \* how many ids have been generated
    misread      \* history: an error was taken for the end of a list or an absent song

playlistVars == <<playlists, generated, misread>>

IsPlaylist(list) ==
    /\ DOMAIN list = {"owner", "songs"}
    /\ list.owner \in Users /\ IsABag(list.songs) /\ BagToSet(list.songs) \subseteq Songs

PlaylistsTypeOK ==
    /\ \A id \in PlaylistIds : playlists[id] = None \/ IsPlaylist(playlists[id])
    /\ generated \in 0..Cardinality(PlaylistIds)
    /\ misread \in BOOLEAN

\* One user is short of one playlist.
PlaylistsInit ==
    /\ LET first == [owner |-> CHOOSE u \in Users : TRUE, songs |-> EmptyBag] IN
       playlists = [id \in PlaylistIds |-> IF id < MaxPlaylists THEN first ELSE None]
    /\ generated = MaxPlaylists - 1
    /\ misread = FALSE

PlaylistsOf(u) == {id \in PlaylistIds : playlists[id] # None /\ playlists[id].owner = u}

Copies(id, song) ==
    IF playlists[id] = None \/ ~BagIn(song, playlists[id].songs) THEN 0
    ELSE playlists[id].songs[song]

Broken(p) == "database" \in Faults /\ Return(p)

-----------------------------------------------------------------------------
\* /createplaylist: the playlists are counted, and one is inserted if there is
\* room.  GetUserPlaylists does not ask the cursor for its error, so a list
\* that breaks off is taken for a shorter one.
GetUserPlaylists(p, cmd, user) ==
    /\ At(p, "idle")
    /\ LET n == Cardinality(PlaylistsOf(user)) IN
       \E seen \in 0..n :
         /\ seen = n \/ "database" \in Faults
         /\ misread' = (misread \/ seen < n)
         /\ Goto(p, "count", [Fresh EXCEPT !.cmd = cmd, !.user = user, !.left = seen])
    /\ UNCHANGED <<playlists, generated>>

\* Mutant of createPlaylistHandler: the limit is not looked at.
BugCreatePlaylistHandler(p) ==
    /\ At(p, "count")
    /\ Jump(p, "create")
    /\ UNCHANGED playlistVars

createPlaylistHandler(p) ==
    /\ At(p, "count")
    /\ IF local[p].left >= MaxPlaylists THEN Return(p) ELSE Jump(p, "create")
    /\ UNCHANGED playlistVars

\* An id that no playlist had before: it is drawn at random.
CreatePlaylist(p) ==
    /\ At(p, "create")
    /\ \/ /\ generated < Cardinality(PlaylistIds)
          /\ generated' = generated + 1
          /\ playlists' = [playlists EXCEPT ![generated + 1] =
                             [owner |-> local[p].user, songs |-> EmptyBag]]
          /\ Return(p)
       \/ Broken(p) /\ UNCHANGED <<playlists, generated>>
    /\ UNCHANGED misread

-----------------------------------------------------------------------------
\* The other commands read a playlist and end there if it is not the sender's.
GetPlaylist(p, cmd, user, id) ==
    /\ At(p, "idle") /\ id \in PlaylistsOf(user)
    /\ Goto(p, cmd, [Fresh EXCEPT !.cmd = cmd, !.user = user, !.id = id,
                                  !.got = playlists[id].songs])
    /\ UNCHANGED playlistVars

deletePlaylistHandler(p) ==
    /\ At(p, "deletePlaylist")
    /\ \/ /\ playlists' = IF local[p].id \in PlaylistsOf(local[p].user)
                          THEN [playlists EXCEPT ![local[p].id] = None] ELSE playlists
          /\ Return(p)
       \/ Broken(p) /\ UNCHANGED playlists
    /\ UNCHANGED <<generated, misread>>

\* /addtoplaylist: what the url leads to is looked up, which takes a while and
\* can fail; the song is pushed if the playlist, read again, has none.
addToPlaylistHandler(p) ==
    /\ At(p, "addSong")
    /\ \/ \E song \in Songs : Goto(p, "songExists", [local[p] EXCEPT !.value = song])
       \/ "network" \in Faults /\ Return(p)
    /\ UNCHANGED playlistVars

\* songExists, whose errors count as a song that is not there.
songExists(p) ==
    /\ At(p, "songExists")
    /\ LET there == Copies(local[p].id, local[p].value) > 0 IN
       \E answer \in {there, FALSE} :
         /\ answer = there \/ "database" \in Faults
         /\ misread' = (misread \/ answer # there)
         /\ IF answer = (local[p].cmd = "removeSong") THEN Jump(p, "changeSongs") ELSE Return(p)
    /\ UNCHANGED <<playlists, generated>>

\* The update of a playlist that has been deleted changes nothing.
ChangeSongs(p, new(_)) ==
    /\ At(p, "changeSongs")
    /\ \/ /\ LET id == local[p].id IN
             playlists' = IF playlists[id] = None THEN playlists
                          ELSE [playlists EXCEPT ![id].songs = new(@)]
          /\ Return(p)
       \/ Broken(p) /\ UNCHANGED playlists
    /\ UNCHANGED <<generated, misread>>

AddSongToPlaylist(p) ==
    local[p].cmd = "addSong" /\ ChangeSongs(p, LAMBDA songs : BagAdd(songs, local[p].value))

\* /removefromplaylist: a number is looked up in the songs first read, so that
\* what is pulled is the song that had it then, every copy of it.
removeFromPlaylistHandler(p) ==
    /\ At(p, "removeSong")
    /\ \/ \E song \in BagToSet(local[p].got) :
            Goto(p, "songExists", [local[p] EXCEPT !.value = song])
       \/ Return(p)
    /\ UNCHANGED playlistVars

RemoveSongFromPlaylist(p) ==
    /\ local[p].cmd = "removeSong"
    /\ ChangeSongs(p, LAMBDA songs : BagRemoveAll(songs, local[p].value))

PlaylistStep(p) ==
    \/ createPlaylistHandler(p) \/ CreatePlaylist(p) \/ deletePlaylistHandler(p)
    \/ addToPlaylistHandler(p) \/ songExists(p) \/ AddSongToPlaylist(p)
    \/ removeFromPlaylistHandler(p) \/ RemoveSongFromPlaylist(p)

-----------------------------------------------------------------------------
\* A song is in a playlist, and a playlist beyond the limit with its owner, no
\* more often than goroutines can be between the test and the write at once,
\* unless an error was taken for an answer (db/playlist.go, lines 86 to 119,
\* and handlers/playlist.go, lines 44 to 58).
PlaylistsBounded ==
    \/ misread
    \/ /\ \A id \in PlaylistIds, song \in Songs : Copies(id, song) <= Cardinality(Procs)
       /\ \A u \in Users : Cardinality(PlaylistsOf(u)) < MaxPlaylists + Cardinality(Procs)

=============================================================================
