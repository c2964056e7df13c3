------------------------------- MODULE Downloads -------------------------------
(***************************************************************************)
(* Downloading one track (core/dl), by any number of goroutines at once:   *)
(* playSong, the prefetcher and the searches all call DownloadCachedTrack. *)
(* A YouTube track comes from the shared media cache, the ArcMusic job API *)
(* or yt-dlp; a Spotify track is decrypted and encoded again; a Telegram   *)
(* file is fetched by TDLib, which can stop early.  Nothing keeps two      *)
(* downloads of a track off each other's files.                            *)
(*                                                                         *)
(* The ArcMusic file has the inode `saved' under its own name and `part'   *)
(* under the name with .part.  Of an inode it is known who truncated it    *)
(* last (by), whether that one has copied everything (whole), and whether  *)
(* anyone has reached the end since (full size, perhaps with a hole).      *)
(***************************************************************************)
EXTENDS Handlers

CONSTANTS
    Configured,      \* which of "media" (DB_URI) and "arc" (ARC_API_URL) are
    ArcCycles,       \* attempts of the job API (arcDownloadCycles)
    TelegramTries    \* maxTelegramDownloadRetries

ASSUME DownloadsAssumption == {ArcCycles, TelegramTries} \subseteq Nat \ {0}

VARIABLES
    saved, part, inodes,       \* the ArcMusic file
    encrypted, decrypted, ogg, \* the files of the Spotify track
    tdFile,                    \* external: the file that TDLib keeps
    media,                     \* mediaMongoOnce: "untried", "up" or "down"
    stats,                     \* the counters of arcstats.go
    mixed                      \* history: files two downloads have mixed up,
                               \* and counters a reset has put out of step

fileVars == <<saved, part, inodes, encrypted, decrypted, ogg, tdFile>>
downloadVars == <<fileVars, media, stats, mixed>>

Inodes == 1..(2 * Cardinality(Procs) + 1)
Contents == {"none", "partial", "whole"}
Counters == {"attempts", "success", "failed", "hits", "api", "fallbacks"}

DownloadsTypeOK ==
    /\ {saved, part} \subseteq Inodes \cup {None}
    /\ inodes \in [Inodes -> [by : Procs \cup {None}, end : BOOLEAN, whole : BOOLEAN]]
    /\ {encrypted, decrypted, ogg, tdFile} \subseteq Contents
    /\ media \in {"untried", "up", "down"}
    /\ stats \in [Counters -> Nat]
    /\ mixed \subseteq {"saved", "ogg", "stats"}

DownloadsInit ==
    /\ saved = None /\ part = None
    /\ inodes = [i \in Inodes |-> [by |-> None, end |-> FALSE, whole |-> FALSE]]
    /\ encrypted = "none" /\ decrypted = "none" /\ ogg = "none" /\ tdFile = "none"
    /\ media = "untried"
    /\ stats = [c \in Counters |-> 0]
    /\ mixed = {}

Offline == "network" \in Faults

\* The path that is handed out: the name of a file.
Deliver(p, name) == Goto(p, "delivered", [local[p] EXCEPT !.doc = name])

Count(cs) == stats' = [c \in Counters |-> IF c \in cs THEN stats[c] + 1 ELSE stats[c]]

-----------------------------------------------------------------------------
\* DownloadCachedTrack.  A direct link is its own path.
DownloadCachedTrack(p, platform) ==
    /\ At(p, "idle")
    /\ LET l == [Fresh EXCEPT !.cmd = "download", !.value = platform] IN
       CASE platform = "direct" -> Goto(p, "delivered", [l EXCEPT !.doc = "link"])
         [] platform = "telegram" -> Goto(p, "remote", l)
         [] OTHER -> Goto(p, "track", l)
    /\ UNCHANGED downloadVars

\* downloadViaWrapper: the track is looked up once more.  What is neither from
\* YouTube nor encrypted is played from its url.
downloadViaWrapper(p) ==
    /\ At(p, "track")
    /\ \/ local[p].value = "youtube" /\ Jump(p, "attempt")
       \/ local[p].value = "spotify" /\ Jump(p, "ogg")
       \/ local[p].value = "other" /\ Deliver(p, "link")
       \/ Offline /\ Return(p)
    /\ UNCHANGED downloadVars

Delivered(p) ==
    /\ At(p, "delivered")
    /\ Return(p)
    /\ UNCHANGED downloadVars

-----------------------------------------------------------------------------
\* Telegram: a message of the media channel, or a file of its own.
downloadTelegramFile(p) ==
    /\ At(p, "remote")
    /\ \/ Goto(p, "tdlib", [local[p] EXCEPT !.left = TelegramTries])
       \/ "telegram" \in Faults /\ Return(p)
    /\ UNCHANGED downloadVars

\* retryTelegramDownload: a download that fails or stops early is resumed, a
\* number of times.
Retry(p) ==
    IF local[p].left = 1 THEN Return(p)
    ELSE Goto(p, "tdlib", [local[p] EXCEPT !.left = @ - 1])

retryTelegramDownload(p) ==
    /\ At(p, "tdlib")
    /\ \/ tdFile' = "whole" /\ Deliver(p, "tdFile")
       \/ /\ "telegram" \in Faults
          /\ tdFile' \in (IF tdFile = "whole" THEN {"whole"} ELSE {tdFile, "partial"})
          /\ Retry(p)
    /\ UNCHANGED <<saved, part, inodes, encrypted, decrypted, ogg, media, stats, mixed>>

-----------------------------------------------------------------------------
\* arcMusic.resolve.
resolve(p) ==
    /\ At(p, "attempt")
    /\ Count({"attempts"})
    /\ Goto(p, "media", [local[p] EXCEPT !.left = ArcCycles])
    /\ mixed' = IF \E q \in Procs : At(q, "reset") THEN mixed \cup {"stats"} ELSE mixed
    /\ UNCHANGED <<fileVars, media>>

\* The connection is tried once in the life of the process: when that fails
\* the media cache is out of use for good.
getMediaCollection(p) ==
    /\ At(p, "media") /\ "media" \in Configured /\ media = "untried"
    /\ media' \in {"up"} \cup (IF "database" \in Faults THEN {"down"} ELSE {})
    /\ UNCHANGED <<goVars, fileVars, stats, mixed>>

lookupDirectDb(p) ==
    /\ At(p, "media") /\ ("media" \in Configured => media # "untried")
    /\ \/ /\ media = "up"
          /\ Count({"success", "hits"})
          /\ Jump(p, "remote")
       \/ IF "arc" \in Configured
          THEN Jump(p, "job") /\ UNCHANGED stats
          ELSE Count({"failed"}) /\ Jump(p, "ytdlp")
    /\ UNCHANGED <<fileVars, media, mixed>>

\* Mutant of CycleFails: the last failure is not recorded.
BugCycleFails(p) ==
    /\ UNCHANGED stats
    /\ IF local[p].left = 1 THEN Jump(p, "ytdlp")
       ELSE Goto(p, "job", [local[p] EXCEPT !.left = @ - 1])

\* The end of a cycle: another one, or the failure and yt-dlp.
CycleFails(p) ==
    IF local[p].left = 1
    THEN Count({"failed"}) /\ Jump(p, "ytdlp")
    ELSE UNCHANGED stats /\ Goto(p, "job", [local[p] EXCEPT !.left = @ - 1])

\* createJob and pollJob try several times each; then the file is requested.
createJob(p) ==
    /\ At(p, "job")
    /\ \/ Jump(p, "poll") /\ UNCHANGED stats
       \/ Offline /\ CycleFails(p)
    /\ UNCHANGED <<fileVars, media, mixed>>

pollJob(p) ==
    /\ At(p, "poll")
    /\ \/ Jump(p, "request") /\ UNCHANGED stats
       \/ Offline /\ CycleFails(p)
    /\ UNCHANGED <<fileVars, media, mixed>>

\* downloadFileWithTimeout.  A file that is there is taken for the track.
RequestFile(p) ==
    /\ At(p, "request")
    /\ \/ Jump(p, IF saved # None THEN "arrived" ELSE "open") /\ UNCHANGED stats
       \/ Offline /\ CycleFails(p)
    /\ UNCHANGED <<fileVars, media, mixed>>

FreeInode ==
    CHOOSE i \in Inodes : i \notin {saved, part} \cup {local[q].got : q \in Procs}

\* Mutant of OpenPart: the file is written under its own name.
BugOpenPart(p) ==
    /\ At(p, "open")
    /\ LET i == IF part = None THEN FreeInode ELSE part IN
       /\ part' = i /\ saved' = i
       /\ inodes' = [inodes EXCEPT ![i] = [by |-> p, end |-> FALSE, whole |-> FALSE]]
       /\ Goto(p, "copy", [local[p] EXCEPT !.got = i])
    /\ mixed' = IF part = None THEN mixed ELSE mixed \cup {"saved"}
    /\ UNCHANGED <<encrypted, decrypted, ogg, tdFile, media, stats>>

\* os.Create truncates the .part file if there is one.
OpenPart(p) ==
    /\ At(p, "open")
    /\ LET i == IF part = None THEN FreeInode ELSE part IN
       /\ part' = i
       /\ inodes' = [inodes EXCEPT ![i] = [by |-> p, end |-> FALSE, whole |-> FALSE]]
       /\ Goto(p, "copy", [local[p] EXCEPT !.got = i])
    /\ mixed' = IF part = None THEN mixed ELSE mixed \cup {"saved"}
    /\ UNCHANGED <<saved, encrypted, decrypted, ogg, tdFile, media, stats>>

\* A body that ends early is an error, after which .part is removed, whoever
\* writes it.
writeToFile(p) ==
    /\ At(p, "copy")
    /\ \/ /\ inodes' = [inodes EXCEPT ![local[p].got].end = TRUE,
                                      ![local[p].got].whole = @ \/ inodes[local[p].got].by = p]
          /\ Jump(p, "size")
          /\ UNCHANGED <<part, stats>>
       \/ Offline /\ part' = None /\ CycleFails(p) /\ UNCHANGED inodes
    /\ UNCHANGED <<saved, encrypted, decrypted, ogg, tdFile, media, mixed>>

CheckSize(p) ==
    /\ At(p, "size")
    /\ IF part # None /\ inodes[part].end
       THEN Jump(p, "rename") /\ UNCHANGED <<part, stats>>
       ELSE part' = None /\ CycleFails(p)
    /\ UNCHANGED <<saved, inodes, encrypted, decrypted, ogg, tdFile, media, mixed>>

RenamePart(p) ==
    /\ At(p, "rename")
    /\ IF part # None
       THEN saved' = part /\ part' = None /\ Jump(p, "arrived") /\ UNCHANGED stats
       ELSE CycleFails(p) /\ UNCHANGED <<saved, part>>
    /\ UNCHANGED <<inodes, encrypted, decrypted, ogg, tdFile, media, mixed>>

downloadFileWithTimeout(p) ==
    RequestFile(p) \/ OpenPart(p) \/ writeToFile(p) \/ CheckSize(p) \/ RenamePart(p)

recordArcSuccess(p) ==
    /\ At(p, "arrived")
    /\ Count({"success", "api"})
    /\ Deliver(p, "saved")
    /\ UNCHANGED <<fileVars, media, mixed>>

\* yt-dlp writes to a file of its own; it reports the path, or fails.
downloadWithYtDlp(p) ==
    /\ At(p, "ytdlp")
    /\ Count({"fallbacks"})
    /\ \/ Deliver(p, "ytdlp")
       \/ Offline /\ Return(p)
    /\ UNCHANGED <<fileVars, media, mixed>>

YouTubeStep(p) ==
    \/ resolve(p) \/ getMediaCollection(p) \/ lookupDirectDb(p) \/ createJob(p) \/ pollJob(p)
    \/ downloadFileWithTimeout(p) \/ recordArcSuccess(p) \/ downloadWithYtDlp(p)

-----------------------------------------------------------------------------
\* processSpotify: the encoded file is used if it is there, half written or
\* left behind by an encoder that failed included.
SpotifyLabels == {"cdn", "decrypt", "encode", "encoding", "remove"}

processSpotify(p) ==
    /\ At(p, "ogg")
    /\ IF ogg # "none" THEN Deliver(p, "ogg") ELSE Jump(p, "cdn")
    /\ mixed' = IF \E q \in Procs : pc[q] \in SpotifyLabels THEN mixed \cup {"ogg"} ELSE mixed
    /\ UNCHANGED <<fileVars, media, stats>>

\* downloadAndDecrypt: the temporary files have the same names for everyone.
FetchEncrypted(p) ==
    /\ At(p, "cdn")
    /\ \/ encrypted' = "whole" /\ Jump(p, "decrypt")
       \/ Offline /\ Fail(p, "remove") /\ UNCHANGED encrypted
    /\ UNCHANGED <<saved, part, inodes, decrypted, ogg, tdFile, media, stats, mixed>>

decryptAudioFile(p) ==
    /\ At(p, "decrypt")
    /\ IF encrypted = "none"
       THEN Fail(p, "remove") /\ UNCHANGED decrypted
       ELSE decrypted' = encrypted /\ Jump(p, "encode")
    /\ UNCHANGED <<saved, part, inodes, encrypted, ogg, tdFile, media, stats, mixed>>

\* fixOGG: the encoder writes under the final name.  Of one that fails or is
\* killed after its thirty seconds a part is left there; a result that cannot
\* be played is removed.
StartEncoder(p) ==
    /\ At(p, "encode")
    /\ IF decrypted = "none"
       THEN Fail(p, "remove") /\ UNCHANGED ogg
       ELSE ogg' = "partial" /\ Jump(p, "encoding")
    /\ UNCHANGED <<saved, part, inodes, encrypted, decrypted, tdFile, media, stats, mixed>>

EndEncoder(p) ==
    /\ At(p, "encoding")
    /\ \/ ogg' = "whole" /\ Jump(p, "remove") /\ UNCHANGED mixed
       \/ "ffmpeg" \in Faults /\ ogg' = "none" /\ Fail(p, "remove") /\ UNCHANGED mixed
       \/ /\ "ffmpeg" \in Faults
          /\ mixed' = mixed \cup {"ogg"}
          /\ Fail(p, "remove") /\ UNCHANGED ogg
    /\ UNCHANGED <<saved, part, inodes, encrypted, decrypted, tdFile, media, stats>>

RemoveTemporary(p) ==
    /\ At(p, "remove")
    /\ encrypted' = "none" /\ decrypted' = "none"
    /\ IF local[p].failed THEN Return(p) ELSE Deliver(p, "ogg")
    /\ UNCHANGED <<saved, part, inodes, ogg, tdFile, media, stats, mixed>>

fixOGG(p) == StartEncoder(p) \/ EndEncoder(p)

SpotifyStep(p) ==
    \/ processSpotify(p) \/ FetchEncrypted(p) \/ decryptAudioFile(p) \/ fixOGG(p)
    \/ RemoveTemporary(p)

-----------------------------------------------------------------------------
\* /ytstats reset: the counters are zeroed one after the other.
Resolving == {p \in Procs : pc[p] \in {"media", "job", "poll", "request", "open", "copy", "size",
                                       "rename", "arrived"}}

OutOfStep == mixed' = IF Resolving = {} THEN mixed ELSE mixed \cup {"stats"}

BeginReset(p) ==
    /\ At(p, "idle")
    /\ stats' = [stats EXCEPT !["attempts"] = 0]
    /\ OutOfStep
    /\ Goto(p, "reset", [Fresh EXCEPT !.cmd = "reset"])
    /\ UNCHANGED <<fileVars, media>>

ResetArcStats(p) ==
    /\ At(p, "reset")
    /\ stats' = [c \in Counters |-> IF c = "attempts" THEN stats[c] ELSE 0]
    /\ OutOfStep
    /\ Return(p)
    /\ UNCHANGED <<fileVars, media>>

DownloadStep(p) ==
    \/ downloadViaWrapper(p) \/ Delivered(p) \/ downloadTelegramFile(p) \/ retryTelegramDownload(p)
    \/ YouTubeStep(p) \/ SpotifyStep(p) \/ ResetArcStats(p)

-----------------------------------------------------------------------------
\* A path that is handed out is that of a whole file, unless two downloads of
\* the track have written the same .part file, or have been encoding at once,
\* or an encoder failed half way (http_client.go 236, spotify_dl.go 75, 234).
DownloadsWhole ==
    \A p \in Procs : At(p, "delivered") =>
        CASE local[p].doc = "saved" -> "saved" \in mixed \/ inodes[saved].whole
          [] local[p].doc = "ogg" -> "ogg" \in mixed \/ ogg = "whole"
          [] local[p].doc = "tdFile" -> tdFile = "whole"
          [] OTHER -> TRUE

\* Every attempt is counted once as a success or a failure when it is over,
\* whatever way it ends, unless a reset came in between (arcstats.go).
ArcBalance ==
    ("stats" \in mixed \/ \E p \in Procs : At(p, "reset")) \/
        /\ stats["attempts"] = stats["success"] + stats["failed"] + Cardinality(Resolving)
        /\ stats["success"] = stats["hits"] + stats["api"]

=============================================================================
