----------------------------- MODULE MCClients ------------------------------
(***************************************************************************)
(* What a listener meets, for TLC: banned addresses, the URL and command   *)
(* back ends of authentication, the metadata a listener is sent and the    *)
(* metadata taken out of an incoming stream, and the rates that keep       *)
(* account of them. They share no variable, so a behaviour is one of a     *)
(* single part, which part says. BanList, which this module extends, stays *)
(* in an initial state over the behaviours of other parts; the others have *)
(* no state in those of other parts.                                       *)
(***************************************************************************)
EXTENDS BanList, TLC

CONSTANTS
    Client, Handler, None, Backoff, MaxTime, MaxHeaders, MaxEvents, Addr, NoAddr,
    Title, Interval, BlockLen, QueueLen, MaxBlocks, MaxTags, InlineInterval,
    FrameLen, Payload, QBlock, Slack, More, TooMuch, MaxAudio, Adder, Samples, Amount, Reduce,
    Lag, FirstTime, Final, MaxAdds

(* a mount bans for a second, another while the client is there *)
Durations == {-1, 1}

VARIABLES
    part,           \* the component this behaviour is about
    backend, innocent, elsewhere, until, now, events, pc, kind, job, owner, heard,
    location, message, held, authed, intro, given, outcome, granted, target, answers,
    failed, raced, left, slow,
    mem, current, title, tags, queue, first, kindI, at, block, private, pos,
    queue_pos, since, inMeta, offset, associated, error, gap, due, shown, wanted, cut,
    unplaced, reusedI,
    inline, readX, size, place, built, meta, surplus, queued, running, audio, gapX,
    rest, shifted,
    ring, total, cycle_till, add, tm, sum, added, adds, back, reduced

U == INSTANCE ListenerAuth WITH Duration <- Backoff
I == INSTANCE IcyListener WITH kind <- kindI, reused <- reusedI
X == INSTANCE IcyFilter WITH read <- readX, gap <- gapX, Interval <- InlineInterval
Q == INSTANCE Rates

ASSUME BanSettings == Settings
ASSUME ListenerSettings == U!Settings

bansVars == vars
listenerVars == <<backend, innocent, elsewhere, until, now, events, pc, kind, job,
        owner, heard, location, message, held, authed, intro, given, outcome, granted,
        target, answers, failed, raced, left, slow>>
icyVars == <<mem, current, title, tags, queue, first, kindI, at, block,
        private, pos, queue_pos, since, inMeta, offset, associated, error, gap, due,
        shown, wanted, cut, unplaced, reusedI>>
filterVars == <<inline, readX, size, place, built, meta, surplus, queued, running,
        audio, gapX, rest, shifted>>
ratesVars == <<ring, total, cycle_till, add, tm, sum, added, adds, back, reduced>>
allVars == <<part, bansVars, listenerVars, icyVars, filterVars, ratesVars>>

(* one of the states in which banning starts *)
NoBans == Init /\ file.lines = CHOOSE f \in Files : TRUE
NoListener == backend = 0 /\ innocent = 0 /\ elsewhere = 0 /\ until = 0 /\ now = 0
    /\ events = 0 /\ pc = 0 /\ kind = 0 /\ job = 0 /\ owner = 0 /\ heard = 0
    /\ location = 0 /\ message = 0 /\ held = 0 /\ authed = 0 /\ intro = 0 /\ given = 0
    /\ outcome = 0 /\ granted = 0 /\ target = 0 /\ answers = 0 /\ failed = 0
    /\ raced = 0 /\ left = 0 /\ slow = 0
NoIcy == mem = 0 /\ current = 0 /\ title = 0 /\ tags = 0 /\ queue = 0
    /\ first = 0 /\ kindI = 0 /\ at = 0 /\ block = 0 /\ private = 0 /\ pos = 0
    /\ queue_pos = 0 /\ since = 0 /\ inMeta = 0 /\ offset = 0 /\ associated = 0
    /\ error = 0 /\ gap = 0 /\ due = 0 /\ shown = 0 /\ wanted = 0 /\ cut = 0
    /\ unplaced = 0 /\ reusedI = 0
NoFilter == inline = 0 /\ readX = 0 /\ size = 0 /\ place = 0 /\ built = 0 /\ meta = 0
    /\ surplus = 0 /\ queued = 0 /\ running = 0 /\ audio = 0 /\ gapX = 0 /\ rest = 0
    /\ shifted = 0
NoRates == ring = 0 /\ total = 0 /\ cycle_till = 0 /\ add = 0 /\ tm = 0 /\ sum = 0
    /\ added = 0 /\ adds = 0 /\ back = 0 /\ reduced = 0

MCInit ==
    \/ part = "bans" /\ Init /\ NoListener /\ NoIcy /\ NoFilter /\ NoRates
    \/ part = "listener" /\ U!Init /\ NoBans /\ NoIcy /\ NoFilter /\ NoRates
    \/ part = "icy" /\ I!Init /\ NoBans /\ NoListener /\ NoFilter /\ NoRates
    \/ part = "filter" /\ X!Init /\ NoBans /\ NoListener /\ NoIcy /\ NoRates
    \/ part = "rates" /\ Q!Init /\ NoBans /\ NoListener /\ NoIcy /\ NoFilter

OnlyBans == UNCHANGED <<part, listenerVars, icyVars, filterVars, ratesVars>>
OnlyListener == UNCHANGED <<part, bansVars, icyVars, filterVars, ratesVars>>
OnlyIcy == UNCHANGED <<part, bansVars, listenerVars, filterVars, ratesVars>>
OnlyFilter == UNCHANGED <<part, bansVars, listenerVars, icyVars, ratesVars>>
OnlyRates == UNCHANGED <<part, bansVars, listenerVars, icyVars, filterVars>>

MCNext ==
    \/ part = "bans" /\ ~reused /\ (\E i \in Ip : AcceptIpAddress(i)) /\ OnlyBans
    \/ part = "bans" /\ ~reused /\ (\E i \in Ip : ConnectionReleaseBannedIp(i)) /\ OnlyBans
    \/ part = "bans" /\ ~reused /\ SearchWild /\ OnlyBans
    \/ part = "bans" /\ ~reused /\ SearchNothing /\ OnlyBans
    \/ part = "bans" /\ ~reused /\ Search /\ OnlyBans
    \/ part = "bans" /\ ~reused /\ (\E i \in Ip, d \in Duration : ConnectionAddBannedIp(i, d)) /\ OnlyBans
    \/ part = "bans" /\ ~reused /\ CachedFileClear /\ OnlyBans
    \/ part = "bans" /\ ~reused /\ CachedFileInit /\ OnlyBans
    \/ part = "bans" /\ ~reused /\ Edit /\ OnlyBans
    \/ part = "bans" /\ ~reused /\ Tick /\ OnlyBans
    \/ part = "listener" /\ (\E h \in Handler, c \in Client : U!TakeLeaving(h, c)) /\ OnlyListener
    \/ part = "listener" /\ (\E h \in Handler, c \in Client, k \in {"add", "auth"} : U!Take(h, c, k)) /\ OnlyListener
    \/ part = "listener" /\ (\E h \in Handler : U!TakeEvent(h)) /\ OnlyListener
    \/ part = "listener" /\ (\E h \in Handler : U!UrlCheck(h)) /\ OnlyListener
    \/ part = "listener" /\ (\E h \in Handler : U!UrlClear(h)) /\ OnlyListener
    \/ part = "listener" /\ (\E h \in Handler : U!RequestFails(h)) /\ OnlyListener
    \/ part = "listener" /\ (\E h \in Handler : U!UrlRequest(h)) /\ OnlyListener
    \/ part = "listener" /\ (\E h \in Handler : U!Body(h)) /\ OnlyListener
    \/ part = "listener" /\ (\E h \in Handler : U!CmdRefuses(h)) /\ OnlyListener
    \/ part = "listener" /\ (\E h \in Handler : U!Post(h)) /\ OnlyListener
    \/ part = "listener" /\ (\E h \in Handler : U!Finish(h)) /\ OnlyListener
    \/ part = "listener" /\ (\E h \in Handler : U!EventEnds(h)) /\ OnlyListener
    \/ part = "listener" /\ (\E h \in Handler, b \in BOOLEAN : U!CmdRequest(h, b)) /\ OnlyListener
    \/ part = "listener" /\ (\E h \in Handler, b \in BOOLEAN : U!UrlAdded(h, b)) /\ OnlyListener
    \/ part = "listener" /\ (\E h \in Handler, b \in BOOLEAN : U!UrlReturns(h, b)) /\ OnlyListener
    \/ part = "listener" /\ (\E h \in Handler, b \in BOOLEAN : U!CmdEnds(h, b)) /\ OnlyListener
    \/ part = "listener" /\ (\E h \in Handler, code \in {403, 500} : U!StatusHeader(h, code)) /\ OnlyListener
    \/ part = "listener" /\ (\E h \in Handler, value \in {"1", "0", "withintro"} : U!AuthHeader(h, value)) /\ OnlyListener
    \/ part = "listener" /\ (\E h \in Handler, txt \in {"Location", "other", "403"} : U!TextHeader(h, txt)) /\ OnlyListener
    \/ part = "listener" /\ U!Tick /\ OnlyListener
    \/ part = "icy" /\ (\E t \in Title : I!SetTag(t)) /\ OnlyIcy
    \/ part = "icy" /\ I!SetTitle /\ OnlyIcy
    \/ part = "icy" /\ I!Publish /\ OnlyIcy
    \/ part = "icy" /\ (\E n \in 1 .. MaxBlocks : I!Join(n)) /\ OnlyIcy
    \/ part = "icy" /\ I!Advance /\ OnlyIcy
    \/ part = "icy" /\ I!Mismatch /\ OnlyIcy
    \/ part = "icy" /\ (\E n \in 1 .. (Interval + BlockLen + 5) : I!SendMetadata(n)) /\ OnlyIcy
    \/ part = "icy" /\ (\E n \in 1 .. (Interval + BlockLen + 5) : I!SendAudio(n)) /\ OnlyIcy
    \/ part = "icy" /\ (\E n \in 1 .. (Interval + BlockLen + 5) : I!SendIceblock(n)) /\ OnlyIcy
    \/ part = "icy" /\ I!TakeCopy /\ OnlyIcy
    \/ part = "icy" /\ I!DropCopy /\ OnlyIcy
    \/ part = "icy" /\ I!Pause /\ OnlyIcy
    \/ part = "filter" /\ (\E b \in X!NextBytes : X!Read(b)) /\ OnlyFilter
    \/ part = "filter" /\ X!Stops /\ OnlyFilter
    \/ part = "filter" /\ X!OnlyMetadata /\ OnlyFilter
    \/ part = "filter" /\ X!TakeWhole /\ OnlyFilter
    \/ part = "filter" /\ X!DropRest /\ OnlyFilter
    \/ part = "filter" /\ X!KeepSurplus /\ OnlyFilter
    \/ part = "filter" /\ X!ReadAgain /\ OnlyFilter
    \/ part = "filter" /\ X!Expand /\ OnlyFilter
    \/ part = "filter" /\ X!Swap /\ OnlyFilter
    \/ part = "rates" /\ (\E a \in Adder : Q!RateAddSum(a)) /\ OnlyRates
    \/ part = "rates" /\ (\E a \in Adder : Q!Insert(a)) /\ OnlyRates
    \/ part = "rates" /\ (\E a \in Adder : Q!Retry(a)) /\ OnlyRates
    \/ part = "rates" /\ (\E a \in Adder : Q!Again(a)) /\ OnlyRates
    \/ part = "rates" /\ Q!RateReduce /\ OnlyRates
    \/ part = "rates" /\ Q!Passing /\ OnlyRates

MCSpec == MCInit /\ [][MCNext]_allVars

----------------------------------------------------------------------------
(* A client is passed on once and let in by its own answer only, with its own redirect and its *)
(* own intro, by threads that keep data from one client to the next and share the back-off.    *)
AnswersOwn == part = "listener" => U!AnswersOwn

(* The total of a rate is the sum of its blocks, and those are the samples of the window, each *)
(* counted once, though the lock is given up in the middle of an addition.                     *)
RatesExact == part = "rates" => Q!RatesExact

(* Audio and metadata of a stream are never taken for one another, neither where   *)
(* metadata is read out of an incoming stream nor where a listener is sent it,     *)
(* wherever blocks, frames, intervals and partial writes end (format_mp3.c).       *)
MetadataFramed ==
    /\ part = "icy" => I!SentFramed
    /\ part = "filter" => X!ReadFramed

Symmetry == Permutations(Client) \cup Permutations(Handler)
=============================================================================
