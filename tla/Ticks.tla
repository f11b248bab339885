--------------------------------- MODULE Ticks ---------------------------------
(***************************************************************************)
(* A frame of the feed, or a full quote over REST, becomes a tick          *)
(* (feed/normaliser.py).  The names of the fields differ between the two   *)
(* and between modes, so the payload is walked: a frame is what the walk   *)
(* meets, in its order: the known leaves, the lists of quotes, and the     *)
(* candles.  None is a value that is no number.                            *)
(***************************************************************************)
EXTENDS Estimators

CONSTANTS Broken    \* a payload the walk cannot take

Attributes == {"ltp", "prev", "vwap", "volume", "oi", "oiPrev"}

(* The leaves that carry an attribute, over the socket and over REST.      *)
Names == [ltp    |-> {"ltp", "last_price"},
          prev   |-> {"cp"},
          vwap   |-> {"atp", "average_price"},
          volume |-> {"vtt", "volume"},
          oi     |-> {"oi", "open_interest"},
          oiPrev |-> {"poi", "prevoi", "previous_oi"}]

(* The first number wins.                                                  *)
Scalar(frame, attribute) ==
    LET found == SelectSeq(frame.leaves, LAMBDA l : l.name \in Names[attribute] /\ l.value # None)
    IN  IF found = <<>> THEN None ELSE Head(found).value

(* The best level of the first list of quotes that has one.                *)
NoQuote == [bid |-> None, ask |-> None]
Quote(frame) ==
    LET lists == SelectSeq(frame.quotes, LAMBDA levels : levels # <<>>)
    IN  IF lists = <<>> THEN NoQuote ELSE Head(Head(lists))

(* The candle of the day: the plain one of REST, or the entry of the day   *)
(* among those of all intervals, if possible one with a close.             *)
NoDay == [open |-> None, high |-> None, low |-> None, close |-> None]
Daily(c) == c.interval \in {"1d", "plain"}
Usable(c) == IF c.interval = "plain" THEN {c.open, c.high, c.low, c.close} # {None} ELSE c.close # None
Day(frame) ==
    LET daily == SelectSeq(frame.candles, Daily)
        usable == SelectSeq(daily, Usable)
        rest == SelectSeq(daily, LAMBDA c : c.interval = "1d")
        candle == IF usable # <<>> THEN Head(usable) ELSE IF rest # <<>> THEN Last(rest) ELSE NoDay
    IN  [open |-> candle.open, high |-> candle.high, low |-> candle.low, close |-> candle.close]

(* Without a last price the close of the day stands in.                    *)
NormaliseInstrument(frame) ==
    LET ltp == Scalar(frame, "ltp")
        day == Day(frame)
    IN  [ltp |-> IF ltp = None THEN day.close ELSE ltp, prev |-> Scalar(frame, "prev"),
         vwap |-> Scalar(frame, "vwap"), volume |-> Scalar(frame, "volume"),
         oi |-> Scalar(frame, "oi"), oiPrev |-> Scalar(frame, "oiPrev"),
         bid |-> Quote(frame).bid, ask |-> Quote(frame).ask, day |-> day]

IsEmpty(tick) == tick.ltp = None /\ tick.day.close = None

(* The ticks of a message, by instrument: a broken payload and one without *)
(* a price are left out.                                                   *)
NormaliseMessage(frames) ==
    LET taken == {i \in DOMAIN frames : frames[i] # Broken /\ ~IsEmpty(NormaliseInstrument(frames[i]))}
    IN  [i \in taken |-> NormaliseInstrument(frames[i])]

(* Changes against the previous close and the previous open interest, in   *)
(* hundredths of a percent.                                                *)
Change(new, old) == IF new = None \/ old \in {None, 0} THEN None ELSE Share(100 * (new - old), old)
ChgPct(tick) == Change(tick.ltp, tick.prev)
OiChgPct(tick) == Change(tick.oi, tick.oiPrev)

===============================================================================
