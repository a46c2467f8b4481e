-------------------------------- MODULE MCParts --------------------------------
(***************************************************************************)
(* Small instances of nine parts that have no state in common, in one      *)
(* state graph: the initial state chooses a part, and every step is one of *)
(* that part's.  Steps of two parts commute, so that interleaving them     *)
(* would add states and no behaviour of either.                            *)
(***************************************************************************)
EXTENDS RepositorySync, MonitorLoop, PerformanceStore, CryptoSignals, MarketScan,
        SwingScan, LongTermResearch, IpoCenter, BrokerConnection

CONSTANTS infy, tcs, sbin, hdfc, alert, groww, upstox

VARIABLE part

automation == <<syncVars, monitorVars, performanceVars>>
markets == <<signalVars, marketVars, swingVars>>
research == <<researchVars, ipoVars>>
others == <<automation, markets, research>>

PartsInit ==
    /\ part \in {"sync", "monitor", "performance", "signals", "market", "swing", "research", "ipo",
                "brokers"}
    /\ SyncInit /\ MonitorInit /\ PerformanceInit
    /\ SignalsInit /\ MarketInit /\ SwingInit
    /\ ResearchInit /\ IpoInit
    /\ Init /\ (part # "brokers" => env = {})

PartsNext ==
    /\ UNCHANGED part
    /\ \/ /\ part = "sync" /\ SyncNext
          /\ UNCHANGED <<monitorVars, performanceVars, markets, research, vars>>
       \/ /\ part = "monitor" /\ MonitorNext
          /\ UNCHANGED <<syncVars, performanceVars, markets, research, vars>>
       \/ /\ part = "performance" /\ PerformanceNext
          /\ UNCHANGED <<syncVars, monitorVars, markets, research, vars>>
       \/ /\ part = "signals" /\ SignalsNext
          /\ UNCHANGED <<marketVars, swingVars, automation, research, vars>>
       \/ /\ part = "market" /\ MarketNext
          /\ UNCHANGED <<signalVars, swingVars, automation, research, vars>>
       \/ /\ part = "swing" /\ SwingNext
          /\ UNCHANGED <<signalVars, marketVars, automation, research, vars>>
       \/ /\ part = "research" /\ ResearchNext
          /\ UNCHANGED <<ipoVars, automation, markets, vars>>
       \/ /\ part = "ipo" /\ IpoNext
          /\ UNCHANGED <<researchVars, automation, markets, vars>>
       \/ /\ part = "brokers" /\ Next
          /\ UNCHANGED others

PartsSpec ==
    /\ PartsInit /\ [][PartsNext]_<<part, others, vars>>
    /\ part = "sync" => SyncFairness

-----------------------------------------------------------------------------
\* The monitor: two symbols, typed in several ways, one of them empty.
MCSymbols    == <<infy, tcs>>
MCInputs     == {"INFY", "infy ", "TCS", " "}
MCNormalized == [i \in MCInputs |-> CASE i \in {"INFY", "infy "} -> infy [] i = "TCS" -> tcs [] OTHER -> NoSymbol]
MCSession    == 1 .. 4

\* Performance: a purchase and a sale, with no, one or two prices seen.
Seen(at, price) == [at |-> at, price |-> price]
MCObservations ==
    {[action |-> p[1], signal_price |-> 4, stop_loss |-> p[2], target_1 |-> p[3], target_2 |-> p[4],
      prices |-> seen] :
        p \in {<<"BUY", 3, 5, 6>>, <<"SELL", 5, 3, 2>>},
        seen \in {<<>>} \cup {<<Seen(at, price)>> : at \in {5, 15}, price \in {2, 4, 6}}
                 \cup {<<Seen(5, x), Seen(15, y)>> : x, y \in 2 .. 6}}
MCHorizons == {5, 15}

\* Crypto signals: every mixture of signs at one price; and prices beyond the
\* stop or a level.  A dozen swings on both sides of the price.
MCReadings ==
    [cross : {-1, 0, 1}, macd : {-1, 0, 1}, trend_5m : {-1, 1}, trend_15m : {-1, 1},
     rsi : {45, 50, 76}, rvol : {-1, 9, 12}, price : {1000}, range : {1}]
    \cup [cross : {-1, 1}, macd : {-1, 1}, trend_5m : {-1, 1}, trend_15m : {-1, 1},
          rsi : {50}, rvol : {12}, price : {996, 1004}, range : {3}]
Candles(highs) == [i \in DOMAIN highs |-> [high |-> highs[i], low |-> highs[i] - 2]]
MCFrames == {Candles(<<1003, 1008, 1001, 1005, 1000, 1006, 1002, 1010, 1001, 1001>>),
             Candles(<<1000, 994, 1001, 997, 1000, 996, 1002, 990, 1001, 999, 1001>>)}

\* The intraday scanner: four stocks of two sectors; strong, weak and equal
\* readings, and one without volume.
MCSector == (infy :> "IT") @@ (tcs :> "IT") @@ (sbin :> "Banks") @@ (hdfc :> "Banks")
MCFallback == <<infy, sbin>>
MCActiveLists == {<<>>, <<infy, tcs>>, <<tcs, sbin, hdfc>>}
Market(cross, macd, rsi, change, rvol) ==
    [cross |-> cross, macd |-> macd, rsi |-> rsi, change |-> change, rvol |-> rvol]
MCStockReadings == {Market(1, 1, 55, 5, 30), Market(1, -1, 45, -30, 20), Market(1, 1, 55, 0, -1)}

\* The swing scanner: segments from the category, the sheet, the rank or the
\* position; a stock that occurs twice; a workbook without a stock.
Listed(symbol, category, rank) == [symbol |-> symbol, category |-> category, rank |-> rank]
Sheet(segment, list) == [segment |-> segment, rows |-> list]
MCSwingUniverse == <<"s", "t", "u">>
MCWorkbooks ==
    {<<Sheet("", <<Listed("s", "", 1), Listed("", "", 2), Listed("t", "", 120), Listed("u", "", 0)>>)>>,
     <<Sheet("Mid Cap", <<Listed("s", "", 1), Listed("t", "Large Cap", 0)>>),
       Sheet("Small Cap", <<Listed("t", "", 0), Listed("x", "", 0)>>)>>,
     <<Sheet("", <<Listed("", "", 1)>>)>>}
Daily(trend, momentum, breakout) ==
    [trend |-> trend, momentum |-> momentum, volume |-> TRUE, breakout |-> breakout,
     price |-> 100, low |-> 99]
MCDailyReadings == {Daily(TRUE, TRUE, TRUE), Daily(TRUE, FALSE, FALSE), Daily(FALSE, TRUE, TRUE)}

\* Long-term research: a company, and what may be different or missing.
NewestFirst(x, y, z) == (2024 :> x) @@ (2023 :> y) @@ (2022 :> z)
Income(revenue, earnings, ebit) == [revenue |-> revenue, earnings |-> earnings, ebit |-> ebit]
Flow(ocf, fcf) == [ocf |-> ocf, fcf |-> fcf]
Sound ==
    [income |-> NewestFirst(Income(8, 4, 2), Income(4, 3, 2), Income(2, 1, 1)),
     cashflow |-> NewestFirst(Flow(4, 2), Flow(3, 1), Flow(1, 1)),
     balance |-> NewestFirst([debt |-> 2, equity |-> 8], [debt |-> 2, equity |-> 8],
                             [debt |-> 2, equity |-> 8]),
     sector |-> "X", roe |-> 18, debt |-> Missing, pe |-> 20, pb |-> 3]
MCCompanies ==
    {[Sound EXCEPT !.pe = pe, !.debt = debt, !.roe = roe] :
        pe \in {Missing, -5, 10, 30}, debt \in {Missing, 25}, roe \in {Missing, 12}}
    \cup {[Sound EXCEPT !.income = NewestFirst(Income(v, x, 2), Income(4, 3, 2), Income(2, 1, 1))] :
            v \in {Missing, 2, 6}, x \in {-2, 0, 2}}
    \cup {Sound, [Sound EXCEPT !.sector = "Y"],
          [Sound EXCEPT !.cashflow = NewestFirst(Flow(Missing, Missing), Flow(3, -1), Flow(1, 1))],
          [Sound EXCEPT !.income = (2024 :> Income(6, 2, 2)) @@ (2022 :> Income(2, -1, 1))]}
MCResearchUniverse == <<"s", "t">>

\* Brokers: the server starts with any tokens; the factory refuses one broker.
MCBrokers == {groww, upstox}
MCEnvironments == SUBSET MCBrokers
MCMisconfigured == {upstox}

\* The IPO page: issues that open and close on several days, one undated.
Issue(company, open, close) == [company |-> company, open |-> open, close |-> close]
MCCalendars == {{}, {Issue("a", 1, 2), Issue("b", 2, 4), Issue("c", NoDate, 3)}, {Issue("b", 2, 4)}}
MCFallbackIpos == {Issue("d", 1, 3), Issue("e", 3, 5)}
=============================================================================
