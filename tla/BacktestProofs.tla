---------------------------- MODULE BacktestProofs ----------------------------
(***************************************************************************)
(* What holds of BacktestEngine for every market, every strategy, every    *)
(* capital and every pair of rates; of Backtest, for every window, period  *)
(* and level that a strategy accepts; and of BacktestPersist, which stores *)
(* what they compute, for any number of requests and datasets and a pool   *)
(* of any size.                                                            *)
(***************************************************************************)
EXTENDS Backtest, BacktestPersist, SequenceTheorems, FiniteSetTheorems, WellFoundedInduction, TLAPS


-----------------------------------------------------------------------------
(* Arithmetic                                                                *)

\* The product of two numbers that are not negative is not negative.
LEMMA ProductNat == ASSUME NEW x \in Nat, NEW y \in Nat PROVE x * y \in Nat
  OBVIOUS

\* A product grows with its factor.
LEMMA ProductMonotone ==
    ASSUME NEW x \in Int, NEW y \in Int, NEW k \in Nat, x <= y PROVE k * x <= k * y
  <1>1. y - x \in Nat
    OBVIOUS
  <1>2. k * (y - x) >= 0
    BY <1>1, ProductNat
  <1>3. k * (y - x) = k * y - k * x
    OBVIOUS
  <1> QED BY <1>2, <1>3

\* RoundDiv is an integer within one half of the quotient.
LEMMA RoundDivBounds ==
    ASSUME NEW x \in Int, NEW y \in Nat \ {0}
    PROVE  /\ RoundDiv(x, y) \in Int
           /\ 2 * (y * RoundDiv(x, y)) <= 2 * x + y
           /\ 2 * x < 2 * (y * RoundDiv(x, y)) + y
  <1> DEFINE n == 2 * x + y  d == 2 * y  q == n \div d
  <1>1. n \in Int /\ d \in Nat \ {0}
    OBVIOUS
  <1> HIDE DEF n, d
  <1>2. q \in Int /\ d * q <= n /\ n < d * q + d
    BY <1>1
  <1> HIDE DEF q
  <1>3. d * q = 2 * (y * q)
    BY <1>2 DEF d
  <1> QED BY <1>2, <1>3 DEF RoundDiv, q, n, d

\* A number that times a positive one is not negative is not negative itself.
LEMMA SignOfFactor ==
    ASSUME NEW k \in Nat \ {0}, NEW x \in Int, k * x >= 0 PROVE x >= 0
  <1> SUFFICES ASSUME x < 0 PROVE FALSE
    OBVIOUS
  <1>1. 0 - x - 1 \in Nat
    OBVIOUS
  <1>2. k * (0 - x - 1) >= 0
    BY <1>1, ProductNat
  <1>3. k * (0 - x - 1) = 0 - k * x - k
    OBVIOUS
  <1> QED BY <1>2, <1>3

\* A square is not negative.
LEMMA SquareNat == ASSUME NEW x \in Int PROVE x * x \in Nat
  <1>1. CASE x >= 0
    BY <1>1
  <1>2. CASE x < 0
    <2>1. -x \in Nat /\ (-x) * (-x) = x * x
      BY <1>2
    <2> QED BY <2>1
  <1> QED BY <1>1, <1>2

\* The quotient of numbers that are not negative is not negative.
LEMMA RoundDivNat ==
    ASSUME NEW x \in Nat, NEW y \in Nat \ {0} PROVE RoundDiv(x, y) \in Nat
  <1> DEFINE r == RoundDiv(x, y)
  <1>1. r \in Int /\ 2 * x < 2 * (y * r) + y
    BY RoundDivBounds
  <1> HIDE DEF r
  <1>2. y * (2 * r + 1) > 0
    BY <1>1
  <1>3. 2 * r + 1 >= 0
    BY <1>1, <1>2, SignOfFactor
  <1>4. r >= 0
    BY <1>1, <1>3
  <1> QED BY <1>1, <1>4 DEF r

\* RoundMoney is within half a cent of x / y.
LEMMA RoundMoneyBounds ==
    ASSUME NEW x \in Int, NEW y \in Nat \ {0}
    PROVE  /\ RoundMoney(x, y) \in Int
           /\ 2 * (y * RoundMoney(x, y)) <= 2 * x + Cent * y
           /\ 2 * x < 2 * (y * RoundMoney(x, y)) + Cent * y
           /\ x >= 0 => RoundMoney(x, y) \in Nat
  <1> DEFINE z == Cent * y  r == RoundDiv(x, z)
  <1>1. z \in Nat \ {0}
    BY UnitsAssumption, ProductNat
  <1>2. r \in Int /\ 2 * (z * r) <= 2 * x + z /\ 2 * x < 2 * (z * r) + z
    BY <1>1, RoundDivBounds
  <1>3. x >= 0 => r \in Nat
    BY <1>1, RoundDivNat
  <1> HIDE DEF r
  <1>4. z * r = y * (Cent * r)
    BY <1>2, UnitsAssumption
  <1>5. Cent * r \in Int /\ (x >= 0 => Cent * r \in Nat)
    BY <1>2, <1>3, UnitsAssumption, ProductNat
  <1>6. RoundMoney(x, y) = Cent * r
    BY DEF RoundMoney, r, z
  <1> QED BY <1>2, <1>4, <1>5, <1>6 DEF z

-----------------------------------------------------------------------------
(* Orders                                                                    *)

\* A commission is not negative and at most half a cent above the exact one.
LEMMA CommissionBounds ==
    ASSUME config \in Configs, NEW value \in Nat
    PROVE  /\ Commission(value) \in Nat
           /\ 2 * (Whole * Commission(value)) <= 2 * (value * config.commission) + Cent * Whole
  <1>1. config.commission \in Nat /\ value * config.commission \in Nat
    BY ConfigsAssumption, ProductNat
  <1> QED BY <1>1, RoundMoneyBounds, UnitsAssumption DEF Commission

\* With slippage below one half, a fill price is a price.
LEMMA FillPricePositive ==
    ASSUME config \in Configs, NEW opening \in Nat \ {0}
    PROVE  /\ FillPrice(opening, Whole + config.slippage) \in Nat \ {0}
           /\ FillPrice(opening, Whole - config.slippage) \in Nat \ {0}
  <1> DEFINE s == config.slippage
  <1>1. s \in Nat /\ 2 * s < Whole /\ Whole \in Nat \ {0}
    BY ConfigsAssumption, UnitsAssumption
  <1> HIDE DEF s
  <1>2. ASSUME NEW rate \in Nat, 2 * rate > Whole
        PROVE  FillPrice(opening, rate) \in Nat \ {0}
    <2> DEFINE r == RoundDiv(opening * rate, Whole)
    <2>1. opening * rate \in Nat /\ rate <= opening * rate
      <3>1. opening - 1 \in Nat /\ rate * (opening - 1) >= 0
        BY ProductNat
      <3>2. rate * (opening - 1) = opening * rate - rate
        OBVIOUS
      <3> QED BY <3>1, <3>2, ProductNat
    <2>2. r \in Nat /\ 2 * (opening * rate) < 2 * (Whole * r) + Whole
      BY <1>1, <2>1, RoundDivNat, RoundDivBounds
    <2> HIDE DEF r
    <2>3. r # 0
      BY <1>1, <1>2, <2>1, <2>2
    <2> QED BY <2>2, <2>3 DEF FillPrice, r
  <1>3. Whole + s \in Nat /\ 2 * (Whole + s) > Whole /\ Whole - s \in Nat /\ 2 * (Whole - s) > Whole
    BY <1>1
  <1> QED BY <1>2, <1>3 DEF s

\* An order that is placed costs what there is, but for half a cent at most,
\* and no more than there is at half a cent or more a share.
LEMMA SizedBounds ==
    ASSUME config \in Configs, NEW price \in Nat, cash \in Nat
    PROVE  /\ Sized(price) \in Nat
           /\ Sized(price) # 0 =>
                  /\ price # 0
                  /\ 2 * (cash - Cost(price, Sized(price))) + Cent >= 0
                  /\ 2 * Gross(price) >= Whole * Cent => Cost(price, Sized(price)) <= cash
  <1> DEFINE c == config.commission  G == Gross(price)  max == MaxQuantity(cash, price)
             q == Sized(price)
  <1>1. c \in Nat /\ Whole \in Nat \ {0} /\ Cent \in Nat \ {0}
    BY ConfigsAssumption, UnitsAssumption
  <1>2. G = price * Whole + price * c /\ G \in Nat
    <2>1. G = price * (Whole + c)
      BY DEF Gross
    <2> QED BY <1>1, <2>1, ProductNat
  <1>3. price # 0 => G # 0
    <2>1. price # 0 => price * (Whole + c) # 0
      BY <1>1
    <2> QED BY <2>1 DEF Gross
  <1>4. max \in Nat /\ max * G <= cash * Whole /\ (price = 0 => max = 0)
    <2>1. CASE price = 0
      <3>1. max = 0
        BY <2>1 DEF MaxQuantity
      <3>2. cash * Whole \in Nat
        BY <1>1, ProductNat
      <3> QED BY <1>2, <3>1, <3>2
    <2>2. CASE price # 0
      <3> DEFINE n == cash * Whole
      <3>1. n \in Nat
        BY <1>1, ProductNat
      <3>2. max = n \div G
        BY <2>2 DEF MaxQuantity
      <3> HIDE DEF n, G, max
      <3>3. max \in Nat /\ G * max <= n
        BY <1>2, <1>3, <2>2, <3>1, <3>2
      <3> QED BY <1>2, <2>2, <3>3 DEF n
    <2> QED BY <2>1, <2>2
  <1>5. q = IF max = 0 \/ Cost(price, max) <= cash THEN max ELSE max - 1
    BY DEF Sized
  <1>6. q \in Nat
    BY <1>4, <1>5
  <1>7. ASSUME q # 0 PROVE price # 0
    BY <1>4, <1>5, <1>7
  <1>8. Cost(price, q) = price * q + Commission(price * q) /\ Cost(price, q) \in Nat
    <2>1. price * q \in Nat
      BY <1>6, ProductNat
    <2> QED BY <2>1, CommissionBounds DEF Cost
  <1>9. ASSUME q # 0, q # max
        PROVE  Whole * (2 * (cash - Cost(price, q)) + Cent) >= 2 * G
    <2> DEFINE v == price * q  C == Commission(v)
    <2>1. v \in Nat /\ C \in Nat /\ 2 * (Whole * C) <= 2 * (v * c) + Cent * Whole
      BY <1>6, ProductNat, CommissionBounds
    <2> HIDE DEF C
    <2>2. q = max - 1
      BY <1>5, <1>9
    <2>3. Whole * v + v * c = q * G
      BY <1>1, <1>2, <1>6
    <2>4. q * G = max * G - G
      BY <1>2, <1>4, <2>2
    <2>5. Cost(price, q) = v + C
      BY <1>8 DEF C
    <2>6. Whole * (2 * (cash - (v + C)) + Cent)
            = 2 * (cash * Whole) - 2 * (Whole * v) - 2 * (Whole * C) + Cent * Whole
      BY <1>1, <2>1
    <2> HIDE DEF v, q, G, max
    <2> DEFINE a == Whole * v  b == v * c  d == Whole * C  e == Cent * Whole  f == cash * Whole
               g == q * G  h == max * G
    <2>7. a \in Int /\ b \in Int /\ d \in Int /\ e \in Int /\ f \in Int /\ g \in Int /\ h \in Int
      BY <1>1, <1>2, <1>4, <1>6, <2>1
    <2>8. /\ 2 * d <= 2 * b + e /\ a + b = g /\ g = h - G /\ h <= f /\ G \in Nat
      BY <1>2, <1>4, <2>1, <2>3, <2>4
    <2> HIDE DEF a, b, d, e, f, g, h
    <2>9. 2 * f - 2 * a - 2 * d + e >= 2 * G
      BY <2>7, <2>8
    <2> QED BY <2>5, <2>6, <2>9 DEF a, d, e, f
  <1>10. ASSUME q # 0 PROVE 2 * (cash - Cost(price, q)) + Cent >= 0
    <2> DEFINE x == 2 * (cash - Cost(price, q)) + Cent
    <2>1. x \in Int
      BY <1>1, <1>8
    <2>2. CASE q = max
      BY <1>1, <1>4, <1>5, <1>8, <1>10, <2>2
    <2>3. CASE q # max
      <3>1. Whole * x >= 2 * G
        BY <1>9, <1>10, <2>3
      <3> HIDE DEF x, G
      <3>2. Whole * x >= 0
        BY <1>1, <1>2, <2>1, <3>1
      <3>3. x >= 0
        BY <1>1, <2>1, <3>2, SignOfFactor
      <3> QED BY <3>3 DEF x
    <2> QED BY <2>2, <2>3
  <1>11. ASSUME q # 0, 2 * G >= Whole * Cent PROVE Cost(price, q) <= cash
    <2>1. CASE q = max
      BY <1>5, <1>8, <1>4, <1>11, <2>1
    <2>2. CASE q # max
      <3> DEFINE y == 2 * (cash - Cost(price, q))
      <3>1. y \in Int /\ Whole * (y + Cent) >= 2 * G
        BY <1>8, <1>9, <1>11, <2>2
      <3> HIDE DEF y
      <3>2. Whole * (y + Cent) = Whole * y + Whole * Cent
        BY <1>1, <3>1
      <3>3. Whole * y >= 0
        <4> DEFINE a == Whole * y  b == Whole * Cent
        <4>1. a \in Int /\ b \in Int
          BY <1>1, <3>1
        <4> HIDE DEF a, b
        <4>2. a + b >= 2 * G /\ 2 * G >= b
          BY <1>11, <3>1, <3>2 DEF a, b
        <4>3. a >= 0
          BY <1>2, <4>1, <4>2
        <4> QED BY <4>3 DEF a
      <3>4. y >= 0
        BY <1>1, <3>1, <3>3, SignOfFactor
      <3> QED BY <1>8, <3>4 DEF y
    <2> QED BY <2>1, <2>2
  <1> QED BY <1>6, <1>7, <1>10, <1>11

\* The commission of a sale is never more than the sale.
LEMMA ProceedsNat ==
    ASSUME config \in Configs, NEW value \in Nat
    PROVE  value - Commission(value) \in Nat
  <1> DEFINE x == value * config.commission  y == Cent * Whole  r == RoundDiv(x, y)
             C == Commission(value)
  <1>1. config.commission \in Nat /\ 2 * config.commission < Whole /\ Whole \in Nat /\ Cent \in Nat \ {0}
    BY ConfigsAssumption, UnitsAssumption
  <1>2. x \in Nat /\ y \in Nat \ {0} /\ Whole \in Nat \ {0}
    BY <1>1, ProductNat, UnitsAssumption
  <1>3. C \in Nat /\ 2 * (Whole * C) <= 2 * x + y /\ C = Cent * r
    BY CommissionBounds DEF Commission, RoundMoney
  <1>4. r \in Nat /\ 2 * (y * r) <= 2 * x + y
    <2> HIDE DEF x, y
    <2>1. x \in Int
      BY <1>2
    <2>2. r \in Nat
      BY <1>2, RoundDivNat
    <2>3. 2 * (y * r) <= 2 * x + y
      BY <1>2, <2>1, RoundDivBounds
    <2> QED BY <2>2, <2>3
  <1>5. 2 * x <= value * Whole
    <2>1. value * (2 * config.commission) <= value * Whole
      BY <1>1, ProductMonotone
    <2>2. value * (2 * config.commission) = 2 * x
      BY <1>1
    <2> QED BY <2>1, <2>2
  <1> HIDE DEF x, y, r, C
  <1>6. CASE r = 0
    <2>1. C = 0
      BY <1>1, <1>3, <1>6
    <2> QED BY <2>1 DEF C
  <1>7. CASE r # 0
    <2>1. y * r >= y
      <3>1. y * 1 <= y * r
        BY <1>2, <1>4, <1>7, ProductMonotone
      <3> QED BY <1>2, <3>1
    <2>2. y <= 2 * x
      BY <1>2, <1>4, <2>1
    <2>3. Whole * C <= 2 * x
      BY <1>1, <1>2, <1>3, <2>2
    <2>4. Whole * (value - C) >= 0
      BY <1>1, <1>2, <1>3, <1>5, <2>3
    <2>5. value - C >= 0
      BY <1>2, <1>3, <2>4, SignOfFactor
    <2> QED BY <1>3, <2>5 DEF C
  <1> QED BY <1>4, <1>6, <1>7

-----------------------------------------------------------------------------
(* The inductive invariant                                                   *)

\* The signal of the last bar is the one that waits.
PendingIsLast == pending = IF bars = <<>> THEN "HOLD" ELSE bars[Len(bars)].signal

\* What is true of the account between two bars.
Account ==
    /\ cash \in Int /\ position \in Nat /\ basis \in Nat
    /\ realised \in Int /\ sales \in Nat
    /\ trades \subseteq Trades
    /\ \A t \in trades : t.quantity > 0 /\ t.price > 0 /\ t.commission >= 0
    /\ position = 0 => basis = 0
    /\ basis >= position
    /\ 2 * cash + Cent >= 0
    /\ NeverOverdrawn
    /\ PnlAddsUp

\* What is true of the benchmark.
Benchmark ==
    /\ hold \in [quantity : Nat, entry : Nat]
    /\ hold.quantity * Gross(hold.entry) <= config.initialCapital * Whole * Whole

Run ==
    /\ config \in Configs
    /\ bars \in Seq([quote : Quotes, signal : Signals])
    /\ pending \in Signals
    /\ PendingIsLast

IInv == Run /\ Account /\ Benchmark /\ FilledAtNextOpen

\* An order that is new at a fill.
NewOrder(t, opening) ==
    /\ t.bar = Now
    /\ pending = t.side
    /\ t.price = FillPrice(opening, IF t.side = "BUY" THEN Whole + config.slippage
                                                   ELSE Whole - config.slippage)

\* The account is right before the first bar.
LEMMA InitInv == Init => IInv
  <1> SUFFICES ASSUME Init PROVE IInv
    OBVIOUS
  <1> DEFINE k == config.initialCapital
  <1>1. config \in Configs /\ k \in Nat \ {0} /\ Whole \in Nat \ {0} /\ Cent \in Nat \ {0}
    BY ConfigsAssumption, UnitsAssumption DEF Init
  <1>2. Run
    BY <1>1 DEF Init, Run, PendingIsLast, Signals
  <1>3. Account
    BY <1>1 DEF Init, Account, NeverOverdrawn, PnlAddsUp
  <1>4. Benchmark
    <2>1. hold = [quantity |-> 0, entry |-> 0] /\ Gross(0) = 0
      BY <1>1, ConfigsAssumption DEF Init, Gross
    <2>2. k * Whole \in Nat /\ k * Whole * Whole \in Nat
      BY <1>1, ProductNat
    <2> QED BY <2>1, <2>2 DEF Benchmark
  <1>5. FilledAtNextOpen
    BY DEF Init, FilledAtNextOpen
  <1> QED BY <1>2, <1>3, <1>4, <1>5 DEF IInv

\* A purchase keeps the account right.
LEMMA BuyKeeps ==
    ASSUME IInv, NEW opening \in Nat \ {0}, config' = config,
           pending = "BUY", position = 0, cash > 0, ExecuteBuy(opening)
    PROVE  Account' /\ \A t \in trades' \ trades : NewOrder(t, opening)
  <1> DEFINE price == FillPrice(opening, Whole + config.slippage)  q == Sized(price)
             C == Commission(price * q)  cost == Cost(price, q)
             order == [bar |-> Now, side |-> "BUY", quantity |-> q, price |-> price,
                       commission |-> C, pnl |-> 0]
  <1>1. config \in Configs /\ cash \in Nat /\ price \in Nat \ {0} /\ Cent \in Nat \ {0}
        /\ config.initialCapital \in Nat
    BY FillPricePositive, UnitsAssumption, ConfigsAssumption DEF IInv, Run, Account
  <1>2. Account
    BY DEF IInv
  <1>3. q \in Nat
    BY <1>1, SizedBounds
  <1>4. CASE q = 0
    <2>1. UNCHANGED account
      BY <1>4 DEF ExecuteBuy
    <2> QED BY <1>2, <2>1 DEF Account, account, NeverOverdrawn, PnlAddsUp, Gross
  <1>5. CASE q # 0
    <2>1. /\ cash' = cash - cost /\ position' = q /\ basis' = cost
          /\ trades' = trades \cup {order}
          /\ realised' = realised /\ sales' = sales
      BY <1>5 DEF ExecuteBuy, Order
    <2>2. C \in Nat /\ price * q \in Nat /\ cost = price * q + C
      BY <1>1, <1>3, ProductNat, CommissionBounds DEF Cost
    <2>3. q <= price * q
      <3>1. q * 1 <= q * price
        BY <1>1, <1>3, ProductMonotone
      <3> QED BY <1>1, <1>3, <3>1
    <2>4. /\ 2 * (cash - cost) + Cent >= 0
          /\ 2 * Gross(price) >= Whole * Cent => cost <= cash
      BY <1>1, <1>5, SizedBounds
    <2>5. Now \in Nat
      BY DEF Now, IInv, Run
    <2> HIDE DEF price, q, C, cost
    <2>6. order \in Trades /\ order.quantity > 0 /\ order.price > 0 /\ order.commission >= 0
      BY <1>1, <1>3, <1>5, <2>2, <2>5 DEF Trades
    <2>7. NeverOverdrawn'
      <3>1. CASE 2 * Gross(price) >= Whole * Cent
        BY <1>1, <2>1, <2>2, <2>4, <3>1 DEF NeverOverdrawn
      <3>2. CASE ~(2 * Gross(price) >= Whole * Cent)
        <4>1. Gross(price) \in Int /\ Whole * Cent \in Int
          BY <1>1, UnitsAssumption, ConfigsAssumption DEF Gross
        <4>2. 2 * Gross(price) < Whole * Cent
          BY <3>2, <4>1
        <4>3. 2 * (order.price * (Whole + config'.commission)) < Whole * Cent
          BY <4>2 DEF Gross
        <4>4. order \in trades'
          BY <2>1
        <4> QED BY <4>3, <4>4 DEF NeverOverdrawn, Gross
      <3> QED BY <3>1, <3>2
    <2>8. PnlAddsUp'
      <3>1. cash' + basis' = cash + basis
        <4>1. basis = 0 /\ cost \in Int
          BY <1>2, <2>2 DEF Account
        <4> QED BY <1>1, <2>1, <4>1
      <3>2. cash' \in Int /\ basis' \in Int
        BY <1>1, <2>1, <2>2
      <3> QED BY <1>1, <1>2, <2>1, <3>1, <3>2 DEF Account, PnlAddsUp
    <2>9. \A t \in trades' \ trades : NewOrder(t, opening)
      BY <2>1 DEF NewOrder, price
    <2>10. Account'
      BY <1>1, <1>2, <1>3, <1>5, <2>1, <2>2, <2>3, <2>4, <2>6, <2>7, <2>8 DEF Account
    <2> QED BY <2>9, <2>10
  <1> QED BY <1>4, <1>5

\* A sale keeps the account right.
LEMMA SellKeeps ==
    ASSUME IInv, NEW opening \in Nat \ {0}, config' = config,
           pending = "SELL", position > 0, ExecuteSell(opening)
    PROVE  Account' /\ \A t \in trades' \ trades : NewOrder(t, opening)
  <1> DEFINE price == FillPrice(opening, Whole - config.slippage)
             value == price * position  C == Commission(value)
             proceeds == value - C  x == proceeds - basis  pnl == RoundMoney(x, 1)
             order == [bar |-> Now, side |-> "SELL", quantity |-> position, price |-> price,
                       commission |-> Commission(price * position), pnl |-> pnl]
  <1>1. config \in Configs /\ price \in Nat \ {0} /\ Cent \in Nat \ {0}
        /\ config.initialCapital \in Nat
    BY FillPricePositive, UnitsAssumption, ConfigsAssumption DEF IInv, Run
  <1>2. Account
    BY DEF IInv
  <1>3. cash \in Int /\ position \in Nat /\ basis \in Nat /\ realised \in Int /\ sales \in Nat
    BY <1>2 DEF Account
  <1>4. /\ cash' = cash + proceeds /\ position' = 0 /\ basis' = 0
        /\ trades' = trades \cup {order}
        /\ realised' = realised + pnl /\ sales' = sales + 1
    BY DEF ExecuteSell, Sell, Order
  <1>5. value \in Nat /\ C \in Nat /\ proceeds \in Nat
    <2>1. value \in Nat
      BY <1>1, <1>3, ProductNat
    <2> HIDE DEF value
    <2> QED BY <1>1, <2>1, CommissionBounds, ProceedsNat
  <1>6. x \in Int /\ pnl \in Int /\ 2 * pnl <= 2 * x + Cent /\ 2 * x < 2 * pnl + Cent
    <2>1. x \in Int
      BY <1>3, <1>5
    <2> HIDE DEF x
    <2>2. 1 \in Nat \ {0}
      OBVIOUS
    <2>3. /\ RoundMoney(x, 1) \in Int
          /\ 2 * (1 * RoundMoney(x, 1)) <= 2 * x + Cent * 1
          /\ 2 * x < 2 * (1 * RoundMoney(x, 1)) + Cent * 1
      BY <2>1, <2>2, RoundMoneyBounds, ZenonT(30)
    <2> QED BY <1>1, <2>1, <2>3
  <1>7. Now \in Nat
    BY DEF Now, IInv, Run
  <1>8. Commission(price * position) = C
    OBVIOUS
  <1>9. \A t \in trades' \ trades : NewOrder(t, opening)
    BY <1>4 DEF NewOrder
  <1> HIDE DEF price, C, proceeds, pnl, value
  <1>10. order \in Trades /\ order.quantity > 0 /\ order.price > 0 /\ order.commission >= 0
    BY <1>1, <1>3, <1>5, <1>6, <1>7, <1>8 DEF Trades
  <1>11. trades' \subseteq Trades
         /\ \A t \in trades' : t.quantity > 0 /\ t.price > 0 /\ t.commission >= 0
    BY <1>2, <1>4, <1>10 DEF Account
  <1>12. cash' \in Int /\ cash <= cash'
    BY <1>3, <1>4, <1>5
  <1>13. NeverOverdrawn'
    <2>1. CASE cash >= 0
      BY <1>3, <1>12, <2>1 DEF NeverOverdrawn
    <2>2. CASE ~(cash >= 0)
      <3>1. PICK t \in trades : 2 * Gross(t.price) < Whole * Cent
        BY <1>2, <2>2 DEF Account, NeverOverdrawn
      <3>2. t \in trades' /\ 2 * (t.price * (Whole + config'.commission)) < Whole * Cent
        BY <1>4, <3>1 DEF Gross
      <3> QED BY <3>2 DEF NeverOverdrawn, Gross
    <2> QED BY <2>1, <2>2
  <1>14. PnlAddsUp'
    <2> DEFINE gap == cash + basis - config.initialCapital - realised  k == Cent * sales
    <2>1. gap \in Int /\ k \in Int
      BY <1>1, <1>3
    <2>2. 2 * gap <= k /\ -k <= 2 * gap
      BY <1>2 DEF Account, PnlAddsUp
    <2>3. cash' + basis' - config'.initialCapital - realised' = gap + (x - pnl)
      BY <1>1, <1>3, <1>4, <1>5, <1>6
    <2>4. Cent * sales' = k + Cent
      BY <1>1, <1>3, <1>4
    <2> HIDE DEF gap, k, x
    <2>5. 2 * (gap + (x - pnl)) <= k + Cent /\ -(k + Cent) <= 2 * (gap + (x - pnl))
      BY <1>1, <1>6, <2>1, <2>2
    <2> QED BY <2>3, <2>4, <2>5 DEF PnlAddsUp
  <1> QED BY <1>1, <1>3, <1>4, <1>6, <1>9, <1>11, <1>12, <1>13, <1>14, <1>2 DEF Account

-----------------------------------------------------------------------------
(* A round of the loop                                                       *)

\* Whatever waits, the fill keeps the account right.
LEMMA FillKeeps ==
    ASSUME IInv, NEW opening \in Nat \ {0}, config' = config, Fill(pending, opening)
    PROVE  Account' /\ \A t \in trades' \ trades : NewOrder(t, opening)
  <1>1. CASE pending = "BUY" /\ position = 0 /\ cash > 0
    <2>1. ExecuteBuy(opening)
      BY <1>1 DEF Fill
    <2> QED BY <1>1, <2>1, BuyKeeps
  <1>2. CASE pending = "SELL" /\ position > 0
    <2>1. ExecuteSell(opening)
      BY <1>2 DEF Fill
    <2> QED BY <1>2, <2>1, SellKeeps
  <1>3. CASE /\ ~(pending = "BUY" /\ position = 0 /\ cash > 0)
             /\ ~(pending = "SELL" /\ position > 0)
    <2>1. UNCHANGED account
      BY <1>3 DEF Fill
    <2>2. Account
      BY DEF IInv
    <2> QED BY <2>1, <2>2 DEF Account, account, NeverOverdrawn, PnlAddsUp, Gross
  <1> QED BY <1>1, <1>2, <1>3

\* The benchmark invests no more than the capital.
LEMMA HoldKeeps ==
    ASSUME IInv, NEW opening \in Nat \ {0}, config' = config, Hold(opening)
    PROVE  Benchmark'
  <1>1. CASE bars # <<>>
    BY <1>1 DEF Hold, IInv, Benchmark, Gross
  <1>2. CASE bars = <<>>
    <2> DEFINE k == config.initialCapital * Whole * Whole
               entry == opening * (Whole + config.slippage)  d == Gross(entry)  q == k \div d
    <2>1. /\ config.initialCapital \in Nat /\ config.slippage \in Nat
          /\ config.commission \in Nat /\ Whole \in Nat \ {0}
      BY ConfigsAssumption, UnitsAssumption DEF IInv, Run
    <2>2. k \in Nat
      BY <2>1, ProductNat
    <2>3. entry \in Nat \ {0}
      BY <2>1
    <2>4. hold' = [entry |-> entry, quantity |-> q]
      BY <1>2 DEF Hold
    <2>5. k = config'.initialCapital * Whole * Whole /\ d = entry * (Whole + config'.commission)
      BY DEF Gross
    <2> HIDE DEF entry, k
    <2>6. d \in Nat \ {0}
      BY <2>1, <2>3 DEF Gross
    <2> HIDE DEF d
    <2>7. q \in Nat /\ q * d <= k
      BY <2>2, <2>6
    <2> HIDE DEF q
    <2>8. hold'.entry = entry /\ hold'.quantity = q
      BY <2>4
    <2>9. hold' \in [quantity : Nat, entry : Nat]
      BY <2>3, <2>4, <2>7
    <2> QED BY <2>5, <2>7, <2>8, <2>9 DEF Benchmark, Gross
  <1> QED BY <1>1, <1>2

\* A round of the loop keeps the run right.
LEMMA BarKeeps ==
    ASSUME IInv, NEW quote \in Quotes, NEW signal \in Signals, Bar(quote, signal)
    PROVE  IInv'
  <1> DEFINE row == [quote |-> quote, signal |-> signal]  n == Len(bars)
  <1>1. config' = config /\ bars' = Append(bars, row) /\ pending' = signal
        /\ Fill(pending, quote.open) /\ Hold(quote.open)
    BY DEF Bar
  <1>2. quote.open \in Nat \ {0}
    BY QuotesAssumption
  <1>3. Account' /\ \A t \in trades' \ trades : NewOrder(t, quote.open)
    BY <1>1, <1>2, FillKeeps
  <1>4. Benchmark'
    BY <1>1, <1>2, HoldKeeps
  <1>5. bars \in Seq([quote : Quotes, signal : Signals]) /\ n \in Nat
    BY DEF IInv, Run
  <1>6. /\ bars' \in Seq([quote : Quotes, signal : Signals])
        /\ Len(bars') = n + 1
        /\ bars'[n + 1] = row
        /\ \A i \in 1..n : bars'[i] = bars[i]
    BY <1>1, <1>5
  <1>7. Run'
    <2>1. bars' # <<>>
      BY <1>5, <1>6
    <2>2. PendingIsLast'
      BY <1>1, <1>6, <2>1 DEF PendingIsLast
    <2> QED BY <1>1, <1>6, <2>2 DEF Run, IInv
  <1>8. FilledAtNextOpen'
    <2> SUFFICES ASSUME NEW t \in trades'
                 PROVE  /\ t.bar \in 2..Len(bars')
                        /\ bars'[t.bar - 1].signal = t.side
                        /\ t.price = FillPrice(bars'[t.bar].quote.open,
                                               IF t.side = "BUY" THEN Whole + config.slippage
                                                                 ELSE Whole - config.slippage)
      BY <1>1 DEF FilledAtNextOpen, FillPrice
    <2>1. CASE t \in trades
      <3>1. /\ t.bar \in 2..n
            /\ bars[t.bar - 1].signal = t.side
            /\ t.price = FillPrice(bars[t.bar].quote.open,
                                   IF t.side = "BUY" THEN Whole + config.slippage
                                                     ELSE Whole - config.slippage)
        BY <2>1 DEF IInv, FilledAtNextOpen
      <3>2. t.bar \in 1..n /\ t.bar - 1 \in 1..n /\ t.bar \in 2..(n + 1)
        BY <1>5, <3>1
      <3> QED BY <1>6, <3>1, <3>2
    <2>2. CASE t \notin trades
      <3>1. NewOrder(t, quote.open)
        BY <1>3, <2>2
      <3>2. t.bar = n + 1 /\ pending = t.side
            /\ t.price = FillPrice(quote.open, IF t.side = "BUY" THEN Whole + config.slippage
                                                                 ELSE Whole - config.slippage)
        BY <3>1 DEF NewOrder, Now
      <3>3. t.side \in {"BUY", "SELL"}
        BY <1>3 DEF Account, Trades
      <3>4. bars # <<>> /\ pending = bars[n].signal
        BY <3>2, <3>3 DEF IInv, Run, PendingIsLast
      <3>5. n \in 1..n
        BY <1>5, <3>4
      <3> QED BY <1>5, <1>6, <3>2, <3>4, <3>5
    <2> QED BY <2>1, <2>2
  <1> QED BY <1>3, <1>4, <1>7, <1>8 DEF IInv

\* The invariant holds at every bar of every run.
THEOREM Invariant == Spec => []IInv
  <1>1. Init => IInv
    BY InitInv
  <1>2. IInv /\ [Next]_vars => IInv'
    <2> SUFFICES ASSUME IInv, [Next]_vars PROVE IInv'
      OBVIOUS
    <2>1. ASSUME NEW quote \in Quotes, NEW signal \in Signals, Bar(quote, signal)
          PROVE  IInv'
      BY <2>1, BarKeeps
    <2>2. CASE UNCHANGED vars
      BY <2>2 DEF vars, account, IInv, Run, PendingIsLast, Account, Benchmark,
                  FilledAtNextOpen, NeverOverdrawn, PnlAddsUp, Gross, FillPrice
    <2> QED BY <2>1, <2>2 DEF Next
  <1> QED BY <1>1, <1>2, PTL DEF Spec

-----------------------------------------------------------------------------
(* What it gives                                                             *)

\* The state of the engine is of its type in every run.
THEOREM TypeCorrect == Spec => []TypeOK
  <1>1. IInv => TypeOK
    BY DEF IInv, Run, Account, Benchmark, TypeOK
  <1> QED BY <1>1, Invariant, PTL

\* Every row of a run fits the CHECKs of the schema, so that saving a run that
\* the engine completed is never refused because of its numbers; and cash goes
\* below zero in no run whose orders were all filled at half a cent or more a share.
THEOREM RowsAlwaysFit == Spec => []RowsFitSchema
  <1>1. IInv => RowsFitSchema
    <2> SUFFICES ASSUME IInv PROVE RowsFitSchema
      OBVIOUS
    <2>1. cash \in Int /\ 2 * cash + Cent >= 0 /\ Cent \in Nat \ {0}
      BY UnitsAssumption DEF IInv, Account
    <2>2. RoundMoney(cash, 1) >= 0
      <3> DEFINE n == 2 * cash + Cent * 1  d == 2 * (Cent * 1)  r == n \div d
      <3>1. n \in Nat /\ d \in Nat \ {0}
        BY <2>1
      <3> HIDE DEF n, d
      <3>2. r \in Nat
        BY <3>1
      <3>3. RoundMoney(cash, 1) = Cent * r
        BY DEF RoundMoney, RoundDiv, n, d, r
      <3> HIDE DEF r
      <3> QED BY <2>1, <3>2, <3>3, ProductNat
    <2> QED BY <2>2 DEF IInv, Account, Benchmark, RowsFitSchema
  <1> QED BY <1>1, Invariant, PTL

\* No order is ever filled but at the open that follows the bar of its signal.
THEOREM NoLookAhead == Spec => []FilledAtNextOpen
  <1>1. IInv => FilledAtNextOpen
    BY DEF IInv
  <1> QED BY <1>1, Invariant, PTL

\* The profits of the trade list reconcile with the cash of the run, up to half
\* a cent for each sale.
THEOREM PnlReconciles == Spec => []PnlAddsUp
  <1>1. IInv => PnlAddsUp
    BY DEF IInv, Account
  <1> QED BY <1>1, Invariant, PTL

-----------------------------------------------------------------------------
(* Loops                                                                     *)

\* The order of the rounds of a loop.
LessThan == {p \in Nat \X Nat : p[1] < p[2]}

\* Induction over the rounds: a set that has 0, and with a round the next, has them all.
\* The least one it had not would follow one it has.
LEMMA RoundInduction ==
    ASSUME NEW n \in Nat, NEW S, 0 \in S, \A i \in 1..n : i - 1 \in S => i \in S
    PROVE  \A i \in 0..n : i \in S
  <1> SUFFICES ASSUME (0..n) \ S # {} PROVE FALSE
    OBVIOUS
  <1> DEFINE left == (0..n) \ S
  <1>1. LessThan = OpToRel(<, Nat)
    BY DEF LessThan, OpToRel
  <1>2. IsWellFoundedOn(LessThan, Nat)
    BY <1>1, NatLessThanWellFounded
  <1>3. PICK i \in left : \A j \in left : <<j, i>> \notin LessThan
    <2>1. left \subseteq Nat /\ left # {}
      OBVIOUS
    <2> HIDE DEF left
    <2> QED BY <1>2, <2>1, WFMin
  <1>4. i \in 1..n /\ i - 1 \in Nat /\ i - 1 < i
    OBVIOUS
  <1>5. <<i - 1, i>> \in LessThan
    BY <1>4 DEF LessThan
  <1>6. i - 1 \in S
    BY <1>3, <1>4, <1>5
  <1> QED BY <1>4, <1>6

\* What is computed from one round to the next, up to the k-th, exists.
Computed(f, k, a, F) == f[0] = a /\ \A i \in 1..k : f[i] = F[i][f[i - 1]]

\* Such a computation, one value from the last, never fails.
LEMMA Recursion ==
    ASSUME NEW n \in Nat, NEW V, NEW a \in V, NEW F \in [1..n -> [V -> V]]
    PROVE  \E f \in [0..n -> V] : Computed(f, n, a, F)
  <1> DEFINE Upto(k, f) == Computed(f, k, a, F)
             S == {k \in 0..n : \E f \in [0..k -> V] : Upto(k, f)}
  <1> USE DEF Computed
  <1>1. 0 \in S
    <2> DEFINE f == [i \in 0..0 |-> a]
    <2>1. f \in [0..0 -> V] /\ Upto(0, f)
      OBVIOUS
    <2> HIDE DEF f, Upto
    <2>2. \E g \in [0..0 -> V] : Upto(0, g)
      BY <2>1
    <2> QED BY <2>2
  <1>2. ASSUME NEW k \in 1..n, k - 1 \in S PROVE k \in S
    <2>1. PICK f \in [0..(k - 1) -> V] : Upto(k - 1, f)
      BY <1>2
    <2> DEFINE g == [i \in 0..k |-> IF i = k THEN F[k][f[k - 1]] ELSE f[i]]
    <2>2. f[k - 1] \in V /\ F[k][f[k - 1]] \in V
      OBVIOUS
    <2>3. g \in [0..k -> V]
      BY <2>2
    <2>4. Upto(k, g)
      <3>1. g[0] = a
        BY <2>1
      <3>2. ASSUME NEW i \in 1..k PROVE g[i] = F[i][g[i - 1]]
        <4>1. CASE i = k
          BY <4>1
        <4>2. CASE i # k
          <5>1. i \in 1..(k - 1) /\ i - 1 \in 0..(k - 1)
            BY <4>2
          <5>2. f[i] = F[i][f[i - 1]]
            BY <2>1, <5>1
          <5>3. g[i] = f[i] /\ g[i - 1] = f[i - 1]
            BY <4>2, <5>1
          <5> QED BY <5>2, <5>3
        <4> QED BY <4>1, <4>2
      <3> QED BY <3>1, <3>2
    <2> HIDE DEF g, Upto
    <2> QED BY <2>3, <2>4
  <1>3. n \in S
    <2> HIDE DEF S
    <2>1. \A i \in 0..n : i \in S
      BY <1>1, <1>2, RoundInduction
    <2>2. n \in 0..n
      OBVIOUS
    <2> QED BY <2>1, <2>2
  <1> QED BY <1>3

\* The values that are added are integers.
Ints(f, from, n) == \A k \in 1..n : f[from + k - 1] \in Int

\* The sums after each round
Adds(g, f, from, n) ==
    /\ g[0] = 0
    /\ \A i \in 0..n : g[i] \in Int
    /\ \A i \in 1..n : g[i] = g[i - 1] + f[from + i - 1]

\* SumOf is what the sums come to after the last round.
LEMMA SumIsLast ==
    ASSUME NEW f, NEW from \in Int, NEW n \in Nat, NEW g, Adds(g, f, from, n)
    PROVE  SumOf(f, from, n) = g[n]
  <1> DEFINE Body(h) == [k \in 0..n |-> IF k = 0 THEN 0 ELSE h[k - 1] + f[from + k - 1]]
             r == [k \in 0..n |-> g[k]]
             added == CHOOSE h : h = Body(h)
  <1>1. r = Body(r)
    <2>1. ASSUME NEW k \in 0..n PROVE r[k] = Body(r)[k]
      <3>1. CASE k = 0
        BY <3>1 DEF Adds
      <3>2. CASE k # 0
        <4>1. k \in 1..n /\ k - 1 \in 0..n
          BY <3>2
        <4> QED BY <3>2, <4>1 DEF Adds
      <3> QED BY <3>1, <3>2
    <2>2. r = [k \in 0..n |-> r[k]] /\ Body(r) = [k \in 0..n |-> Body(r)[k]]
      OBVIOUS
    <2> HIDE DEF r, Body
    <2> QED BY <2>1, <2>2
  <1>2. added = Body(added)
    <2> HIDE DEF r, Body
    <2> QED BY <1>1
  <1>3. SumOf(f, from, n) = added[n]
    BY DEF SumOf
  <1> DEFINE S == {k \in 0..n : added[k] = g[k]}
  <1> HIDE DEF added
  <1>4. \A k \in 0..n : added[k] = IF k = 0 THEN 0 ELSE added[k - 1] + f[from + k - 1]
    BY <1>2
  <1>5. 0 \in S
    BY <1>4 DEF Adds
  <1>6. ASSUME NEW i \in 1..n, i - 1 \in S PROVE i \in S
    BY <1>4, <1>6 DEF Adds
  <1>7. \A i \in 0..n : i \in S
    <2> HIDE DEF S
    <2> QED BY <1>5, <1>6, RoundInduction
  <1> QED BY <1>3, <1>7

\* Integers have sums.
LEMMA SumExists ==
    ASSUME NEW f, NEW from \in Int, NEW n \in Nat, Ints(f, from, n)
    PROVE  \E g : Adds(g, f, from, n)
  <1> DEFINE F == [i \in 1..n |-> [x \in Int |-> x + f[from + i - 1]]]
  <1>1. 0 \in Int /\ F \in [1..n -> [Int -> Int]]
    BY DEF Ints
  <1>2. \A i \in 1..n, x \in Int : F[i][x] = x + f[from + i - 1]
    OBVIOUS
  <1> HIDE DEF F
  <1>3. PICK g \in [0..n -> Int] : Computed(g, n, 0, F)
    BY <1>1, Recursion
  <1>4. ASSUME NEW i \in 1..n PROVE g[i] = g[i - 1] + f[from + i - 1]
    <2>1. i - 1 \in 0..n
      OBVIOUS
    <2>2. g[i - 1] \in Int
      BY <1>3, <2>1
    <2> QED BY <1>2, <1>3, <2>2 DEF Computed
  <1>5. Adds(g, f, from, n)
    BY <1>3, <1>4 DEF Adds, Computed
  <1> QED BY <1>5

\* One more round adds one more value.
LEMMA SumStep ==
    ASSUME NEW f, NEW from \in Int, NEW n \in Nat, Ints(f, from, n + 1)
    PROVE  /\ SumOf(f, from, n) \in Int
           /\ SumOf(f, from, n + 1) = SumOf(f, from, n) + f[from + n]
           /\ f[from + n] \in Int
  <1>1. PICK g : Adds(g, f, from, n + 1)
    BY SumExists
  <1>2. Adds(g, f, from, n)
    BY <1>1 DEF Adds
  <1>3. SumOf(f, from, n) = g[n] /\ SumOf(f, from, n + 1) = g[n + 1]
    BY <1>1, <1>2, SumIsLast
  <1>4. n \in 0..n /\ n + 1 \in 1..(n + 1) /\ (n + 1) - 1 = n /\ from + (n + 1) - 1 = from + n
    OBVIOUS
  <1>5. g[n] \in Int /\ g[n + 1] = g[n] + f[from + n]
    BY <1>1, <1>2, <1>4 DEF Adds
  <1>6. f[from + n] \in Int
    BY <1>4 DEF Ints
  <1> QED BY <1>3, <1>5, <1>6

\* Nothing adds up to 0.
LEMMA SumOfNone == ASSUME NEW f, NEW from \in Int PROVE SumOf(f, from, 0) = 0
  <1>1. Adds([k \in 0..0 |-> 0], f, from, 0)
    BY DEF Adds
  <1> QED BY <1>1, SumIsLast

\* Integers add up to an integer.
LEMMA SumIsInt ==
    ASSUME NEW f, NEW from \in Int, NEW n \in Nat, Ints(f, from, n)
    PROVE  SumOf(f, from, n) \in Int
  <1>1. PICK g : Adds(g, f, from, n)
    BY SumExists
  <1> QED BY <1>1, SumIsLast DEF Adds

\* The first value may be added last.
LEMMA SumFirst ==
    ASSUME NEW f, NEW from \in Int, NEW n \in Nat, Ints(f, from, n + 1)
    PROVE  /\ SumOf(f, from, n + 1) = f[from] + SumOf(f, from + 1, n)
           /\ f[from] \in Int
           /\ SumOf(f, from + 1, n) \in Int
  <1> DEFINE S == {m \in 0..n : SumOf(f, from, m + 1) = f[from] + SumOf(f, from + 1, m)}
  <1>1. \A m \in 0..n : Ints(f, from, m + 1)
    BY DEF Ints
  <1>2. \A m \in 0..n : Ints(f, from + 1, m)
    <2> SUFFICES ASSUME NEW m \in 0..n, NEW k \in 1..m PROVE f[(from + 1) + k - 1] \in Int
      BY DEF Ints
    <2>1. k + 1 \in 1..(n + 1) /\ (from + 1) + k - 1 = from + (k + 1) - 1
      OBVIOUS
    <2> QED BY <2>1 DEF Ints
  <1>3. f[from] \in Int
    <2>1. 1 \in 1..(n + 1) /\ from + 1 - 1 = from
      OBVIOUS
    <2> QED BY <2>1 DEF Ints
  <1>4. 0 \in S
    <2>1. SumOf(f, from, 0 + 1) = SumOf(f, from, 0) + f[from + 0]
      BY <1>1, SumStep
    <2>2. SumOf(f, from, 0) = 0 /\ SumOf(f, from + 1, 0) = 0
      BY SumOfNone
    <2> QED BY <1>3, <2>1, <2>2
  <1>5. ASSUME NEW m \in 1..n, m - 1 \in S PROVE m \in S
    <2>1. m - 1 \in Nat /\ m \in Nat /\ (m - 1) + 1 = m /\ m \in 0..n /\ from + 1 \in Int
          /\ (from + 1) + (m - 1) = from + m
      OBVIOUS
    <2>2. SumOf(f, from, m + 1) = SumOf(f, from, m) + f[from + m]
      BY <1>1, <2>1, SumStep
    <2>3. /\ SumOf(f, from + 1, m - 1) \in Int
          /\ SumOf(f, from + 1, m) = SumOf(f, from + 1, m - 1) + f[from + m]
          /\ f[from + m] \in Int
      <3>1. Ints(f, from + 1, (m - 1) + 1)
        BY <1>2, <2>1
      <3> QED BY <2>1, <3>1, SumStep
    <2>4. SumOf(f, from, m) = f[from] + SumOf(f, from + 1, m - 1)
      BY <1>5, <2>1
    <2> QED BY <1>3, <2>2, <2>3, <2>4
  <1>6. n \in S
    <2> HIDE DEF S
    <2>1. \A i \in 0..n : i \in S
      BY <1>4, <1>5, RoundInduction
    <2> QED BY <2>1
  <1>7. SumOf(f, from + 1, n) \in Int
    BY <1>2, SumIsInt
  <1> QED BY <1>3, <1>6, <1>7

\* The values of one sequence are those of another, each times a factor.
Multiples(h, f, from, n, factor) ==
    \A k \in 1..n : h[from + k - 1] = factor * f[from + k - 1]

\* The sum of the multiples is the multiple of the sum.
LEMMA SumOfMultiples ==
    ASSUME NEW f, NEW h, NEW from \in Int, NEW n \in Nat, NEW factor \in Int,
           Ints(f, from, n), Multiples(h, f, from, n, factor)
    PROVE  SumOf(h, from, n) = factor * SumOf(f, from, n)
  <1>1. PICK g : Adds(g, f, from, n)
    BY SumExists
  <1> DEFINE r == [k \in 0..n |-> factor * g[k]]
  <1>2. Adds(r, h, from, n)
    <2>1. r[0] = 0 /\ \A k \in 0..n : r[k] \in Int
      BY <1>1 DEF Adds
    <2>2. ASSUME NEW k \in 1..n PROVE r[k] = r[k - 1] + h[from + k - 1]
      <3>1. k \in 0..n /\ k - 1 \in 0..n
        OBVIOUS
      <3>2. g[k - 1] \in Int /\ f[from + k - 1] \in Int /\ g[k] = g[k - 1] + f[from + k - 1]
        BY <1>1, <3>1 DEF Adds, Ints
      <3>3. factor * (g[k - 1] + f[from + k - 1]) = factor * g[k - 1] + factor * f[from + k - 1]
        BY <3>2
      <3>4. h[from + k - 1] = factor * f[from + k - 1]
        BY DEF Multiples
      <3> QED BY <3>1, <3>2, <3>3, <3>4
    <2> HIDE DEF r
    <2> QED BY <2>1, <2>2 DEF Adds
  <1>3. SumOf(h, from, n) = r[n] /\ SumOf(f, from, n) = g[n]
    <2> HIDE DEF r
    <2> QED BY <1>1, <1>2, SumIsLast
  <1> QED BY <1>3

\* Two sequences have the same values where they are added.
Same(h, f, from, n) == \A k \in 1..n : h[from + k - 1] = f[from + k - 1]

\* A sum depends on the values that are added, and on no others.
LEMMA SumOfSame ==
    ASSUME NEW f, NEW h, NEW from \in Int, NEW n \in Nat, Ints(f, from, n), Same(h, f, from, n)
    PROVE  SumOf(h, from, n) = SumOf(f, from, n)
  <1>1. PICK g : Adds(g, f, from, n)
    BY SumExists
  <1>2. Adds(g, h, from, n)
    BY <1>1 DEF Adds, Same
  <1> QED BY <1>1, <1>2, SumIsLast

\* Values that are not negative
Nats(f, from, n) == \A k \in 1..n : f[from + k - 1] \in Nat

\* have a sum that is not negative.
LEMMA SumIsNat ==
    ASSUME NEW f, NEW from \in Int, NEW n \in Nat, Nats(f, from, n)
    PROVE  SumOf(f, from, n) \in Nat
  <1>1. Ints(f, from, n)
    BY DEF Ints, Nats
  <1>2. PICK g : Adds(g, f, from, n)
    BY <1>1, SumExists
  <1> DEFINE S == {k \in 0..n : g[k] \in Nat}
  <1>3. 0 \in S
    BY <1>2 DEF Adds
  <1>4. ASSUME NEW k \in 1..n, k - 1 \in S PROVE k \in S
    <2>1. g[k] = g[k - 1] + f[from + k - 1] /\ g[k - 1] \in Nat /\ f[from + k - 1] \in Nat
      BY <1>2, <1>4 DEF Adds, Nats
    <2> QED BY <2>1
  <1>5. n \in S
    <2> HIDE DEF S
    <2>1. \A i \in 0..n : i \in S
      BY <1>3, <1>4, RoundInduction
    <2> QED BY <2>1
  <1> QED BY <1>2, <1>5, SumIsLast

\* The squares of the distances of some values, each times a scale, to a centre.
Distances(d, q, f, from, n, scale, centre) ==
    \A k \in 1..n :
        LET x == f[from + k - 1]
        IN  /\ q[from + k - 1] = x * x
            /\ d[from + k - 1] = (scale * x - centre) * (scale * x - centre)

\* The sum of the squared distances is had from the sums of the values and of their
\* squares.
LEMMA SumOfDistances ==
    ASSUME NEW f, NEW q, NEW d, NEW from \in Int, NEW n \in Nat, NEW scale \in Int,
           NEW centre \in Int, Ints(f, from, n), Distances(d, q, f, from, n, scale, centre)
    PROVE  /\ SumOf(q, from, n) \in Nat
           /\ SumOf(d, from, n) \in Nat
           /\ SumOf(d, from, n) = (scale * scale) * SumOf(q, from, n)
                 - (2 * scale * centre) * SumOf(f, from, n) + n * (centre * centre)
  <1> DEFINE a == scale * scale  b == 2 * scale * centre  c == centre * centre
  <1>0. a \in Int /\ b \in Int /\ c \in Int
    OBVIOUS
  <1>1. ASSUME NEW k \in 1..n
        PROVE  /\ q[from + k - 1] \in Nat /\ d[from + k - 1] \in Nat /\ f[from + k - 1] \in Int
               /\ d[from + k - 1] = a * q[from + k - 1] - b * f[from + k - 1] + c
    <2> DEFINE x == f[from + k - 1]
    <2>1. x \in Int /\ q[from + k - 1] = x * x
          /\ d[from + k - 1] = (scale * x - centre) * (scale * x - centre)
      BY DEF Ints, Distances
    <2> HIDE DEF x
    <2>2. x * x \in Nat
      BY <2>1, SquareNat
    <2>3. scale * x - centre \in Int
      BY <2>1
    <2>4. (scale * x - centre) * (scale * x - centre) \in Nat
      BY <2>3, SquareNat
    <2>5. (scale * x - centre) * (scale * x - centre)
            = (scale * scale) * (x * x) - (2 * scale * centre) * x + centre * centre
      BY <2>1
    <2> QED BY <2>1, <2>2, <2>4, <2>5 DEF x
  <1> HIDE DEF a, b, c
  <1>2. SumOf(q, from, n) \in Nat /\ SumOf(d, from, n) \in Nat /\ Ints(q, from, n)
    <2>1. Nats(q, from, n) /\ Nats(d, from, n)
      BY <1>1 DEF Nats
    <2>2. Ints(q, from, n)
      BY <2>1 DEF Nats, Ints
    <2> QED BY <2>1, <2>2, SumIsNat
  <1>3. PICK g : Adds(g, f, from, n)
    BY SumExists
  <1>4. PICK h : Adds(h, q, from, n)
    BY <1>2, SumExists
  <1> DEFINE r == [k \in 0..n |-> a * h[k] - b * g[k] + k * c]
  <1>5. Adds(r, d, from, n)
    <2>1. r[0] = 0 /\ \A k \in 0..n : r[k] \in Int
      <3>1. g[0] = 0 /\ h[0] = 0 /\ \A k \in 0..n : g[k] \in Int /\ h[k] \in Int
        BY <1>3, <1>4 DEF Adds
      <3>2. a * 0 - b * 0 + 0 * c = 0
        BY <1>0
      <3>3. r[0] = 0
        BY <3>1, <3>2
      <3>4. ASSUME NEW k \in 0..n PROVE r[k] \in Int
        <4>1. a * h[k] \in Int /\ b * g[k] \in Int /\ k * c \in Int
          BY <1>0, <3>1
        <4> QED BY <4>1
      <3> HIDE DEF r
      <3> QED BY <3>3, <3>4
    <2>2. ASSUME NEW k \in 1..n PROVE r[k] = r[k - 1] + d[from + k - 1]
      <3> DEFINE x == f[from + k - 1]  y == q[from + k - 1]
      <3>1. /\ x \in Int /\ y \in Int /\ g[k - 1] \in Int /\ h[k - 1] \in Int
            /\ g[k] = g[k - 1] + x /\ h[k] = h[k - 1] + y
        BY <1>1, <1>3, <1>4 DEF Adds
      <3>2. d[from + k - 1] = a * y - b * x + c
        BY <1>1
      <3>3. r[k] = a * h[k] - b * g[k] + k * c
            /\ r[k - 1] = a * h[k - 1] - b * g[k - 1] + (k - 1) * c
        OBVIOUS
      <3> HIDE DEF x, y, r
      <3>4. a * (h[k - 1] + y) - b * (g[k - 1] + x) + k * c
              = (a * h[k - 1] - b * g[k - 1] + (k - 1) * c) + (a * y - b * x + c)
        BY <1>0, <3>1
      <3> QED BY <3>1, <3>2, <3>3, <3>4
    <2> HIDE DEF r
    <2> QED BY <2>1, <2>2 DEF Adds
  <1>6. SumOf(d, from, n) = r[n] /\ SumOf(q, from, n) = h[n] /\ SumOf(f, from, n) = g[n]
    <2> HIDE DEF r
    <2> QED BY <1>3, <1>4, <1>5, SumIsLast
  <1> QED BY <1>2, <1>6 DEF a, b, c

\* The power of a number is computed by a loop, too.
Powers(g, base, n) ==
    /\ g[0] = 1
    /\ \A i \in 0..n : g[i] \in Nat
    /\ \A i \in 1..n : g[i] = base * g[i - 1]

\* Power is what the products come to after the last round.
LEMMA PowerIsLast ==
    ASSUME NEW base \in Nat, NEW n \in Nat, NEW g, Powers(g, base, n)
    PROVE  Power(base, n) = g[n]
  <1> DEFINE Body(h) == [k \in 0..n |-> IF k = 0 THEN 1 ELSE base * h[k - 1]]
             r == [k \in 0..n |-> g[k]]
             multiplied == CHOOSE h : h = Body(h)
  <1>1. r = Body(r)
    <2>1. ASSUME NEW k \in 0..n PROVE r[k] = Body(r)[k]
      <3>1. CASE k = 0
        BY <3>1 DEF Powers
      <3>2. CASE k # 0
        <4>1. k \in 1..n /\ k - 1 \in 0..n
          BY <3>2
        <4> QED BY <3>2, <4>1 DEF Powers
      <3> QED BY <3>1, <3>2
    <2>2. r = [k \in 0..n |-> r[k]] /\ Body(r) = [k \in 0..n |-> Body(r)[k]]
      OBVIOUS
    <2> HIDE DEF r, Body
    <2> QED BY <2>1, <2>2
  <1>2. multiplied = Body(multiplied)
    <2> HIDE DEF r, Body
    <2> QED BY <1>1
  <1>3. Power(base, n) = multiplied[n]
    BY DEF Power
  <1> DEFINE S == {k \in 0..n : multiplied[k] = g[k]}
  <1> HIDE DEF multiplied
  <1>4. \A k \in 0..n : multiplied[k] = IF k = 0 THEN 1 ELSE base * multiplied[k - 1]
    BY <1>2
  <1>5. 0 \in S
    BY <1>4 DEF Powers
  <1>6. ASSUME NEW i \in 1..n, i - 1 \in S PROVE i \in S
    BY <1>4, <1>6 DEF Powers
  <1>7. \A i \in 0..n : i \in S
    <2> HIDE DEF S
    <2> QED BY <1>5, <1>6, RoundInduction
  <1> QED BY <1>3, <1>7

\* There are such products.
LEMMA PowersExist ==
    ASSUME NEW base \in Nat, NEW n \in Nat
    PROVE  \E g : Powers(g, base, n)
  <1> DEFINE F == [i \in 1..n |-> [x \in Nat |-> base * x]]
  <1>1. 1 \in Nat /\ F \in [1..n -> [Nat -> Nat]]
    BY ProductNat
  <1>2. \A i \in 1..n, x \in Nat : F[i][x] = base * x
    OBVIOUS
  <1> HIDE DEF F
  <1>3. PICK g \in [0..n -> Nat] : Computed(g, n, 1, F)
    BY <1>1, Recursion
  <1>4. ASSUME NEW i \in 1..n PROVE g[i] = base * g[i - 1]
    <2>1. i - 1 \in 0..n
      OBVIOUS
    <2>2. g[i - 1] \in Nat
      BY <1>3, <2>1
    <2> QED BY <1>2, <1>3, <2>2 DEF Computed
  <1>5. Powers(g, base, n)
    BY <1>3, <1>4 DEF Powers, Computed
  <1> QED BY <1>5

\* One more round multiplies once more.
LEMMA PowerStep ==
    ASSUME NEW base \in Nat, NEW n \in Nat
    PROVE  /\ Power(base, 0) = 1
           /\ Power(base, n) \in Nat
           /\ Power(base, n + 1) = base * Power(base, n)
  <1>1. PICK g : Powers(g, base, n + 1)
    BY PowersExist
  <1>2. Powers(g, base, n) /\ Powers(g, base, 0)
    BY <1>1 DEF Powers
  <1>3. Power(base, n) = g[n] /\ Power(base, n + 1) = g[n + 1] /\ Power(base, 0) = g[0]
    BY <1>1, <1>2, PowerIsLast
  <1>4. n \in 0..n /\ n + 1 \in 1..(n + 1) /\ (n + 1) - 1 = n
    OBVIOUS
  <1>5. g[n] \in Nat /\ g[n + 1] = base * g[n] /\ g[0] = 1
    BY <1>1, <1>2, <1>4 DEF Powers
  <1> QED BY <1>3, <1>5


-----------------------------------------------------------------------------
(* Windows of the closes                                                     *)

Prices == Seq(Nat \ {0})

\* A window of values, and what a sum over the last w of n values is.
WindowSum(f, w, i) == SumOf(f, i - w + 1, w)

Rolling(f, w, n) == IF n < w THEN SumOf(f, 1, n) ELSE WindowSum(f, w, n)

\* Adding the latest value and taking out the one that leaves the window keeps the sum.
LEMMA RollingStep ==
    ASSUME NEW f, NEW w \in Nat \ {0}, NEW n \in Nat, Ints(f, 1, n + 1)
    PROVE  /\ Rolling(f, w, n) \in Int
           /\ Rolling(f, w, n + 1)
                = Rolling(f, w, n) + f[n + 1] - (IF n + 1 > w THEN f[n + 1 - w] ELSE 0)
  <1>1. CASE n < w
    <2>1. SumOf(f, 1, n) \in Int /\ SumOf(f, 1, n + 1) = SumOf(f, 1, n) + f[1 + n]
          /\ f[1 + n] \in Int
      BY SumStep
    <2>2. Rolling(f, w, n) = SumOf(f, 1, n)
      BY <1>1 DEF Rolling
    <2>3. Rolling(f, w, n + 1) = SumOf(f, 1, n + 1)
      <3>1. CASE n + 1 < w
        BY <3>1 DEF Rolling
      <3>2. CASE n + 1 = w
        <4>1. (n + 1) - w + 1 = 1
          BY <3>2
        <4> QED BY <3>2, <4>1 DEF Rolling, WindowSum
      <3> QED BY <1>1, <3>1, <3>2
    <2>4. ~(n + 1 > w) /\ 1 + n = n + 1
      BY <1>1
    <2> QED BY <2>1, <2>2, <2>3, <2>4
  <1>2. CASE n >= w
    <2> DEFINE from == n - w + 1
    <2>1. from \in Int /\ from >= 1 /\ from + w = n + 1 /\ from + 1 = (n + 1) - w + 1
          /\ n + 1 - w = from
      BY <1>2
    <2>2. Rolling(f, w, n) = SumOf(f, from, w) /\ Rolling(f, w, n + 1) = SumOf(f, from + 1, w)
      <3>1. ~(n < w) /\ ~(n + 1 < w)
        BY <1>2
      <3> QED BY <2>1, <3>1 DEF Rolling, WindowSum
    <2> HIDE DEF from
    <2>3. Ints(f, from, w + 1)
      <3> SUFFICES ASSUME NEW k \in 1..(w + 1) PROVE f[from + k - 1] \in Int
        BY DEF Ints
      <3>1. from + k - 1 \in 1..(n + 1) /\ 1 + (from + k - 1) - 1 = from + k - 1
        BY <2>1
      <3> QED BY <3>1 DEF Ints
    <2>4. SumOf(f, from, w) \in Int /\ SumOf(f, from, w + 1) = SumOf(f, from, w) + f[from + w]
          /\ f[from + w] \in Int
      BY <2>1, <2>3, SumStep
    <2>5. SumOf(f, from, w + 1) = f[from] + SumOf(f, from + 1, w) /\ f[from] \in Int
          /\ SumOf(f, from + 1, w) \in Int
      BY <2>1, <2>3, SumFirst
    <2>6. (IF n + 1 > w THEN f[n + 1 - w] ELSE 0) = f[from]
      BY <1>2, <2>1
    <2>7. from + w = n + 1
      BY <2>1
    <2> QED BY <2>2, <2>4, <2>5, <2>6, <2>7
  <1> QED BY <1>1, <1>2

\* The closes are integers, and stay what they are as another one comes in.
LEMMA ClosesAreInts ==
    ASSUME NEW cs \in Prices, NEW from \in Nat \ {0}, NEW n \in Nat, from + n - 1 <= Len(cs)
    PROVE  Ints(cs, from, n)
  <1> SUFFICES ASSUME NEW k \in 1..n PROVE cs[from + k - 1] \in Int
    BY DEF Ints
  <1>1. Len(cs) \in Nat /\ from + k - 1 \in 1..Len(cs)
    BY DEF Prices
  <1> QED BY <1>1 DEF Prices

\* One more close leaves those before as they are.
LEMMA Appended ==
    ASSUME NEW cs \in Prices, NEW c \in Nat \ {0}
    PROVE  /\ Append(cs, c) \in Prices
           /\ Len(cs) \in Nat
           /\ Len(Append(cs, c)) = Len(cs) + 1
           /\ Append(cs, c)[Len(cs) + 1] = c
           /\ \A i \in 1..Len(cs) : Append(cs, c)[i] = cs[i]
  BY DEF Prices

\* The windows of the closes so far stay what they are.
LEMMA WindowsStay ==
    ASSUME NEW cs \in Prices, NEW c \in Nat \ {0}, NEW w \in Nat \ {0}, NEW i \in w..Len(cs)
    PROVE  /\ WindowSum(Append(cs, c), w, i) = WindowSum(cs, w, i)
           /\ WindowSum(cs, w, i) \in Int
  <1> DEFINE ds == Append(cs, c)  from == i - w + 1
  <1>1. Len(cs) \in Nat /\ from \in Nat \ {0} /\ from + w - 1 = i
    BY Appended
  <1> HIDE DEF from
  <1>2. Ints(cs, from, w)
    BY <1>1, ClosesAreInts
  <1>3. Same(ds, cs, from, w)
    <2> SUFFICES ASSUME NEW k \in 1..w PROVE ds[from + k - 1] = cs[from + k - 1]
      BY DEF Same
    <2>1. from + k - 1 \in 1..Len(cs)
      BY <1>1
    <2> QED BY <2>1, Appended
  <1> HIDE DEF ds
  <1>4. SumOf(ds, from, w) = SumOf(cs, from, w) /\ SumOf(cs, from, w) \in Int
    BY <1>1, <1>2, <1>3, SumOfSame, SumIsInt
  <1> QED BY <1>4 DEF WindowSum, ds, from

\* The sums that a strategy keeps: before any close, and after another one.
LEMMA RollingStart ==
    ASSUME NEW f, NEW w \in Nat \ {0} PROVE Rolling(f, w, 0) = 0
  BY SumOfNone DEF Rolling

\* The sum over a window after another close, as onBar keeps it.
LEMMA RollingCloses ==
    ASSUME NEW cs \in Prices, NEW c \in Nat \ {0}, NEW w \in Nat \ {0}
    PROVE  LET ds == Append(cs, c)
           IN  Rolling(ds, w, Len(ds)) = Rolling(cs, w, Len(cs)) + Latest(ds) - Removed(ds, w)
  <1> DEFINE ds == Append(cs, c)  n == Len(cs)
  <1>1. ds \in Prices /\ n \in Nat /\ Len(ds) = n + 1 /\ ds[n + 1] = c
        /\ \A i \in 1..n : ds[i] = cs[i]
    BY Appended
  <1> HIDE DEF ds, n
  <1>2. Ints(ds, 1, n + 1)
    BY <1>1, ClosesAreInts
  <1>3. Rolling(ds, w, n + 1)
          = Rolling(ds, w, n) + ds[n + 1] - (IF n + 1 > w THEN ds[n + 1 - w] ELSE 0)
    BY <1>1, <1>2, RollingStep
  <1>4. Rolling(ds, w, n) = Rolling(cs, w, n)
    <2>1. CASE n < w
      <3>1. Ints(cs, 1, n)
        BY <1>1, ClosesAreInts DEF n
      <3>2. Same(ds, cs, 1, n)
        BY <1>1 DEF Same
      <3>3. SumOf(ds, 1, n) = SumOf(cs, 1, n)
        BY <1>1, <3>1, <3>2, SumOfSame
      <3> QED BY <2>1, <3>3 DEF Rolling
    <2>2. CASE n >= w
      <3>1. n \in w..Len(cs)
        BY <1>1, <2>2 DEF n
      <3>2. WindowSum(ds, w, n) = WindowSum(cs, w, n)
        BY <3>1, WindowsStay DEF ds
      <3>3. ~(n < w)
        BY <1>1, <2>2
      <3> QED BY <3>2, <3>3 DEF Rolling
    <2> QED BY <1>1, <2>1, <2>2
  <1> QED BY <1>1, <1>3, <1>4 DEF Latest, Removed, ds, n


-----------------------------------------------------------------------------
(* SMA crossover                                                             *)

\* smaAt: how far the short average is above the long one.
Ahead(cs, i) == Lead(WindowSum(cs, ShortWindow, i), WindowSum(cs, LongWindow, i))

SmaRises(cs, i) == Ahead(cs, i) > 0 /\ Ahead(cs, i - 1) <= 0
SmaFalls(cs, i) == Ahead(cs, i) < 0 /\ Ahead(cs, i - 1) >= 0

\* What the strategy keeps of some closes.
SmaKeeps(s, cs) ==
    /\ DOMAIN s = {"shortSum", "longSum", "prev"}
    /\ s.shortSum = Rolling(cs, ShortWindow, Len(cs))
    /\ s.longSum = Rolling(cs, LongWindow, Len(cs))
    /\ s.prev = IF Len(cs) < LongWindow THEN <<>> ELSE <<Ahead(cs, Len(cs))>>

\* The parameters are numbers of closes.
LEMMA WindowsArePositive ==
    /\ ShortWindow \in Nat \ {0} /\ LongWindow \in Nat \ {0} /\ ShortWindow < LongWindow
    /\ BandPeriod \in Nat \ {0} /\ BandPeriod >= 2
    /\ RsiPeriod \in Nat \ {0} /\ RsiPeriod - 1 \in Nat
  BY ParametersAssumption

\* How far the averages were apart stays what it was.
LEMMA AheadStays ==
    ASSUME NEW cs \in Prices, NEW c \in Nat \ {0}, NEW i \in LongWindow..Len(cs)
    PROVE  Ahead(Append(cs, c), i) = Ahead(cs, i) /\ Ahead(cs, i) \in Int
  <1>1. i \in ShortWindow..Len(cs)
    BY WindowsArePositive, Appended
  <1>2. /\ WindowSum(Append(cs, c), ShortWindow, i) = WindowSum(cs, ShortWindow, i)
        /\ WindowSum(cs, ShortWindow, i) \in Int
    BY <1>1, WindowsArePositive, WindowsStay
  <1>3. /\ WindowSum(Append(cs, c), LongWindow, i) = WindowSum(cs, LongWindow, i)
        /\ WindowSum(cs, LongWindow, i) \in Int
    BY WindowsArePositive, WindowsStay
  <1>4. \A x, y \in Int : Lead(x, y) \in Int
    BY WindowsArePositive DEF Lead
  <1> QED BY <1>2, <1>3, <1>4 DEF Ahead

\* One close brings what is kept up to date, and raises the signal of the crossing.
LEMMA SmaStep ==
    ASSUME NEW cs \in Prices, NEW c \in Nat \ {0}, NEW kept, SmaKeeps(kept, cs)
    PROVE  LET ds == Append(cs, c)
               s  == SmaOnBar(kept, ds)
               signal == SmaSignal(s, ds)
           IN  /\ SmaKeeps(SmaRemember(s, ds), ds)
               /\ signal \in Signals
               /\ Len(ds) <= LongWindow => signal = "HOLD"
               /\ Len(ds) > LongWindow =>
                      /\ signal = "BUY" <=> SmaRises(ds, Len(ds))
                      /\ signal = "SELL" <=> SmaFalls(ds, Len(ds))
  <1> DEFINE ds == Append(cs, c)  n == Len(cs)  s == SmaOnBar(kept, ds)
             signal == SmaSignal(s, ds)
             prev == IF n < LongWindow THEN <<>> ELSE <<Ahead(cs, n)>>
  <1>1. n \in Nat /\ Len(ds) = n + 1 /\ ds \in Prices
    BY Appended
  <1>2. /\ DOMAIN s = {"shortSum", "longSum", "prev"}
        /\ s.shortSum = Rolling(ds, ShortWindow, n + 1)
        /\ s.longSum = Rolling(ds, LongWindow, n + 1)
        /\ s.prev = prev
    <2>1. Rolling(ds, ShortWindow, Len(ds))
            = Rolling(cs, ShortWindow, n) + Latest(ds) - Removed(ds, ShortWindow)
      BY WindowsArePositive, RollingCloses
    <2>2. Rolling(ds, LongWindow, Len(ds))
            = Rolling(cs, LongWindow, n) + Latest(ds) - Removed(ds, LongWindow)
      BY WindowsArePositive, RollingCloses
    <2>3. /\ DOMAIN kept = {"shortSum", "longSum", "prev"}
          /\ kept.shortSum = Rolling(cs, ShortWindow, n)
          /\ kept.longSum = Rolling(cs, LongWindow, n)
          /\ kept.prev = prev
      BY DEF SmaKeeps
    <2> HIDE DEF ds, prev, n
    <2>4. /\ DOMAIN s = {"shortSum", "longSum", "prev"}
          /\ s.shortSum = kept.shortSum + Latest(ds) - Removed(ds, ShortWindow)
          /\ s.longSum = kept.longSum + Latest(ds) - Removed(ds, LongWindow)
          /\ s.prev = kept.prev
      BY <2>3 DEF SmaOnBar
    <2> HIDE DEF s
    <2> QED BY <1>1, <2>1, <2>2, <2>3, <2>4
  <1>3. ASSUME n + 1 >= LongWindow
        PROVE  Lead(s.shortSum, s.longSum) = Ahead(ds, n + 1)
    <2>1. ~(n + 1 < LongWindow) /\ ~(n + 1 < ShortWindow)
      BY <1>1, <1>3, WindowsArePositive
    <2> HIDE DEF s
    <2> QED BY <1>2, <2>1 DEF Rolling, Ahead
  <1>4. ASSUME n >= LongWindow
        PROVE  prev = <<Ahead(ds, n)>> /\ prev # <<>> /\ Ahead(ds, n) \in Int
    <2>1. n \in LongWindow..Len(cs)
      BY <1>1, <1>4, WindowsArePositive
    <2>2. Ahead(ds, n) = Ahead(cs, n) /\ Ahead(cs, n) \in Int
      BY <2>1, AheadStays
    <2>3. ~(n < LongWindow)
      BY <1>1, <1>4, WindowsArePositive
    <2> HIDE DEF ds, n
    <2> QED BY <2>2, <2>3
  <1> HIDE DEF ds, n, s, prev
  <1>5. SmaKeeps(SmaRemember(s, ds), ds)
    <2>1. CASE n + 1 < LongWindow
      <3>1. prev = <<>>
        BY <1>1, <2>1, WindowsArePositive DEF prev
      <3> QED BY <1>1, <1>2, <2>1, <3>1 DEF SmaRemember, SmaKeeps
    <2>2. CASE ~(n + 1 < LongWindow)
      <3>1. Lead(s.shortSum, s.longSum) = Ahead(ds, n + 1)
        BY <1>1, <1>3, <2>2, WindowsArePositive
      <3> QED BY <1>1, <1>2, <2>2, <3>1 DEF SmaRemember, SmaKeeps
    <2> QED BY <2>1, <2>2
  <1>6. signal \in Signals
    BY DEF SmaSignal, Signals
  <1>7. n + 1 <= LongWindow => signal = "HOLD"
    <2> SUFFICES ASSUME n + 1 <= LongWindow PROVE signal = "HOLD"
      OBVIOUS
    <2>1. s.prev = <<>>
      BY <1>1, <1>2, WindowsArePositive DEF prev
    <2> QED BY <2>1 DEF SmaSignal
  <1>8. ASSUME n + 1 > LongWindow
        PROVE  /\ signal = "BUY" <=> SmaRises(ds, n + 1)
               /\ signal = "SELL" <=> SmaFalls(ds, n + 1)
    <2>1. n >= LongWindow /\ ~(n + 1 < LongWindow) /\ (n + 1) - 1 = n
      BY <1>1, <1>8, WindowsArePositive
    <2>2. Lead(s.shortSum, s.longSum) = Ahead(ds, n + 1)
      BY <1>1, <1>3, <2>1, WindowsArePositive
    <2>3. s.prev = <<Ahead(ds, n)>> /\ s.prev # <<>> /\ Ahead(ds, n) \in Int
      BY <1>2, <1>4, <2>1
    <2>4. Ahead(ds, n + 1) \in Int
      <3>1. WindowSum(ds, ShortWindow, n + 1) \in Int /\ WindowSum(ds, LongWindow, n + 1) \in Int
        <4>1. n + 1 \in ShortWindow..Len(ds) /\ n + 1 \in LongWindow..Len(ds)
          BY <1>1, <2>1, WindowsArePositive
        <4> QED BY <1>1, <4>1, WindowsArePositive, WindowsStay
      <3> QED BY <3>1, WindowsArePositive DEF Ahead, Lead
    <2> DEFINE x == Ahead(ds, n + 1)  y == Ahead(ds, n)
    <2>5. signal = IF x > 0 /\ y <= 0 THEN "BUY" ELSE IF x < 0 /\ y >= 0 THEN "SELL" ELSE "HOLD"
      <3>1. ~(Len(ds) < LongWindow \/ s.prev = <<>>) /\ s.prev[1] = y
        BY <1>1, <2>1, <2>3
      <3> HIDE DEF x, y
      <3> QED BY <2>2, <3>1 DEF SmaSignal, x
    <2>6. (SmaRises(ds, n + 1) <=> x > 0 /\ y <= 0) /\ (SmaFalls(ds, n + 1) <=> x < 0 /\ y >= 0)
      BY <2>1 DEF SmaRises, SmaFalls
    <2>7. x \in Int /\ y \in Int
      BY <2>3, <2>4
    <2> HIDE DEF x, y, signal
    <2> QED BY <2>5, <2>6, <2>7
  <1> QED BY <1>1, <1>5, <1>6, <1>7, <1>8 DEF ds, n, s


-----------------------------------------------------------------------------
(* Bollinger bands                                                           *)

\* populationStdDevAt: the squares of the distances to the mean of a window.
Deviations(cs, i) ==
    LET Distance(k) == BandPeriod * cs[k] - WindowSum(cs, BandPeriod, i)
    IN  SumOf([k \in DOMAIN cs |-> Distance(k) * Distance(k)], i - BandPeriod + 1, BandPeriod)

\* bollingerAt: the j-th close is below the lower band of the i-th window.
Deep(cs, i, j) ==
    LET depth == WindowSum(cs, BandPeriod, i) - BandPeriod * cs[j]
    IN  depth > 0 /\ BandPeriod * depth * depth > StdDev * StdDev * Deviations(cs, i)

\* smaAt of the window: the j-th close is above its middle.
High(cs, i, j) == AboveMiddle(cs[j], WindowSum(cs, BandPeriod, i))

BandRises(cs, i) == Deep(cs, i, i) /\ ~Deep(cs, i, i - 1)
BandFalls(cs, i) == High(cs, i, i) /\ ~High(cs, i, i - 1)

Squares(cs) == [k \in DOMAIN cs |-> cs[k] * cs[k]]

\* The squares of closes may be summed as closes are,
LEMMA SquaresAreCloses ==
    ASSUME NEW cs \in Prices
    PROVE  /\ Squares(cs) \in Prices
           /\ Len(Squares(cs)) = Len(cs)
           /\ \A k \in 1..Len(cs) : Squares(cs)[k] = cs[k] * cs[k]
  <1>1. \A x \in Nat \ {0} : x * x \in Nat \ {0}
    OBVIOUS
  <1> DEFINE n == Len(cs)
  <1>2. n \in Nat /\ DOMAIN cs = 1..n /\ \A k \in 1..n : cs[k] \in Nat \ {0}
    BY DEF Prices
  <1>3. Squares(cs) = [k \in 1..n |-> cs[k] * cs[k]]
    BY <1>2 DEF Squares
  <1>4. Squares(cs) \in [1..n -> Nat \ {0}]
    BY <1>1, <1>2, <1>3
  <1> QED BY <1>2, <1>3, <1>4 DEF Prices

\* and another close adds its own.
LEMMA SquaresAppended ==
    ASSUME NEW cs \in Prices, NEW c \in Nat \ {0}
    PROVE  c * c \in Nat \ {0} /\ Squares(Append(cs, c)) = Append(Squares(cs), c * c)
  <1> DEFINE ds == Append(cs, c)  n == Len(cs)  e == c * c
             left == Squares(ds)  right == Append(Squares(cs), e)
  <1>1. e \in Nat \ {0}
    OBVIOUS
  <1>2. n \in Nat /\ ds \in Prices /\ Len(ds) = n + 1 /\ ds[n + 1] = c
        /\ \A k \in 1..n : ds[k] = cs[k]
    BY Appended
  <1>3. /\ Squares(cs) \in Prices /\ Len(Squares(cs)) = n
        /\ \A k \in 1..n : Squares(cs)[k] = cs[k] * cs[k]
    BY SquaresAreCloses
  <1>4. left \in Prices /\ Len(left) = n + 1 /\ \A k \in 1..(n + 1) : left[k] = ds[k] * ds[k]
    BY <1>2, SquaresAreCloses
  <1> HIDE DEF ds, n, left, e
  <1>5. right \in Prices /\ Len(right) = n + 1 /\ right[n + 1] = e
        /\ \A k \in 1..n : right[k] = Squares(cs)[k]
    BY <1>1, <1>3, Appended
  <1> HIDE DEF right
  <1>6. ASSUME NEW k \in 1..(n + 1) PROVE left[k] = right[k]
    <2>1. CASE k = n + 1
      BY <1>2, <1>4, <1>5, <2>1 DEF e
    <2>2. CASE k # n + 1
      <3>1. k \in 1..n
        BY <1>2, <2>2
      <3> QED BY <1>2, <1>3, <1>4, <1>5, <3>1
    <2> QED BY <2>1, <2>2
  <1>7. left = right
    BY <1>4, <1>5, <1>6, SeqEqual DEF Prices
  <1> QED BY <1>1, <1>7 DEF left, right, ds, e

\* The squares kept give the deviation: BandPeriod times what Spread compares.
LEMMA DeviationIsSpread ==
    ASSUME NEW cs \in Prices, NEW i \in BandPeriod..Len(cs)
    PROVE  LET sum == WindowSum(cs, BandPeriod, i)
               sumSq == WindowSum(Squares(cs), BandPeriod, i)
           IN  /\ sum \in Int /\ sumSq \in Int
               /\ BandPeriod * sumSq - sum * sum >= 0
               /\ Deviations(cs, i) = BandPeriod * (BandPeriod * sumSq - sum * sum)
  <1> DEFINE w == BandPeriod  from == i - w + 1  n == Len(cs)
             sum == WindowSum(cs, w, i)  sumSq == WindowSum(Squares(cs), w, i)
             d == [k \in DOMAIN cs |-> (w * cs[k] - sum) * (w * cs[k] - sum)]
  <1>1. n \in Nat /\ DOMAIN cs = 1..n /\ w \in Nat \ {0} /\ from \in Nat \ {0} /\ from + w - 1 = i
        /\ i <= n
    BY WindowsArePositive DEF Prices
  <1>2. sum = SumOf(cs, from, w) /\ sumSq = SumOf(Squares(cs), from, w)
        /\ Deviations(cs, i) = SumOf(d, from, w)
    BY DEF WindowSum, Deviations
  <1>3. \A k \in 1..n : Squares(cs)[k] = cs[k] * cs[k]
    BY <1>1, SquaresAreCloses
  <1>4. \A k \in 1..n : d[k] = (w * cs[k] - sum) * (w * cs[k] - sum)
    BY <1>1
  <1> HIDE DEF w, from, sum, sumSq, d, n
  <1>5. Ints(cs, from, w)
    BY <1>1, ClosesAreInts DEF n
  <1>6. sum \in Int
    BY <1>1, <1>2, <1>5, SumIsInt
  <1>7. Distances(d, Squares(cs), cs, from, w, w, sum)
    <2> SUFFICES ASSUME NEW k \in 1..w
                 PROVE  LET x == cs[from + k - 1]
                        IN  /\ Squares(cs)[from + k - 1] = x * x
                            /\ d[from + k - 1] = (w * x - sum) * (w * x - sum)
      BY DEF Distances
    <2>1. from + k - 1 \in 1..n
      BY <1>1
    <2> QED BY <1>3, <1>4, <2>1
  <1>8. /\ sumSq \in Nat
        /\ Deviations(cs, i) \in Nat
        /\ Deviations(cs, i) = (w * w) * sumSq - (2 * w * sum) * sum + w * (sum * sum)
    <2>1. w \in Int /\ w \in Nat /\ from \in Int
      BY <1>1
    <2>2. /\ SumOf(Squares(cs), from, w) \in Nat
          /\ SumOf(d, from, w) \in Nat
          /\ SumOf(d, from, w) = (w * w) * SumOf(Squares(cs), from, w)
                - (2 * w * sum) * SumOf(cs, from, w) + w * (sum * sum)
      BY <1>5, <1>6, <1>7, <2>1, SumOfDistances
    <2> QED BY <1>2, <2>2
  <1>9. (w * w) * sumSq - (2 * w * sum) * sum + w * (sum * sum) = w * (w * sumSq - sum * sum)
    BY <1>1, <1>6, <1>8
  <1> DEFINE x == w * sumSq - sum * sum
  <1>10. x \in Int
    BY <1>1, <1>6, <1>8
  <1>11. Deviations(cs, i) = w * x
    BY <1>8, <1>9
  <1> HIDE DEF x
  <1>12. x >= 0
    BY <1>1, <1>8, <1>10, <1>11, SignOfFactor
  <1> QED BY <1>6, <1>8, <1>11, <1>12 DEF x, w, sum, sumSq


\* Whether a close is below the band is the same, by the squares or by the distances.
LEMMA DeepIsBelowBand ==
    ASSUME NEW cs \in Prices, NEW i \in BandPeriod..Len(cs), NEW j \in 1..Len(cs)
    PROVE  LET sum == WindowSum(cs, BandPeriod, i)
               spread == BandPeriod * WindowSum(Squares(cs), BandPeriod, i) - sum * sum
           IN  /\ spread >= 0
               /\ Deep(cs, i, j) <=> BelowBand(cs[j], sum, spread)
  <1> DEFINE w == BandPeriod  sum == WindowSum(cs, w, i)
             spread == w * WindowSum(Squares(cs), w, i) - sum * sum
             depth == sum - w * cs[j]  v == StdDev * StdDev
  <1>1. w \in Nat \ {0} /\ sum \in Int /\ spread \in Int /\ spread >= 0
        /\ Deviations(cs, i) = w * spread
    BY WindowsArePositive, DeviationIsSpread
  <1>2. cs[j] \in Int
    BY DEF Prices
  <1>3. v \in Int
    BY ParametersAssumption
  <1> HIDE DEF w, sum, spread, v
  <1>4. depth \in Int /\ depth * depth \in Int
    BY <1>1, <1>2
  <1>5. Deep(cs, i, j) <=> depth > 0 /\ w * depth * depth > v * (w * spread)
    BY <1>1 DEF Deep, w, sum, v
  <1>6. BelowBand(cs[j], sum, spread) <=> depth > 0 /\ depth * depth > v * spread
    BY DEF BelowBand, w, v
  <1> HIDE DEF depth
  <1> DEFINE x == depth * depth  y == v * spread
  <1>7. x \in Int /\ y \in Int
    BY <1>1, <1>3, <1>4
  <1>8. w * depth * depth = w * x /\ v * (w * spread) = w * y
    BY <1>1, <1>3, <1>4
  <1> HIDE DEF x, y
  <1>9. w * x > w * y <=> x > y
    <2>1. w * x \in Int /\ w * y \in Int
      BY <1>1, <1>7
    <2>2. ASSUME x <= y PROVE w * x <= w * y
      BY <1>1, <1>7, <2>2, ProductMonotone
    <2>3. ASSUME x > y PROVE w * x > w * y
      <3>1. w * (y + 1) <= w * x
        BY <1>1, <1>7, <2>3, ProductMonotone
      <3>2. w * (y + 1) = w * y + w
        BY <1>1, <1>7
      <3> QED BY <1>1, <2>1, <3>1, <3>2
    <2> QED BY <1>7, <2>1, <2>2, <2>3
  <1> QED BY <1>1, <1>5, <1>6, <1>8, <1>9 DEF x, y, w, sum, spread

\* Where the closes were in their bands stays what it was.
LEMMA BandStays ==
    ASSUME NEW cs \in Prices, NEW c \in Nat \ {0}, NEW i \in (BandPeriod + 1)..Len(cs)
    PROVE  /\ BandRises(Append(cs, c), i) <=> BandRises(cs, i)
           /\ BandFalls(Append(cs, c), i) <=> BandFalls(cs, i)
  <1> DEFINE ds == Append(cs, c)  w == BandPeriod
  <1>0. ds \in Prices /\ Len(cs) \in Nat /\ Len(ds) = Len(cs) + 1
        /\ \A k \in 1..Len(cs) : ds[k] = cs[k]
    BY Appended
  <1> HIDE DEF ds
  <1>1. w \in Nat \ {0} /\ i \in w..Len(cs) /\ i \in 1..Len(cs) /\ i - 1 \in 1..Len(cs)
    BY <1>0, WindowsArePositive
  <1>2. ds \in Prices /\ i \in w..Len(ds) /\ ds[i] = cs[i] /\ ds[i - 1] = cs[i - 1]
    BY <1>0, <1>1
  <1> USE DEF ds
  <1>3. WindowSum(ds, w, i) = WindowSum(cs, w, i)
    BY <1>1, WindowsStay
  <1>4. WindowSum(Squares(ds), w, i) = WindowSum(Squares(cs), w, i)
    <2>1. /\ Squares(cs) \in Prices /\ i \in w..Len(Squares(cs))
          /\ c * c \in Nat \ {0} /\ Squares(ds) = Append(Squares(cs), c * c)
      BY <1>1, SquaresAreCloses, SquaresAppended
    <2> DEFINE e == c * c
    <2> HIDE DEF e, ds, w
    <2>2. WindowSum(Append(Squares(cs), e), w, i) = WindowSum(Squares(cs), w, i)
      BY <1>1, <2>1, WindowsStay DEF e
    <2> QED BY <2>1, <2>2 DEF e
  <1> HIDE DEF ds
  <1>5. Deviations(ds, i) = Deviations(cs, i)
    BY <1>1, <1>2, <1>3, <1>4, DeviationIsSpread
  <1> HIDE DEF w
  <1>6. (Deep(ds, i, i) <=> Deep(cs, i, i)) /\ (Deep(ds, i, i - 1) <=> Deep(cs, i, i - 1))
    BY <1>2, <1>3, <1>5 DEF Deep, w
  <1>7. (High(ds, i, i) <=> High(cs, i, i)) /\ (High(ds, i, i - 1) <=> High(cs, i, i - 1))
    BY <1>2, <1>3 DEF High, w
  <1> QED BY <1>6, <1>7 DEF BandRises, BandFalls, ds

\* What the strategy keeps of some closes.
BandKeeps(s, cs) ==
    /\ DOMAIN s = {"sum", "sumSq", "prevClose"}
    /\ s.sum = Rolling(cs, BandPeriod, Len(cs))
    /\ s.sumSq = Rolling(Squares(cs), BandPeriod, Len(cs))
    /\ s.prevClose = IF Len(cs) < BandPeriod THEN <<>> ELSE <<cs[Len(cs)]>>

\* One close brings what is kept up to date, and raises the signal of the crossing.
LEMMA BandStep ==
    ASSUME NEW cs \in Prices, NEW c \in Nat \ {0}, NEW kept, BandKeeps(kept, cs)
    PROVE  LET ds == Append(cs, c)
               s  == BandOnBar(kept, ds)
               signal == BandSignal(s, ds)
           IN  /\ BandKeeps(BandRemember(s, ds), ds)
               /\ signal \in Signals
               /\ Len(ds) <= BandPeriod => signal = "HOLD"
               /\ Len(ds) > BandPeriod =>
                      /\ signal = "BUY" <=> BandRises(ds, Len(ds))
                      /\ signal = "SELL" <=> BandFalls(ds, Len(ds))
  <1> DEFINE ds == Append(cs, c)  n == Len(cs)  w == BandPeriod  s == BandOnBar(kept, ds)
             signal == BandSignal(s, ds)
             prev == IF n < w THEN <<>> ELSE <<cs[n]>>
  <1>1. /\ n \in Nat /\ Len(ds) = n + 1 /\ ds \in Prices /\ ds[n + 1] = c
        /\ w \in Nat \ {0} /\ w >= 2
        /\ \A i \in 1..n : ds[i] = cs[i]
    BY Appended, WindowsArePositive
  <1>2. /\ DOMAIN s = {"sum", "sumSq", "prevClose"}
        /\ s.sum = Rolling(ds, w, n + 1)
        /\ s.sumSq = Rolling(Squares(ds), w, n + 1)
        /\ s.prevClose = prev
    <2>1. Rolling(ds, w, Len(ds)) = Rolling(cs, w, n) + Latest(ds) - Removed(ds, w)
      BY <1>1, RollingCloses
    <2> DEFINE latest == Latest(ds)  removed == Removed(ds, w)
    <2>2. Rolling(Squares(ds), w, n + 1)
            = Rolling(Squares(cs), w, n) + latest * latest - removed * removed
      <3> DEFINE e == c * c  qs == Squares(cs)  rs == Append(qs, e)
      <3>1. qs \in Prices /\ Len(qs) = n /\ e \in Nat \ {0} /\ Squares(ds) = rs
        BY SquaresAreCloses, SquaresAppended
      <3>2. Len(rs) = n + 1 /\ \A k \in 1..(n + 1) : rs[k] = ds[k] * ds[k]
        BY <1>1, <3>1, SquaresAreCloses
      <3> HIDE DEF e, qs, ds, n
      <3>3. Rolling(rs, w, Len(rs)) = Rolling(qs, w, Len(qs)) + Latest(rs) - Removed(rs, w)
        BY <1>1, <3>1, RollingCloses
      <3> HIDE DEF rs
      <3>4. Latest(rs) = latest * latest
        BY <1>1, <3>2 DEF Latest
      <3>5. Removed(rs, w) = removed * removed
        <4>1. CASE n + 1 > w
          <5>1. n + 1 - w \in 1..(n + 1)
            BY <1>1, <4>1
          <5> QED BY <1>1, <3>2, <4>1, <5>1 DEF Removed
        <4>2. CASE ~(n + 1 > w)
          <5>1. Removed(rs, w) = 0 /\ removed = 0
            BY <1>1, <3>2, <4>2 DEF Removed
          <5> QED BY <5>1
        <4> QED BY <4>1, <4>2
      <3> QED BY <3>1, <3>2, <3>3, <3>4, <3>5 DEF qs
    <2>3. /\ DOMAIN kept = {"sum", "sumSq", "prevClose"}
          /\ kept.sum = Rolling(cs, w, n)
          /\ kept.sumSq = Rolling(Squares(cs), w, n)
          /\ kept.prevClose = prev
      BY DEF BandKeeps
    <2> HIDE DEF ds, prev, n, w
    <2>4. /\ DOMAIN s = {"sum", "sumSq", "prevClose"}
          /\ s.sum = kept.sum + latest - removed
          /\ s.sumSq = kept.sumSq + latest * latest - removed * removed
          /\ s.prevClose = kept.prevClose
      BY <2>3 DEF BandOnBar, w
    <2> HIDE DEF s
    <2> QED BY <1>1, <2>1, <2>2, <2>3, <2>4
  <1> HIDE DEF ds, s
  <1>3. ASSUME n + 1 >= w
        PROVE  /\ s.sum = WindowSum(ds, w, n + 1)
               /\ \A j \in 1..(n + 1) :
                      Deep(ds, n + 1, j) <=> BelowBand(ds[j], s.sum, Spread(s))
               /\ \A j \in 1..(n + 1) : High(ds, n + 1, j) <=> AboveMiddle(ds[j], s.sum)
    <2>1. s.sum = WindowSum(ds, w, n + 1) /\ s.sumSq = WindowSum(Squares(ds), w, n + 1)
      BY <1>1, <1>2, <1>3 DEF Rolling
    <2>2. n + 1 \in w..Len(ds) /\ 1..(n + 1) = 1..Len(ds)
      BY <1>1, <1>3
    <2>3. s.sum \in Int /\ s.sumSq \in Int
      BY <1>1, <2>1, <2>2, DeviationIsSpread
    <2> DEFINE spread == w * s.sumSq - s.sum * s.sum
    <2>4. spread >= 0 /\ \A j \in 1..(n + 1) : Deep(ds, n + 1, j) <=> BelowBand(ds[j], s.sum, spread)
      BY <1>1, <2>1, <2>2, DeepIsBelowBand
    <2>5. spread \in Int
      BY <1>1, <2>3
    <2>6. Spread(s) = IF spread > 0 THEN spread ELSE 0
      BY DEF Spread
    <2> HIDE DEF spread
    <2>7. Spread(s) = spread
      BY <2>4, <2>5, <2>6
    <2> QED BY <2>1, <2>4, <2>7 DEF High
  <1>4. BandKeeps(BandRemember(s, ds), ds)
    <2>1. CASE n + 1 < w
      <3>1. prev = <<>>
        BY <1>1, <2>1 DEF prev
      <3>2. BandRemember(s, ds) = s
        BY <1>1, <2>1 DEF BandRemember
      <3> QED BY <1>1, <1>2, <2>1, <3>1, <3>2 DEF BandKeeps
    <2>2. CASE ~(n + 1 < w)
      <3> DEFINE t == BandRemember(s, ds)
      <3>1. t = [s EXCEPT !.prevClose = <<ds[n + 1]>>]
        BY <1>1, <2>2 DEF BandRemember, Latest
      <3> HIDE DEF t
      <3>2. /\ DOMAIN t = {"sum", "sumSq", "prevClose"}
            /\ t.sum = s.sum /\ t.sumSq = s.sumSq /\ t.prevClose = <<ds[n + 1]>>
        BY <1>2, <3>1
      <3>3. BandKeeps(t, ds)
        BY <1>1, <1>2, <2>2, <3>2 DEF BandKeeps
      <3> QED BY <3>3 DEF t
    <2> QED BY <2>1, <2>2
  <1>5. signal \in Signals
    BY DEF BandSignal, Signals
  <1>6. ASSUME n + 1 <= w PROVE signal = "HOLD"
    <2>1. s.prevClose = <<>>
      BY <1>1, <1>2, <1>6 DEF prev
    <2> QED BY <2>1 DEF BandSignal
  <1>7. ASSUME n + 1 > w
        PROVE  /\ signal = "BUY" <=> BandRises(ds, n + 1)
               /\ signal = "SELL" <=> BandFalls(ds, n + 1)
    <2>1. n >= w /\ n + 1 >= w /\ (n + 1) - 1 = n /\ n \in 1..(n + 1) /\ n + 1 \in 1..(n + 1)
      BY <1>1, <1>7
    <2>2. prev = <<ds[n]>> /\ prev # <<>>
      <3>1. prev = <<cs[n]>>
        BY <1>1, <2>1 DEF prev
      <3>2. ds[n] = cs[n]
        BY <1>1, <2>1
      <3> QED BY <3>1, <3>2
    <2> HIDE DEF prev, n, w
    <2>3. ~(Len(ds) < BandPeriod \/ s.prevClose = <<>>) /\ s.prevClose[1] = ds[n]
          /\ Latest(ds) = ds[n + 1]
      BY <1>1, <1>2, <2>1, <2>2 DEF Latest, w
    <2> DEFINE b == BelowBand(ds[n + 1], s.sum, Spread(s))  a == BelowBand(ds[n], s.sum, Spread(s))
               h == AboveMiddle(ds[n + 1], s.sum)  g == AboveMiddle(ds[n], s.sum)
    <2>4. signal = IF b /\ ~a THEN "BUY" ELSE IF h /\ ~g THEN "SELL" ELSE "HOLD"
      BY <2>3 DEF BandSignal
    <2>5. /\ b <=> Deep(ds, n + 1, n + 1)
          /\ a <=> Deep(ds, n + 1, n)
          /\ h <=> High(ds, n + 1, n + 1)
          /\ g <=> High(ds, n + 1, n)
      BY <1>3, <2>1
    <2>6. ~(b /\ h)
      <3>1. s.sum \in Int /\ ds[n + 1] \in Int /\ BandPeriod \in Int
        <4>1. n + 1 \in w..Len(ds) /\ n + 1 \in 1..Len(ds)
          BY <1>1, <2>1
        <4>2. WindowSum(ds, w, n + 1) \in Int
          BY <1>1, <4>1, WindowsStay
        <4>3. ds[n + 1] \in Int
          BY <1>1, <4>1 DEF Prices
        <4> QED BY <1>1, <1>3, <2>1, <4>2, <4>3 DEF w
      <3> QED BY <3>1 DEF BelowBand, AboveMiddle
    <2>7. (BandRises(ds, n + 1) <=> b /\ ~a) /\ (BandFalls(ds, n + 1) <=> h /\ ~g)
      BY <2>1, <2>5 DEF BandRises, BandFalls
    <2> HIDE DEF a, b, g, h, signal
    <2> QED BY <2>4, <2>6, <2>7
  <1> QED BY <1>1, <1>4, <1>5, <1>6, <1>7 DEF ds, s, n, w


-----------------------------------------------------------------------------
(* RSI with Wilder's smoothing                                               *)

\* How much the k-th change weighs in the averages of i closes, and by what these
\* are divided.
Share(k, i) == IF i <= RsiPeriod + 1 THEN 1 ELSE Weight(k, i)
Scale(i) == IF i <= RsiPeriod THEN 1 ELSE Power(RsiPeriod, i - RsiPeriod)

\* The average of the changes up to the i-th, times its scale.
Smoothed(g, i) == IF i = 0 THEN 0 ELSE SumOf([k \in 2..i |-> Share(k, i) * g[k]], 2, i - 1)

Changes(g, i) == \A k \in 2..i : g[k] \in Nat

\* From the first average on, a share is the weight of the definition.
LEMMA ShareIsWeight ==
    ASSUME NEW i \in Nat, i >= RsiPeriod + 1, NEW k \in 2..i
    PROVE  Share(k, i) = Weight(k, i)
  <1>1. CASE i = RsiPeriod + 1
    <2>1. k <= RsiPeriod + 1 /\ i - RsiPeriod - 1 = 0
      BY <1>1, WindowsArePositive
    <2>2. Power(RsiPeriod - 1, 0) = 1
      BY WindowsArePositive, PowerStep
    <2> QED BY <1>1, <2>1, <2>2 DEF Share, Weight
  <1>2. CASE i # RsiPeriod + 1
    <2>1. ~(i <= RsiPeriod + 1)
      BY <1>2, WindowsArePositive
    <2> QED BY <2>1 DEF Share
  <1> QED BY <1>1, <1>2

\* After the first period, each close takes its part of the weight of all the changes
\* before, and its own change weighs what the averages are divided by.
LEMMA WeightStep ==
    ASSUME NEW i \in Nat, i >= RsiPeriod + 1
    PROVE  /\ \A k \in 2..i : /\ Share(k, i) \in Nat
                              /\ Share(k, i + 1) = (RsiPeriod - 1) * Share(k, i)
           /\ Share(i + 1, i + 1) = Scale(i)
  <1> DEFINE p == RsiPeriod  q == RsiPeriod - 1
  <1>1. p \in Nat /\ p >= 1 /\ q \in Nat /\ ~(i + 1 <= p + 1) /\ ~(i <= p) /\ i - p \in Nat
        /\ i - p - 1 \in Nat
    BY WindowsArePositive
  <1>2. ASSUME NEW k \in 2..i
        PROVE  Weight(k, i) \in Nat /\ Weight(k, i + 1) = q * Weight(k, i)
    <2> HIDE DEF p, q
    <2>1. CASE k <= p + 1
      <3> DEFINE m == i - p - 1
      <3>1. m \in Nat /\ (i + 1) - p - 1 = m + 1
        BY <1>1
      <3>2. Weight(k, i) = Power(q, m) /\ Weight(k, i + 1) = Power(q, m + 1)
        BY <2>1, <3>1 DEF Weight, p, q
      <3> HIDE DEF m
      <3>3. Power(q, m) \in Nat /\ Power(q, m + 1) = q * Power(q, m)
        BY <1>1, <3>1, PowerStep
      <3> QED BY <3>2, <3>3
    <2>2. CASE ~(k <= p + 1)
      <3> DEFINE m == i - k  b == Power(p, k - p - 1)
      <3>1. m \in Nat /\ (i + 1) - k = m + 1 /\ k - p - 1 \in Nat
        BY <1>1, <2>2
      <3>2. Weight(k, i) = Power(q, m) * b /\ Weight(k, i + 1) = Power(q, m + 1) * b
        BY <2>2, <3>1 DEF Weight, p, q
      <3>3. b \in Nat
        BY <1>1, <3>1, PowerStep
      <3> HIDE DEF m, b
      <3>4. Power(q, m) \in Nat /\ Power(q, m + 1) = q * Power(q, m)
        BY <1>1, <3>1, PowerStep
      <3>5. \A x \in Nat : x * b \in Nat /\ (q * x) * b = q * (x * b)
        BY <1>1, <3>3, ProductNat
      <3> QED BY <3>2, <3>4, <3>5
    <2> QED BY <2>1, <2>2
  <1>3. ASSUME NEW k \in 2..i
        PROVE  Share(k, i) \in Nat /\ Share(k, i + 1) = q * Share(k, i)
    <2>1. Share(k, i) = Weight(k, i)
      BY ShareIsWeight
    <2>2. Share(k, i + 1) = Weight(k, i + 1)
      BY <1>1 DEF Share
    <2> QED BY <1>2, <2>1, <2>2
  <1>4. Share(i + 1, i + 1) = Scale(i)
    <2>1. Share(i + 1, i + 1) = Power(q, (i + 1) - (i + 1)) * Power(p, (i + 1) - p - 1)
      BY <1>1 DEF Share, Weight
    <2>2. (i + 1) - (i + 1) = 0 /\ (i + 1) - p - 1 = i - p
      BY <1>1
    <2>3. Power(q, 0) = 1 /\ Power(p, i - p) \in Nat
      BY <1>1, PowerStep
    <2>4. Scale(i) = Power(p, i - p)
      BY <1>1 DEF Scale
    <2> QED BY <2>1, <2>2, <2>3, <2>4
  <1> QED BY <1>3, <1>4

\* Shares are numbers,
LEMMA SharesAreNat ==
    ASSUME NEW i \in Nat, NEW k \in 2..i PROVE Share(k, i) \in Nat
  <1>1. CASE i <= RsiPeriod + 1
    BY <1>1 DEF Share
  <1>2. CASE ~(i <= RsiPeriod + 1)
    <2>1. i >= RsiPeriod + 1
      BY <1>2, WindowsArePositive
    <2> QED BY <2>1, WeightStep
  <1> QED BY <1>1, <1>2

\* and so are averages.
LEMMA SmoothedIsNat ==
    ASSUME NEW i \in Nat, NEW g, Changes(g, i) PROVE Smoothed(g, i) \in Nat
  <1>1. CASE i = 0
    BY <1>1 DEF Smoothed
  <1>2. CASE i # 0
    <2> DEFINE f == [k \in 2..i |-> Share(k, i) * g[k]]
    <2>1. Nats(f, 2, i - 1)
      <3> SUFFICES ASSUME NEW k \in 1..(i - 1) PROVE f[2 + k - 1] \in Nat
        BY DEF Nats
      <3> DEFINE j == 2 + k - 1
      <3>1. j \in 2..i
        BY <1>2
      <3> HIDE DEF j
      <3>2. Share(j, i) \in Nat /\ g[j] \in Nat
        BY <3>1, SharesAreNat DEF Changes
      <3>3. f[j] = Share(j, i) * g[j]
        BY <3>1
      <3>4. f[j] \in Nat
        BY <3>2, <3>3, ProductNat
      <3> QED BY <3>4 DEF j
    <2>2. i - 1 \in Nat
      BY <1>2
    <2> HIDE DEF f
    <2>3. SumOf(f, 2, i - 1) \in Nat
      BY <2>1, <2>2, SumIsNat
    <2> QED BY <1>2, <2>3 DEF Smoothed, f
  <1> QED BY <1>1, <1>2

\* onBar of the strategy: what one more change makes of the average.
LEMMA SmoothedStep ==
    ASSUME NEW i \in Nat \ {0}, NEW g, Changes(g, i + 1)
    PROVE  Smoothed(g, i + 1) = IF i + 1 <= RsiPeriod + 1
                                THEN Smoothed(g, i) + g[i + 1]
                                ELSE Smoothed(g, i) * (RsiPeriod - 1) + g[i + 1] * Scale(i)
  <1> DEFINE f == [k \in 2..i |-> Share(k, i) * g[k]]
             h == [k \in 2..(i + 1) |-> Share(k, i + 1) * g[k]]
             m == i - 1
  <1>1. m \in Nat /\ m + 1 = i /\ 2 + m = i + 1 /\ (i + 1) - 1 = i
    OBVIOUS
  <1>2. Smoothed(g, i) = SumOf(f, 2, m) /\ Smoothed(g, i + 1) = SumOf(h, 2, m + 1)
    <2>1. i # 0 /\ i + 1 # 0
      OBVIOUS
    <2> QED BY <1>1, <2>1 DEF Smoothed
  <1>3. \A k \in 2..i : f[k] = Share(k, i) * g[k]
    OBVIOUS
  <1>4. \A k \in 2..(i + 1) : h[k] = Share(k, i + 1) * g[k]
    OBVIOUS
  <1>5. \A k \in 2..(i + 1) : g[k] \in Nat
    BY DEF Changes
  <1> HIDE DEF f, h, m
  <1>6. ASSUME NEW k \in 1..m
        PROVE  2 + k - 1 \in 2..i /\ 2 + k - 1 \in 2..(i + 1)
    BY <1>1
  <1>7. Ints(f, 2, m)
    <2> SUFFICES ASSUME NEW k \in 1..m PROVE f[2 + k - 1] \in Int
      BY DEF Ints
    <2> DEFINE j == 2 + k - 1
    <2>1. j \in 2..i /\ j \in 2..(i + 1)
      BY <1>6
    <2> HIDE DEF j
    <2>2. Share(j, i) \in Nat /\ g[j] \in Nat /\ f[j] = Share(j, i) * g[j]
      BY <1>3, <1>5, <2>1, SharesAreNat
    <2>3. f[j] \in Int
      BY <2>2
    <2> QED BY <2>3 DEF j
  <1>8. Ints(h, 2, m + 1)
    <2> SUFFICES ASSUME NEW k \in 1..(m + 1) PROVE h[2 + k - 1] \in Int
      BY DEF Ints
    <2> DEFINE j == 2 + k - 1
    <2>1. j \in 2..(i + 1)
      BY <1>1
    <2> HIDE DEF j
    <2>2. Share(j, i + 1) \in Nat /\ g[j] \in Nat /\ h[j] = Share(j, i + 1) * g[j]
      BY <1>4, <1>5, <2>1, SharesAreNat
    <2>3. h[j] \in Int
      BY <2>2
    <2> QED BY <2>3 DEF j
  <1>9. /\ SumOf(h, 2, m + 1) = SumOf(h, 2, m) + h[i + 1]
        /\ SumOf(h, 2, m) \in Int
    BY <1>1, <1>8, SumStep
  <1>10. SumOf(f, 2, m) \in Int
    BY <1>1, <1>7, SumIsInt
  <1>11. h[i + 1] = Share(i + 1, i + 1) * g[i + 1] /\ g[i + 1] \in Nat
    <2>1. i + 1 \in 2..(i + 1)
      OBVIOUS
    <2> QED BY <1>4, <1>5, <2>1
  <1>12. CASE i + 1 <= RsiPeriod + 1
    <2>1. \A k \in 2..(i + 1) : Share(k, i + 1) = 1
      BY <1>12 DEF Share
    <2>2. \A k \in 2..i : Share(k, i) = 1
      BY <1>12, WindowsArePositive DEF Share
    <2>3. Same(h, f, 2, m)
      <3> SUFFICES ASSUME NEW k \in 1..m PROVE h[2 + k - 1] = f[2 + k - 1]
        BY DEF Same
      <3> DEFINE j == 2 + k - 1
      <3>1. j \in 2..i /\ j \in 2..(i + 1)
        BY <1>6
      <3> HIDE DEF j
      <3>2. h[j] = f[j]
        BY <1>3, <1>4, <2>1, <2>2, <3>1
      <3> QED BY <3>2 DEF j
    <2>4. SumOf(h, 2, m) = SumOf(f, 2, m)
      BY <1>1, <1>7, <2>3, SumOfSame
    <2>5. i + 1 \in 2..(i + 1)
      OBVIOUS
    <2>6. h[i + 1] = g[i + 1]
      BY <1>11, <2>1, <2>5
    <2> QED BY <1>2, <1>9, <1>12, <2>4, <2>6
  <1>13. CASE ~(i + 1 <= RsiPeriod + 1)
    <2> DEFINE q == RsiPeriod - 1
    <2>1. i >= RsiPeriod + 1 /\ q \in Int
      BY <1>13, WindowsArePositive
    <2>2. /\ \A k \in 2..i : Share(k, i) \in Nat /\ Share(k, i + 1) = q * Share(k, i)
          /\ Share(i + 1, i + 1) = Scale(i)
      BY <2>1, WeightStep
    <2>3. Multiples(h, f, 2, m, q)
      <3> SUFFICES ASSUME NEW k \in 1..m PROVE h[2 + k - 1] = q * f[2 + k - 1]
        BY DEF Multiples
      <3> DEFINE j == 2 + k - 1
      <3>1. j \in 2..i /\ j \in 2..(i + 1)
        BY <1>6
      <3> HIDE DEF j, q
      <3>2. /\ h[j] = (q * Share(j, i)) * g[j] /\ f[j] = Share(j, i) * g[j]
            /\ Share(j, i) \in Int /\ g[j] \in Int
        BY <1>3, <1>4, <1>5, <2>2, <3>1
      <3>3. h[j] = q * f[j]
        <4> DEFINE x == Share(j, i)  y == g[j]
        <4>1. x \in Int /\ y \in Int
          BY <3>2
        <4> HIDE DEF x, y
        <4>2. (q * x) * y = q * (x * y)
          BY <2>1, <4>1
        <4> QED BY <3>2, <4>2 DEF x, y
      <3> QED BY <3>3 DEF j
    <2> HIDE DEF q
    <2>4. SumOf(h, 2, m) = q * SumOf(f, 2, m)
      BY <1>1, <1>7, <2>1, <2>3, SumOfMultiples
    <2>5. Scale(i) \in Nat
      <3>1. i + 1 \in 2..(i + 1) /\ i + 1 \in Nat
        OBVIOUS
      <3>2. Share(i + 1, i + 1) \in Nat
        BY <3>1, SharesAreNat
      <3> QED BY <2>2, <3>2
    <2> DEFINE x == SumOf(f, 2, m)  y == g[i + 1]  z == Scale(i)
    <2>6. x \in Int /\ y \in Nat /\ z \in Nat
      BY <1>10, <1>11, <2>5
    <2>7. Smoothed(g, i + 1) = q * x + z * y /\ Smoothed(g, i) = x
      BY <1>2, <1>9, <1>11, <2>2, <2>4
    <2> HIDE DEF x, y, z
    <2>8. q * x + z * y = x * q + y * z
      BY <2>1, <2>6
    <2> QED BY <1>13, <2>7, <2>8 DEF q, y, z
  <1> QED BY <1>12, <1>13


\* The changes of the closes, and the index that rsiAt makes of them.
Gains(cs) == [k \in 2..Len(cs) |-> Gain(cs, k)]
Losses(cs) == [k \in 2..Len(cs) |-> Loss(cs, k)]

RsiOf(cs, i) == Index(Smoothed(Gains(cs), i), Smoothed(Losses(cs), i))

RsiRises(cs, i) == Below(RsiOf(cs, i), Oversold) /\ ~Below(RsiOf(cs, i - 1), Oversold)
RsiFalls(cs, i) == Above(RsiOf(cs, i), Overbought) /\ ~Above(RsiOf(cs, i - 1), Overbought)

\* Gains and losses are not negative.
LEMMA ChangesOfCloses ==
    ASSUME NEW cs \in Prices
    PROVE  Changes(Gains(cs), Len(cs)) /\ Changes(Losses(cs), Len(cs))
  <1>1. ASSUME NEW k \in 2..Len(cs) PROVE Gain(cs, k) \in Nat /\ Loss(cs, k) \in Nat
    <2>1. k \in 1..Len(cs) /\ k - 1 \in 1..Len(cs)
      BY DEF Prices
    <2>2. cs[k] \in Nat /\ cs[k - 1] \in Nat
      BY <2>1 DEF Prices
    <2> QED BY <2>2 DEF Gain, Loss
  <1> QED BY <1>1 DEF Changes, Gains, Losses

\* Two sequences of changes agree so far.
Agree(g, h, n) == \A k \in 2..n : g[k] = h[k]

\* What has been averaged depends on the changes so far only.
LEMMA SmoothedStays ==
    ASSUME NEW n \in Nat, NEW g, NEW h, Agree(g, h, n), NEW i \in 0..n
    PROVE  Smoothed(g, i) = Smoothed(h, i)
  <1>1. \A k \in 2..i : g[k] = h[k]
    BY DEF Agree
  <1>2. [k \in 2..i |-> Share(k, i) * g[k]] = [k \in 2..i |-> Share(k, i) * h[k]]
    BY <1>1
  <1> QED BY <1>2 DEF Smoothed

\* Another close leaves the changes before as they were,
LEMMA ChangesStay ==
    ASSUME NEW cs \in Prices, NEW c \in Nat \ {0}
    PROVE  LET ds == Append(cs, c)
           IN  /\ Agree(Gains(ds), Gains(cs), Len(cs))
               /\ Agree(Losses(ds), Losses(cs), Len(cs))
  <1> DEFINE ds == Append(cs, c)  n == Len(cs)
  <1>1. n \in Nat /\ Len(ds) = n + 1 /\ \A k \in 1..n : ds[k] = cs[k]
    BY Appended
  <1> HIDE DEF ds
  <1>2. ASSUME NEW k \in 2..n
        PROVE  Gains(ds)[k] = Gains(cs)[k] /\ Losses(ds)[k] = Losses(cs)[k]
    <2>1. k \in 1..n /\ k - 1 \in 1..n /\ k \in 2..(n + 1)
      BY <1>1
    <2>2. ds[k] = cs[k] /\ ds[k - 1] = cs[k - 1]
      BY <1>1, <2>1
    <2>3. Gain(ds, k) = Gain(cs, k) /\ Loss(ds, k) = Loss(cs, k)
      BY <2>2 DEF Gain, Loss
    <2> QED BY <1>1, <2>1, <2>3 DEF Gains, Losses
  <1> QED BY <1>2 DEF Agree, ds

\* and so the indices.
LEMMA RsiStays ==
    ASSUME NEW cs \in Prices, NEW c \in Nat \ {0}, NEW i \in 0..Len(cs)
    PROVE  RsiOf(Append(cs, c), i) = RsiOf(cs, i)
  <1> DEFINE ds == Append(cs, c)  n == Len(cs)
  <1>1. n \in Nat
    BY Appended
  <1>2. Agree(Gains(ds), Gains(cs), n) /\ Agree(Losses(ds), Losses(cs), n)
    BY ChangesStay
  <1> HIDE DEF ds
  <1>3. /\ Smoothed(Gains(ds), i) = Smoothed(Gains(cs), i)
        /\ Smoothed(Losses(ds), i) = Smoothed(Losses(cs), i)
    BY <1>1, <1>2, SmoothedStays
  <1> QED BY <1>3 DEF RsiOf, ds

\* What the strategy keeps of some closes.
RsiKeeps(s, cs) ==
    /\ DOMAIN s = {"gain", "loss", "scale", "rsi", "prev"}
    /\ s.gain = Smoothed(Gains(cs), Len(cs))
    /\ s.loss = Smoothed(Losses(cs), Len(cs))
    /\ s.scale = Scale(Len(cs))
    /\ s.rsi = IF Len(cs) <= RsiPeriod THEN <<>> ELSE RsiOf(cs, Len(cs))
    /\ s.prev = s.rsi

\* The scale counts the closes after the first period.
LEMMA ScaleStep ==
    ASSUME NEW i \in Nat
    PROVE  /\ Scale(i) \in Nat
           /\ i + 1 <= RsiPeriod => Scale(i) = 1 /\ Scale(i + 1) = 1
           /\ i = RsiPeriod => Scale(i + 1) = RsiPeriod
           /\ i > RsiPeriod => Scale(i + 1) = Scale(i) * RsiPeriod
  <1> DEFINE p == RsiPeriod  m == i - p
  <1>1. p \in Nat \ {0}
    BY WindowsArePositive
  <1>2. CASE i <= p
    <2>1. Scale(i) = 1
      BY <1>2 DEF Scale
    <2>2. i + 1 <= p => Scale(i + 1) = 1
      BY DEF Scale
    <2>3. ASSUME i = p PROVE Scale(i + 1) = p
      <3>1. ~(i + 1 <= p) /\ (i + 1) - p = 0 + 1
        BY <1>1, <2>3
      <3>2. Power(p, 0 + 1) = p * Power(p, 0) /\ Power(p, 0) = 1
        BY <1>1, PowerStep
      <3>3. Power(p, 0 + 1) = p
        BY <1>1, <3>2
      <3> QED BY <3>1, <3>3 DEF Scale
    <2> QED BY <1>1, <1>2, <2>1, <2>2, <2>3
  <1>3. CASE i > p
    <2>1. m \in Nat /\ (i + 1) - p = m + 1 /\ ~(i <= p) /\ ~(i + 1 <= p)
      BY <1>1, <1>3
    <2>2. Scale(i) = Power(p, m) /\ Scale(i + 1) = Power(p, m + 1)
      BY <2>1 DEF Scale
    <2> HIDE DEF m
    <2>3. Power(p, m) \in Nat /\ Power(p, m + 1) = p * Power(p, m)
      BY <1>1, <2>1, PowerStep
    <2>4. \A x \in Nat : p * x = x * p
      BY <1>1
    <2> QED BY <1>1, <1>3, <2>1, <2>2, <2>3, <2>4
  <1> QED BY <1>1, <1>2, <1>3

\* The averages after another close.
LEMMA AveragesStep ==
    ASSUME NEW cs \in Prices, NEW c \in Nat \ {0}, NEW kept, RsiKeeps(kept, cs)
    PROVE  LET ds == Append(cs, c)
               t  == RsiAverages(kept, ds)
           IN  /\ DOMAIN t = {"gain", "loss", "scale", "rsi", "prev"}
               /\ t.gain = Smoothed(Gains(ds), Len(ds))
               /\ t.loss = Smoothed(Losses(ds), Len(ds))
               /\ t.scale = Scale(Len(ds))
               /\ t.rsi = kept.rsi
               /\ t.prev = kept.rsi
  <1> DEFINE ds == Append(cs, c)  n == Len(cs)  t == RsiAverages(kept, ds)  p == RsiPeriod
  <1>1. n \in Nat /\ Len(ds) = n + 1 /\ ds \in Prices /\ p \in Nat \ {0} /\ p >= 2
    <2>1. n \in Nat /\ Len(ds) = n + 1 /\ ds \in Prices
      BY Appended
    <2>2. p \in Nat /\ p >= 2
      BY ParametersAssumption
    <2> HIDE DEF ds, n, p
    <2>3. p \in Nat \ {0}
      BY <2>2
    <2> QED BY <2>1, <2>2, <2>3
  <1>2. Changes(Gains(ds), n + 1) /\ Changes(Losses(ds), n + 1)
    BY <1>1, ChangesOfCloses
  <1>3. /\ Smoothed(Gains(ds), n) = Smoothed(Gains(cs), n)
        /\ Smoothed(Losses(ds), n) = Smoothed(Losses(cs), n)
    <2>1. Agree(Gains(ds), Gains(cs), n) /\ Agree(Losses(ds), Losses(cs), n)
      BY ChangesStay
    <2>2. n \in 0..n
      BY <1>1
    <2> HIDE DEF ds, n
    <2> QED BY <1>1, <2>1, <2>2, SmoothedStays
  <1>4. /\ DOMAIN kept = {"gain", "loss", "scale", "rsi", "prev"}
        /\ kept.gain = Smoothed(Gains(ds), n)
        /\ kept.loss = Smoothed(Losses(ds), n)
        /\ kept.scale = Scale(n)
        /\ kept.prev = kept.rsi
    BY <1>3 DEF RsiKeeps
  <1> HIDE DEF ds, n, t
  <1>5. CASE n = 0
    <2>1. t = kept
      BY <1>1, <1>5 DEF t, RsiAverages
    <2>2. \A g : Smoothed(g, 0) = 0 /\ Smoothed(g, 0 + 1) = 0
      <3>1. SUFFICES ASSUME NEW g PROVE Smoothed(g, 0) = 0 /\ Smoothed(g, 0 + 1) = 0
        OBVIOUS
      <3>2. Smoothed(g, 0) = 0
        BY DEF Smoothed
      <3>3. Smoothed(g, 1) = SumOf([k \in 2..1 |-> Share(k, 1) * g[k]], 2, 0)
        BY DEF Smoothed
      <3>4. 0 + 1 = 1
        OBVIOUS
      <3> QED BY <3>2, <3>3, <3>4, SumOfNone
    <2>3. Scale(0 + 1) = 1 /\ Scale(0) = 1
      BY <1>1, ScaleStep
    <2> QED BY <1>1, <1>4, <1>5, <2>1, <2>2, <2>3 DEF ds, t
  <1>6. CASE n # 0
    <2>1. n \in Nat \ {0} /\ n + 1 # 1 /\ n + 1 \in 2..(n + 1)
      BY <1>1, <1>6
    <2>2. Gains(ds)[n + 1] = Gain(ds, n + 1) /\ Losses(ds)[n + 1] = Loss(ds, n + 1)
      BY <1>1, <2>1 DEF Gains, Losses
    <2> DEFINE x == Gain(ds, n + 1)  y == Loss(ds, n + 1)
    <2>3. /\ Smoothed(Gains(ds), n + 1) = IF n + 1 <= p + 1 THEN kept.gain + x
                                          ELSE kept.gain * (p - 1) + x * kept.scale
          /\ Smoothed(Losses(ds), n + 1) = IF n + 1 <= p + 1 THEN kept.loss + y
                                           ELSE kept.loss * (p - 1) + y * kept.scale
      <3> HIDE DEF x, y
      <3> QED BY <1>2, <1>4, <2>1, <2>2, SmoothedStep DEF x, y
    <2> HIDE DEF x, y
    <2>4. CASE n + 1 <= p + 1
      <3> DEFINE scale == IF n + 1 = p + 1 THEN p ELSE kept.scale
      <3>1. t = [kept EXCEPT !.gain = @ + x, !.loss = @ + y, !.scale = scale]
        BY <1>1, <2>1, <2>4 DEF t, RsiAverages, x, y
      <3>2. scale = Scale(n + 1)
        BY <1>1, <1>4, <2>4, ScaleStep
      <3> HIDE DEF scale
      <3>3. /\ DOMAIN t = {"gain", "loss", "scale", "rsi", "prev"}
            /\ t.gain = kept.gain + x /\ t.loss = kept.loss + y /\ t.scale = scale
            /\ t.rsi = kept.rsi /\ t.prev = kept.prev
        BY <1>4, <3>1
      <3> QED BY <1>1, <1>4, <2>3, <2>4, <3>2, <3>3 DEF ds, t
    <2>5. CASE ~(n + 1 <= p + 1)
      <3>1. t = [kept EXCEPT !.gain = @ * (p - 1) + x * kept.scale,
                             !.loss = @ * (p - 1) + y * kept.scale,
                             !.scale = @ * p]
        BY <1>1, <2>1, <2>5 DEF t, RsiAverages, Smooth, x, y
      <3>2. kept.scale * p = Scale(n + 1)
        BY <1>1, <1>4, <2>5, ScaleStep
      <3>3. /\ DOMAIN t = {"gain", "loss", "scale", "rsi", "prev"}
            /\ t.gain = kept.gain * (p - 1) + x * kept.scale
            /\ t.loss = kept.loss * (p - 1) + y * kept.scale
            /\ t.scale = kept.scale * p
            /\ t.rsi = kept.rsi /\ t.prev = kept.prev
        BY <1>4, <3>1
      <3> QED BY <1>1, <1>4, <2>3, <2>5, <3>2, <3>3 DEF ds, t
    <2> QED BY <2>4, <2>5
  <1> QED BY <1>5, <1>6

\* An index is not below the one level and above the other.
LEMMA LevelsExclude ==
    ASSUME NEW gain \in Nat, NEW loss \in Nat
    PROVE  /\ ~(Below(Index(gain, loss), Oversold) /\ Above(Index(gain, loss), Overbought))
           /\ Index(gain, loss) # <<>>
  <1> DEFINE x == Index(gain, loss)
  <1>1. Oversold \in Nat /\ Overbought \in Nat /\ Oversold < Overbought /\ Oversold <= 99
    BY ParametersAssumption
  <1>2. CASE loss = 0
    BY <1>1, <1>2 DEF Index, Below, Above
  <1>3. CASE loss # 0
    <2>1. x[1] = 100 * gain /\ x[2] = gain + loss /\ x # <<>>
      BY <1>3 DEF Index
    <2> DEFINE a == 100 * gain  b == gain + loss
    <2>2. a \in Nat /\ b \in Nat
      OBVIOUS
    <2> HIDE DEF x, a, b
    <2>3. Oversold * b <= Overbought * b
      <3>1. b * Oversold <= b * Overbought
        BY <1>1, <2>2, ProductMonotone
      <3> QED BY <1>1, <2>2, <3>1
    <2>4. Oversold * b \in Nat /\ Overbought * b \in Nat
      BY <1>1, <2>2, ProductNat
    <2>5. ~(a < Oversold * b /\ a > Overbought * b)
      BY <2>2, <2>3, <2>4
    <2> QED BY <2>1, <2>5 DEF Below, Above, x, a, b
  <1> QED BY <1>2, <1>3

\* One close brings what is kept up to date, and raises the signal of the crossing.
LEMMA RsiStep ==
    ASSUME NEW cs \in Prices, NEW c \in Nat \ {0}, NEW kept, RsiKeeps(kept, cs)
    PROVE  LET ds == Append(cs, c)
               s  == RsiOnBar(kept, ds)
               signal == RsiSignal(s, ds)
           IN  /\ RsiKeeps(RsiRemember(s, ds), ds)
               /\ signal \in Signals
               /\ Len(ds) <= RsiPeriod + 1 => signal = "HOLD"
               /\ Len(ds) > RsiPeriod + 1 =>
                      /\ signal = "BUY" <=> RsiRises(ds, Len(ds))
                      /\ signal = "SELL" <=> RsiFalls(ds, Len(ds))
  <1> DEFINE ds == Append(cs, c)  n == Len(cs)  t == RsiAverages(kept, ds)
             s == RsiOnBar(kept, ds)  signal == RsiSignal(s, ds)  p == RsiPeriod
             u == RsiRemember(s, ds)
  <1>1. n \in Nat /\ Len(ds) = n + 1 /\ ds \in Prices /\ p \in Nat \ {0}
    BY Appended, WindowsArePositive
  <1>2. /\ DOMAIN t = {"gain", "loss", "scale", "rsi", "prev"}
        /\ t.gain = Smoothed(Gains(ds), n + 1)
        /\ t.loss = Smoothed(Losses(ds), n + 1)
        /\ t.scale = Scale(n + 1)
        /\ t.rsi = kept.rsi
        /\ t.prev = kept.rsi
    BY <1>1, AveragesStep
  <1>3. kept.rsi = IF n <= p THEN <<>> ELSE RsiOf(ds, n)
    <2>1. n \in 0..Len(cs)
      BY <1>1
    <2>2. RsiOf(ds, n) = RsiOf(cs, n)
      BY <2>1, RsiStays
    <2> QED BY <2>2 DEF RsiKeeps
  <1>4. s = IF n + 1 >= p + 1 THEN [t EXCEPT !.rsi = Index(t.gain, t.loss)] ELSE t
    BY <1>1 DEF RsiOnBar
  <1> HIDE DEF ds, n, t, s
  <1>5. Index(t.gain, t.loss) = RsiOf(ds, n + 1)
    BY <1>2 DEF RsiOf
  <1>6. /\ DOMAIN s = {"gain", "loss", "scale", "rsi", "prev"}
        /\ s.gain = t.gain /\ s.loss = t.loss /\ s.scale = t.scale
        /\ s.rsi = (IF n + 1 <= p THEN <<>> ELSE RsiOf(ds, n + 1))
        /\ s.prev = kept.rsi
    <2>1. CASE n + 1 >= p + 1
      <3>1. s = [t EXCEPT !.rsi = RsiOf(ds, n + 1)] /\ ~(n + 1 <= p)
        BY <1>1, <1>4, <1>5, <2>1
      <3> QED BY <1>2, <3>1
    <2>2. CASE ~(n + 1 >= p + 1)
      <3>1. s = t /\ n + 1 <= p /\ n <= p
        BY <1>1, <1>4, <2>2
      <3> QED BY <1>2, <1>3, <3>1
    <2> QED BY <2>1, <2>2
  <1>7. RsiKeeps(u, ds)
    <2>1. u = [s EXCEPT !.prev = s.rsi]
      BY DEF RsiRemember
    <2> HIDE DEF u
    <2>2. /\ DOMAIN u = {"gain", "loss", "scale", "rsi", "prev"}
          /\ u.gain = s.gain /\ u.loss = s.loss /\ u.scale = s.scale /\ u.rsi = s.rsi
          /\ u.prev = s.rsi
      BY <1>6, <2>1
    <2> QED BY <1>1, <1>2, <1>6, <2>2 DEF RsiKeeps
  <1>8. signal \in Signals
    BY DEF RsiSignal, Signals
  <1>9. ASSUME n + 1 <= p + 1 PROVE signal = "HOLD"
    <2>1. n <= p
      BY <1>1, <1>9
    <2> QED BY <1>3, <1>6, <2>1 DEF RsiSignal
  <1>10. ASSUME n + 1 > p + 1
         PROVE  /\ signal = "BUY" <=> RsiRises(ds, n + 1)
                /\ signal = "SELL" <=> RsiFalls(ds, n + 1)
    <2>1. ~(n <= p) /\ ~(n + 1 <= p) /\ (n + 1) - 1 = n
      BY <1>1, <1>10
    <2> DEFINE x == RsiOf(ds, n + 1)  y == RsiOf(ds, n)
    <2>2. s.rsi = x /\ s.prev = y
      BY <1>3, <1>6, <2>1
    <2>3. Changes(Gains(ds), n + 1) /\ Changes(Losses(ds), n + 1)
      BY <1>1, ChangesOfCloses
    <2>4. Changes(Gains(ds), n) /\ Changes(Losses(ds), n)
      BY <1>1, <2>3 DEF Changes
    <2>5. /\ Smoothed(Gains(ds), n + 1) \in Nat /\ Smoothed(Losses(ds), n + 1) \in Nat
          /\ Smoothed(Gains(ds), n) \in Nat /\ Smoothed(Losses(ds), n) \in Nat
      BY <1>1, <2>3, <2>4, SmoothedIsNat
    <2>6. ~(Below(x, Oversold) /\ Above(x, Overbought)) /\ x # <<>> /\ y # <<>>
      BY <2>5, LevelsExclude DEF RsiOf
    <2>7. /\ RsiRises(ds, n + 1) <=> Below(x, Oversold) /\ ~Below(y, Oversold)
          /\ RsiFalls(ds, n + 1) <=> Above(x, Overbought) /\ ~Above(y, Overbought)
      BY <2>1 DEF RsiRises, RsiFalls
    <2> HIDE DEF x, y
    <2>8. signal = IF Below(x, Oversold) /\ ~Below(y, Oversold) THEN "BUY"
                   ELSE IF Above(x, Overbought) /\ ~Above(y, Overbought) THEN "SELL"
                   ELSE "HOLD"
      BY <2>2, <2>6 DEF RsiSignal
    <2> HIDE DEF signal
    <2> QED BY <2>6, <2>7, <2>8
  <1> QED BY <1>1, <1>7, <1>8, <1>9, <1>10 DEF ds, n, s


-----------------------------------------------------------------------------
(* A run of a strategy                                                       *)

Keeps(id, s, cs) ==
    CASE id = "sma_crossover"   -> SmaKeeps(s, cs)
      [] id = "rsi"             -> RsiKeeps(s, cs)
      [] id = "bollinger_bands" -> BandKeeps(s, cs)

Rises(id, cs, i) ==
    CASE id = "sma_crossover"   -> SmaRises(cs, i)
      [] id = "rsi"             -> RsiRises(cs, i)
      [] id = "bollinger_bands" -> BandRises(cs, i)

Falls(id, cs, i) ==
    CASE id = "sma_crossover"   -> SmaFalls(cs, i)
      [] id = "rsi"             -> RsiFalls(cs, i)
      [] id = "bollinger_bands" -> BandFalls(cs, i)

\* The signal at the i-th close is the crossing that the indicators define there.
Right(signal, id, cs, i) ==
    IF i <= Warmup(id) THEN signal = "HOLD"
    ELSE (signal = "BUY" <=> Rises(id, cs, i)) /\ (signal = "SELL" <=> Falls(id, cs, i))

\* So it is for every strategy.
LEMMA StrategyStep ==
    ASSUME NEW id \in StrategyIds, NEW cs \in Prices, NEW c \in Nat \ {0},
           NEW kept, Keeps(id, kept, cs)
    PROVE  LET ds == Append(cs, c)
               s  == OnBar(id, kept, ds)
               signal == GenerateSignal(id, s, ds)
           IN  /\ Keeps(id, Remember(id, s, ds), ds)
               /\ signal \in Signals
               /\ Right(signal, id, ds, Len(ds))
  <1> DEFINE ds == Append(cs, c)  s == OnBar(id, kept, ds)  signal == GenerateSignal(id, s, ds)
             n == Len(ds)
  <1>1. n \in Nat /\ Warmup(id) \in Nat
    <2>1. n \in Nat
      BY Appended
    <2> HIDE DEF n
    <2> QED BY <2>1, WindowsArePositive DEF Warmup, StrategyIds
  <1>2. CASE id = "sma_crossover"
    <2>1. SmaKeeps(kept, cs) /\ s = SmaOnBar(kept, ds) /\ signal = SmaSignal(s, ds)
          /\ Warmup(id) = LongWindow
      BY <1>2 DEF Keeps, OnBar, GenerateSignal, Warmup
    <2>2. /\ SmaKeeps(SmaRemember(s, ds), ds)
          /\ signal \in Signals
          /\ n <= LongWindow => signal = "HOLD"
          /\ n > LongWindow =>
                 /\ signal = "BUY" <=> SmaRises(ds, n)
                 /\ signal = "SELL" <=> SmaFalls(ds, n)
      BY <2>1, SmaStep
    <2> HIDE DEF ds, s, signal, n
    <2> QED BY <1>1, <1>2, <2>1, <2>2 DEF Keeps, Remember, Right, Rises, Falls, ds, s, signal, n
  <1>3. CASE id = "rsi"
    <2>1. RsiKeeps(kept, cs) /\ s = RsiOnBar(kept, ds) /\ signal = RsiSignal(s, ds)
          /\ Warmup(id) = RsiPeriod + 1
      BY <1>3 DEF Keeps, OnBar, GenerateSignal, Warmup
    <2>2. /\ RsiKeeps(RsiRemember(s, ds), ds)
          /\ signal \in Signals
          /\ n <= RsiPeriod + 1 => signal = "HOLD"
          /\ n > RsiPeriod + 1 =>
                 /\ signal = "BUY" <=> RsiRises(ds, n)
                 /\ signal = "SELL" <=> RsiFalls(ds, n)
      BY <2>1, RsiStep
    <2> HIDE DEF ds, s, signal, n
    <2> QED BY <1>1, <1>3, <2>1, <2>2 DEF Keeps, Remember, Right, Rises, Falls, ds, s, signal, n
  <1>4. CASE id = "bollinger_bands"
    <2>1. BandKeeps(kept, cs) /\ s = BandOnBar(kept, ds) /\ signal = BandSignal(s, ds)
          /\ Warmup(id) = BandPeriod
      BY <1>4 DEF Keeps, OnBar, GenerateSignal, Warmup
    <2>2. /\ BandKeeps(BandRemember(s, ds), ds)
          /\ signal \in Signals
          /\ n <= BandPeriod => signal = "HOLD"
          /\ n > BandPeriod =>
                 /\ signal = "BUY" <=> BandRises(ds, n)
                 /\ signal = "SELL" <=> BandFalls(ds, n)
      BY <2>1, BandStep
    <2> HIDE DEF ds, s, signal, n
    <2> QED BY <1>1, <1>4, <2>1, <2>2 DEF Keeps, Remember, Right, Rises, Falls, ds, s, signal, n
  <1> QED BY <1>2, <1>3, <1>4 DEF StrategyIds

\* Another close changes nothing of the crossings before.
LEMMA CrossingsStay ==
    ASSUME NEW id \in StrategyIds, NEW cs \in Prices, NEW c \in Nat \ {0},
           NEW i \in 1..Len(cs), NEW signal, Right(signal, id, cs, i)
    PROVE  Right(signal, id, Append(cs, c), i)
  <1> DEFINE ds == Append(cs, c)  n == Len(cs)
  <1>1. n \in Nat /\ i \in 1..n
    BY Appended
  <1> HIDE DEF ds
  <1>2. CASE id = "sma_crossover" /\ ~(i <= Warmup(id))
    <2>1. i \in LongWindow..n /\ i - 1 \in LongWindow..n
      BY <1>1, <1>2, WindowsArePositive DEF Warmup
    <2> HIDE DEF n
    <2>2. Ahead(ds, i) = Ahead(cs, i) /\ Ahead(ds, i - 1) = Ahead(cs, i - 1)
      BY <2>1, AheadStays DEF ds, n
    <2>3. (SmaRises(ds, i) <=> SmaRises(cs, i)) /\ (SmaFalls(ds, i) <=> SmaFalls(cs, i))
      BY <2>2 DEF SmaRises, SmaFalls
    <2> QED BY <1>2, <2>3 DEF Right, Rises, Falls, ds
  <1>3. CASE id = "rsi" /\ ~(i <= Warmup(id))
    <2>1. i \in 0..n /\ i - 1 \in 0..n
      BY <1>1
    <2> HIDE DEF n
    <2>2. RsiOf(ds, i) = RsiOf(cs, i) /\ RsiOf(ds, i - 1) = RsiOf(cs, i - 1)
      BY <2>1, RsiStays DEF ds, n
    <2>3. (RsiRises(ds, i) <=> RsiRises(cs, i)) /\ (RsiFalls(ds, i) <=> RsiFalls(cs, i))
      BY <2>2 DEF RsiRises, RsiFalls
    <2> QED BY <1>3, <2>3 DEF Right, Rises, Falls, ds
  <1>4. CASE id = "bollinger_bands" /\ ~(i <= Warmup(id))
    <2>1. i \in (BandPeriod + 1)..n
      BY <1>1, <1>4, WindowsArePositive DEF Warmup
    <2>2. (BandRises(ds, i) <=> BandRises(cs, i)) /\ (BandFalls(ds, i) <=> BandFalls(cs, i))
      BY <2>1, BandStays DEF ds
    <2> QED BY <1>4, <2>2 DEF Right, Rises, Falls, ds
  <1>5. CASE i <= Warmup(id)
    BY <1>5 DEF Right
  <1> QED BY <1>2, <1>3, <1>4, <1>5 DEF StrategyIds

\* What the strategy keeps is what the closes so far make it, and every signal so far
\* was right.
BInv ==
    /\ strategy \in StrategyIds
    /\ bars \in Seq([quote : Quotes, signal : Signals])
    /\ closes \in Prices /\ Len(closes) = Len(bars)
    /\ Keeps(strategy, state, closes)
    /\ \A i \in 1..Len(bars) : Right(bars[i].signal, strategy, closes, i)

\* No close, nothing kept.
LEMMA NothingIsKept ==
    ASSUME NEW id \in StrategyIds PROVE Keeps(id, CreateState(id), <<>>)
  <1>1. Len(<<>>) = 0
    OBVIOUS
  <1>2. CASE id = "sma_crossover"
    <2>1. Rolling(<<>>, ShortWindow, 0) = 0 /\ Rolling(<<>>, LongWindow, 0) = 0
      BY WindowsArePositive, RollingStart
    <2>2. 0 < LongWindow
      BY WindowsArePositive
    <2>3. SmaKeeps(SmaState, <<>>)
      BY <1>1, <2>1, <2>2 DEF SmaKeeps, SmaState
    <2> QED BY <1>2, <2>3 DEF Keeps, CreateState
  <1>3. CASE id = "rsi"
    <2>1. \A g : Smoothed(g, 0) = 0
      BY DEF Smoothed
    <2>2. Scale(0) = 1 /\ 0 <= RsiPeriod
      BY WindowsArePositive DEF Scale
    <2>3. RsiKeeps(RsiState, <<>>)
      BY <1>1, <2>1, <2>2 DEF RsiKeeps, RsiState
    <2> QED BY <1>3, <2>3 DEF Keeps, CreateState
  <1>4. CASE id = "bollinger_bands"
    <2>1. Rolling(<<>>, BandPeriod, 0) = 0 /\ Rolling(Squares(<<>>), BandPeriod, 0) = 0
      BY WindowsArePositive, RollingStart
    <2>2. 0 < BandPeriod
      BY WindowsArePositive
    <2>3. BandKeeps(BandState, <<>>)
      BY <1>1, <2>1, <2>2 DEF BandKeeps, BandState
    <2> QED BY <1>4, <2>3 DEF Keeps, CreateState
  <1> QED BY <1>2, <1>3, <1>4 DEF StrategyIds

\* A bar keeps the invariant, and is a step of the engine.
LEMMA BacktestStep ==
    ASSUME BInv, [BacktestNext]_allVars PROVE BInv' /\ [Next]_vars
  <1>1. CASE UNCHANGED allVars
    <2>1. UNCHANGED <<strategy, bars, closes, state>> /\ UNCHANGED vars
      BY <1>1 DEF allVars, vars
    <2> QED BY <2>1 DEF BInv, Prices
  <1>2. CASE BacktestNext
    <2> DEFINE cs(q) == Append(closes, q.close)  s(q) == OnBar(strategy, state, cs(q))
    <2>1. PICK quote \in Quotes :
             /\ Bar(quote, GenerateSignal(strategy, s(quote), cs(quote)))
             /\ closes' = cs(quote)
             /\ state' = Remember(strategy, s(quote), cs(quote))
             /\ strategy' = strategy
      BY <1>2 DEF BacktestNext
    <2> DEFINE c == quote.close  ds == Append(closes, c)  t == OnBar(strategy, state, ds)
               signal == GenerateSignal(strategy, t, ds)  row == [quote |-> quote, signal |-> signal]
               n == Len(bars)
    <2>2. Bar(quote, signal) /\ closes' = ds /\ state' = Remember(strategy, t, ds)
          /\ strategy' = strategy
      BY <2>1
    <2>3. c \in Nat \ {0}
      BY QuotesAssumption
    <2>4. strategy \in StrategyIds /\ closes \in Prices /\ Keeps(strategy, state, closes)
          /\ Len(closes) = n /\ bars \in Seq([quote : Quotes, signal : Signals])
      BY DEF BInv
    <2> HIDE DEF c
    <2>5. Keeps(strategy, Remember(strategy, t, ds), ds) /\ signal \in Signals
          /\ Right(signal, strategy, ds, Len(ds))
      BY <2>3, <2>4, StrategyStep
    <2>6. ds \in Prices /\ Len(ds) = n + 1 /\ n \in Nat
      BY <2>3, <2>4, Appended
    <2>7. \A i \in 1..n : Right(bars[i].signal, strategy, ds, i)
      <3> SUFFICES ASSUME NEW i \in 1..n PROVE Right(bars[i].signal, strategy, ds, i)
        OBVIOUS
      <3>1. Right(bars[i].signal, strategy, closes, i) /\ i \in 1..Len(closes)
        BY <2>4 DEF BInv
      <3> QED BY <2>3, <2>4, <3>1, CrossingsStay
    <2> HIDE DEF ds, t, signal, n
    <2>8. bars' = Append(bars, row)
      BY <2>2 DEF Bar
    <2>9. /\ bars' \in Seq([quote : Quotes, signal : Signals])
          /\ Len(bars') = n + 1
          /\ bars'[n + 1] = row
          /\ \A i \in 1..n : bars'[i] = bars[i]
      BY <2>4, <2>5, <2>8 DEF n
    <2>10. ASSUME NEW i \in 1..Len(bars') PROVE Right(bars'[i].signal, strategy', closes', i)
      <3>1. CASE i = n + 1
        BY <2>2, <2>5, <2>6, <2>9, <3>1
      <3>2. CASE i # n + 1
        <4>1. i \in 1..n
          BY <2>6, <2>9, <3>2
        <4> QED BY <2>2, <2>7, <2>9, <4>1
      <3> QED BY <3>1, <3>2
    <2>11. BInv'
      BY <2>2, <2>4, <2>5, <2>6, <2>9, <2>10 DEF BInv
    <2>12. Next
      BY <2>2, <2>5 DEF Next
    <2> QED BY <2>11, <2>12
  <1> QED BY <1>1, <1>2

\* The invariant holds at every bar of every run of a strategy.
LEMMA SignalsAreRight == BacktestSpec => []BInv
  <1>1. BacktestInit => BInv
    <2> SUFFICES ASSUME BacktestInit PROVE BInv
      OBVIOUS
    <2>1. strategy \in StrategyIds /\ bars = <<>> /\ closes = <<>> /\ state = CreateState(strategy)
      BY DEF BacktestInit, Init
    <2>2. Keeps(strategy, state, <<>>)
      BY <2>1, NothingIsKept
    <2> QED BY <2>1, <2>2 DEF BInv, Prices
  <1> QED BY <1>1, BacktestStep, PTL DEF BacktestSpec

\* The strategies of the platform only ever do to the engine what any strategy may: what
\* holds of the engine holds of every run of theirs.
THEOREM StrategiesDriveTheEngine == BacktestSpec => Spec
  <1>1. BacktestInit => Init
    BY DEF BacktestInit
  <1>2. BInv /\ [BacktestNext]_allVars => [Next]_vars
    BY BacktestStep
  <1> QED BY <1>1, <1>2, SignalsAreRight, PTL DEF BacktestSpec, Spec

\* The signals of every run, of every strategy with every windows and levels it accepts,
\* on every market, are exactly the crossings of the indicators of all the closes so
\* far, and none comes before the warm-up is over.
THEOREM SignalsAlwaysCross == BacktestSpec => []SignalsAreCrossings
  <1>1. BInv => SignalsAreCrossings
    <2> SUFFICES ASSUME BInv PROVE SignalsAreCrossings
      OBVIOUS
    <2>1. /\ closes \in Prices /\ Len(closes) = Len(bars) /\ Len(bars) \in Nat
          /\ \A i \in 1..Len(bars) : Right(bars[i].signal, strategy, closes, i)
      BY DEF BInv
    <2>2. ASSUME NEW id \in StrategyIds, strategy = id, NEW i \in Beyond(id)
          PROVE  /\ i \in 1..Len(bars) /\ i > Warmup(id) /\ Warmup(id) \in Nat
                 /\ bars[i].signal = "BUY" <=> Rises(id, closes, i)
                 /\ bars[i].signal = "SELL" <=> Falls(id, closes, i)
      <3>1. Warmup(id) \in Nat
        BY WindowsArePositive DEF Warmup, StrategyIds
      <3>2. i \in 1..Len(bars) /\ i > Warmup(id) /\ ~(i <= Warmup(id))
        BY <2>1, <3>1 DEF Beyond
      <3> QED BY <2>1, <2>2, <3>1, <3>2 DEF Right
    <2>3. SmaCrosses
      <3> SUFFICES ASSUME strategy = "sma_crossover", NEW i \in Beyond("sma_crossover")
                   PROVE  LET lead(j) == Lead(SmaSum(ShortWindow, j), SmaSum(LongWindow, j))
                          IN  /\ Raised("sma_crossover", i, "BUY") <=> lead(i) > 0 /\ lead(i - 1) <= 0
                              /\ Raised("sma_crossover", i, "SELL") <=> lead(i) < 0 /\ lead(i - 1) >= 0
        BY DEF SmaCrosses
      <3>1. /\ bars[i].signal = "BUY" <=> SmaRises(closes, i)
            /\ bars[i].signal = "SELL" <=> SmaFalls(closes, i)
        BY <2>2 DEF StrategyIds, Rises, Falls
      <3> QED BY <3>1 DEF Raised, SmaRises, SmaFalls, Ahead, SmaSum, WindowSum
    <2>4. RsiCrosses
      <3> SUFFICES ASSUME strategy = "rsi", NEW i \in Beyond("rsi")
                   PROVE  /\ Raised("rsi", i, "BUY") <=>
                                 Below(RsiAt(i), Oversold) /\ ~Below(RsiAt(i - 1), Oversold)
                          /\ Raised("rsi", i, "SELL") <=>
                                 Above(RsiAt(i), Overbought) /\ ~Above(RsiAt(i - 1), Overbought)
        BY DEF RsiCrosses
      <3>1. /\ bars[i].signal = "BUY" <=> RsiRises(closes, i)
            /\ bars[i].signal = "SELL" <=> RsiFalls(closes, i)
            /\ i \in 1..Len(bars) /\ i > RsiPeriod + 1
        BY <2>2 DEF StrategyIds, Rises, Falls, Warmup
      <3>2. ASSUME NEW j \in 1..Len(bars), j >= RsiPeriod + 1
            PROVE  RsiAt(j) = RsiOf(closes, j)
        <4>1. ASSUME NEW k \in 2..j
              PROVE  /\ Share(k, j) = Weight(k, j)
                     /\ Gains(closes)[k] = Gain(closes, k) /\ Losses(closes)[k] = Loss(closes, k)
          <5>1. k \in 2..Len(closes)
            BY <2>1
          <5>2. Share(k, j) = Weight(k, j)
            BY <3>2, ShareIsWeight
          <5> QED BY <5>1, <5>2 DEF Gains, Losses
        <4>2. /\ [k \in 2..j |-> Weight(k, j) * Gain(closes, k)]
                   = [k \in 2..j |-> Share(k, j) * Gains(closes)[k]]
              /\ [k \in 2..j |-> Weight(k, j) * Loss(closes, k)]
                   = [k \in 2..j |-> Share(k, j) * Losses(closes)[k]]
          BY <4>1
        <4>3. j # 0
          OBVIOUS
        <4> QED BY <4>2, <4>3 DEF RsiAt, RsiOf, Smoothed
      <3>3. i - 1 \in 1..Len(bars) /\ i - 1 >= RsiPeriod + 1 /\ i >= RsiPeriod + 1
        BY <2>1, <3>1, WindowsArePositive
      <3>4. RsiAt(i) = RsiOf(closes, i) /\ RsiAt(i - 1) = RsiOf(closes, i - 1)
        BY <3>1, <3>2, <3>3
      <3> QED BY <3>1, <3>4 DEF Raised, RsiRises, RsiFalls
    <2>5. BandCrosses
      <3> SUFFICES ASSUME strategy = "bollinger_bands", NEW i \in Beyond("bollinger_bands")
                   PROVE  LET sum == SmaSum(BandPeriod, i)
                              below(j) == LET depth == sum - BandPeriod * closes[j]
                                          IN  /\ depth > 0
                                              /\ BandPeriod * depth * depth
                                                     > StdDev * StdDev * Deviation(i)
                          IN  /\ Raised("bollinger_bands", i, "BUY") <=> below(i) /\ ~below(i - 1)
                              /\ Raised("bollinger_bands", i, "SELL") <=>
                                     /\ AboveMiddle(closes[i], sum)
                                     /\ ~AboveMiddle(closes[i - 1], sum)
        BY DEF BandCrosses
      <3>1. /\ bars[i].signal = "BUY" <=> BandRises(closes, i)
            /\ bars[i].signal = "SELL" <=> BandFalls(closes, i)
        BY <2>2 DEF StrategyIds, Rises, Falls
      <3>2. Deviation(i) = Deviations(closes, i) /\ SmaSum(BandPeriod, i) = WindowSum(closes, BandPeriod, i)
        BY DEF Deviation, Deviations, SmaSum, WindowSum
      <3> QED BY <3>1, <3>2 DEF Raised, BandRises, BandFalls, Deep, High
    <2>6. QuietWarmup
      BY <2>1 DEF QuietWarmup, Right
    <2> QED BY <2>3, <2>4, <2>5, <2>6 DEF SignalsAreCrossings
  <1> QED BY <1>1, SignalsAreRight, PTL

\* The run of the engine that the platform makes keeps its books, fills at the next open
\* and is never refused by the schema.
THEOREM StrategiesKeepTheBooks ==
    BacktestSpec => [](RowsFitSchema /\ FilledAtNextOpen /\ PnlAddsUp)
  BY StrategiesDriveTheEngine, RowsAlwaysFit, NoLookAhead, PnlReconciles, PTL

-----------------------------------------------------------------------------
(* BacktestPersist: the inductive invariant                                  *)

InTransaction == {"begin", "commit"} \cup Parts

\* What has been inserted when a statement of the transaction is due.
Progress(r) ==
    /\ pc[r] \in {"begin", "backtests"} => open[r] = {}
    /\ pc[r] = "trades"    => open[r] = {"backtests"}
    /\ pc[r] = "metrics"   => open[r] = {"backtests", "trades"}
    /\ pc[r] = "strategy"  => open[r] = {"backtests", "trades", "metrics"}
    /\ pc[r] = "benchmark" => open[r] = {"backtests", "trades", "metrics", "strategy"}
    /\ pc[r] = "commit"    => open[r] = Parts

\* An open transaction holds the lock on its dataset, which is why the dataset is
\* still there when it commits.
Held(r) ==
    open[r] # {} => /\ pc[r] \in InTransaction \cup {"rollback"}
                    /\ "backtests" \in open[r]
                    /\ target[r] \in datasets

\* Places of a request that has not committed anything.
Early == {"idle", "findDataset", "columns", "compute", "connect"} \cup InTransaction

Kept(r) ==
    /\ stored[r] \in {{}, Parts}
    /\ stored[r] # {} => target[r] \in datasets
    /\ pc[r] \in Early => stored[r] = {}

Outside(r) ==
    /\ r \in clients => pc[r] \in InTransaction \cup {"summary", "rollback", "dropping"}
    /\ pc[r] = "over" <=> reply[r] # "none"
    /\ pc[r] = "idle" <=> target[r] = "none"

Replies == {"none", "saved", "null", "deleted", "refused", "error", "gone"}

Good(r) == Progress(r) /\ Held(r) /\ Kept(r) /\ Outside(r)

PersistInv == PersistTypeOK /\ \A r \in Requests : Good(r)

-----------------------------------------------------------------------------
(* The pool                                                                  *)

\* A set of clients is finite.
LEMMA ClientsFinite ==
    ASSUME clients \subseteq Requests
    PROVE  IsFiniteSet(clients) /\ Cardinality(clients) \in Nat
  BY RequestsAssumption, FS_Subset, FS_CardinalityType

\* Taking a client that is free does not exceed the pool.
LEMMA TakeFits ==
    ASSUME clients \subseteq Requests, NEW r \in Requests, Free
    PROVE  Cardinality(clients \cup {r}) <= PoolSize
  <1>1. IsFiniteSet(clients) /\ Cardinality(clients) \in Nat
    BY ClientsFinite
  <1>2. Cardinality(clients \cup {r})
            = IF r \in clients THEN Cardinality(clients) ELSE Cardinality(clients) + 1
    BY <1>1, FS_AddElement
  <1> QED BY <1>1, <1>2, PoolAssumption DEF Free

\* Giving one back does not either.
LEMMA GiveFits ==
    ASSUME clients \subseteq Requests, Cardinality(clients) <= PoolSize, NEW r \in Requests
    PROVE  Cardinality(clients \ {r}) <= PoolSize
  <1>1. IsFiniteSet(clients) /\ Cardinality(clients) \in Nat
    BY ClientsFinite
  <1>2. Cardinality(clients \ {r})
            = IF r \in clients THEN Cardinality(clients) - 1 ELSE Cardinality(clients)
    BY <1>1, FS_RemoveElement
  <1> QED BY <1>1, <1>2, PoolAssumption

\* Nobody holds a client at the start and after a crash.
LEMMA EmptyFits == Cardinality({}) <= PoolSize
  BY FS_EmptySet, PoolAssumption

-----------------------------------------------------------------------------
(* Initial states                                                            *)

LEMMA PersistInitInv == PersistInit => PersistInv
  <1> SUFFICES ASSUME PersistInit PROVE PersistInv
    OBVIOUS
  <1>1. PersistTypeOK
    BY EmptyFits DEF PersistInit, PersistTypeOK, Places
  <1>2. ASSUME NEW r \in Requests PROVE Good(r)
    BY DEF PersistInit, Good, Progress, Held, Kept, Outside, InTransaction, Parts
  <1> QED BY <1>1, <1>2 DEF PersistInv

-----------------------------------------------------------------------------
(* Steps of one request                                                      *)

\* A request that a step leaves alone stays good, if its dataset stays.
LEMMA Bystander ==
    ASSUME NEW q \in Requests, Good(q),
           pc'[q] = pc[q], reply'[q] = reply[q], target'[q] = target[q],
           open'[q] = open[q], stored'[q] = stored[q] \/ stored'[q] = {},
           q \in clients' => q \in clients,
           open[q] # {} \/ stored'[q] # {} => target[q] \in datasets'
    PROVE  Good(q)'
  <1>1. Progress(q)' /\ Outside(q)'
    BY DEF Good, Progress, Outside
  <1>2. Held(q)'
    BY DEF Good, Held
  <1>3. Kept(q)'
    BY DEF Good, Kept
  <1> QED BY <1>1, <1>2, <1>3 DEF Good

\* A step that changes the state of one request only.
OnlyOf(r) ==
    /\ pc' = [pc EXCEPT ![r] = pc'[r]]             /\ pc'[r] \in Places
    /\ reply' = [reply EXCEPT ![r] = reply'[r]]    /\ reply'[r] \in Replies
    /\ open' = [open EXCEPT ![r] = open'[r]]       /\ open'[r] \in SUBSET Parts
    /\ stored' = [stored EXCEPT ![r] = stored'[r]] /\ stored'[r] \in SUBSET Parts
    /\ target' = [target EXCEPT ![r] = target'[r]]
    /\ target'[r] \in Datasets \cup Requests \cup {"none"}
    /\ datasets' = datasets
    /\ clients' \subseteq clients \cup {r} /\ Cardinality(clients') <= PoolSize

\* It needs to be looked at for that request only.
LEMMA OneMoves ==
    ASSUME PersistInv, NEW r \in Requests, OnlyOf(r), Good(r)' PROVE PersistInv'
  <1>1. /\ pc \in [Requests -> Places] /\ clients \subseteq Requests /\ datasets \subseteq Datasets
        /\ open \in [Requests -> SUBSET Parts] /\ stored \in [Requests -> SUBSET Parts]
        /\ target \in [Requests -> Datasets \cup Requests \cup {"none"}]
        /\ reply \in [Requests -> Replies]
    BY DEF PersistInv, PersistTypeOK, Replies
  <1>2. PersistTypeOK'
    BY <1>1 DEF PersistTypeOK, OnlyOf, Replies
  <1>3. ASSUME NEW q \in Requests, q # r PROVE Good(q)'
    <2>1. Good(q)
      BY DEF PersistInv
    <2>2. pc'[q] = pc[q] /\ reply'[q] = reply[q] /\ target'[q] = target[q]
          /\ open'[q] = open[q] /\ stored'[q] = stored[q] /\ (q \in clients' => q \in clients)
      BY <1>1, <1>3 DEF OnlyOf
    <2>3. open[q] # {} \/ stored'[q] # {} => target[q] \in datasets'
      BY <2>1, <2>2 DEF Good, Held, Kept, OnlyOf
    <2> QED BY <2>1, <2>2, <2>3, Bystander
  <1> QED BY <1>2, <1>3 DEF PersistInv

\* A request that only moves, and is answered at most.
LEMMA OnlyMoves ==
    ASSUME PersistInv, NEW r \in Requests, NEW place \in Places, NEW a \in Replies,
           pc[r] \notin InTransaction \cup {"idle", "over"},
           place \notin InTransaction \cup {"idle"},
           place \in Early => pc[r] \in Early,
           open[r] = {} \/ place = "rollback",
           place = "over" <=> a # "none",
           clients' = clients \/ clients' = clients \ {r},
           r \in clients' => place \in {"summary", "rollback", "dropping"},
           pc' = [pc EXCEPT ![r] = place], reply' = [reply EXCEPT ![r] = a],
           UNCHANGED <<datasets, stored, open, target>>
    PROVE  PersistInv'
  <1>1. PersistTypeOK /\ Good(r)
    BY DEF PersistInv
  <1>2. pc'[r] = place /\ reply'[r] = a /\ open'[r] = open[r] /\ stored'[r] = stored[r]
        /\ target'[r] = target[r]
    BY <1>1 DEF PersistTypeOK
  <1>3. Cardinality(clients') <= PoolSize /\ clients' \subseteq clients \cup {r}
    BY <1>1, GiveFits DEF PersistTypeOK
  <1>4. OnlyOf(r)
    BY <1>1, <1>2, <1>3 DEF OnlyOf, PersistTypeOK, Replies
  <1>5. Progress(r)'
    BY <1>2 DEF Progress, InTransaction, Parts
  <1>6. Held(r)' /\ Kept(r)'
    BY <1>1, <1>2 DEF Good, Held, Kept
  <1>7. Outside(r)'
    BY <1>1, <1>2 DEF Good, Outside, InTransaction
  <1> QED BY <1>4, <1>5, <1>6, <1>7, OneMoves DEF Good

\* A new request is at no transaction, and knows its subject.
LEMMA StartKeeps ==
    ASSUME PersistInv, NEW r \in Requests, Start(r) PROVE PersistInv'
  <1>1. PersistTypeOK /\ Good(r)
    BY DEF PersistInv
  <1>2. /\ pc[r] = "idle" /\ target'[r] \in Datasets \cup Requests
        /\ pc'[r] \in {"findDataset", "findBacktest", "findForDelete"}
        /\ pc' = [pc EXCEPT ![r] = pc'[r]] /\ target' = [target EXCEPT ![r] = target'[r]]
        /\ UNCHANGED <<datasets, stored, open, clients, reply>>
    BY <1>1 DEF Start, StartCreate, StartDelete, StartDrop, GoTo, PersistTypeOK
  <1>3. OnlyOf(r)
    BY <1>1, <1>2 DEF OnlyOf, PersistTypeOK, Replies, Places, Querying
  <1>4. Progress(r)'
    BY <1>2 DEF Progress, Parts
  <1>5. Held(r)' /\ Kept(r)'
    BY <1>1, <1>2 DEF Good, Held, Kept, InTransaction, Parts, Early
  <1>6. Outside(r)'
    BY <1>1, <1>2, NamesAssumption DEF Good, Outside, InTransaction, Parts
  <1> QED BY <1>3, <1>4, <1>5, <1>6, OneMoves DEF Good

-----------------------------------------------------------------------------
(* createBacktest                                                            *)

\* Up to the transaction a request looks things up, or is refused.
LEMMA LookupKeeps ==
    ASSUME PersistInv, NEW r \in Requests, FindDataset(r) \/ ListColumns(r) \/ Compute(r)
    PROVE  PersistInv'
  <1> DEFINE place == pc'[r]  a == reply'[r]
  <1>1. PersistTypeOK /\ Good(r)
    BY DEF PersistInv
  <1>2. /\ pc[r] \in {"findDataset", "columns", "compute"}
        /\ \/ place \in {"columns", "compute", "connect"} /\ a = reply[r]
           \/ place = "over" /\ a = "refused"
        /\ pc' = [pc EXCEPT ![r] = place] /\ reply' = [reply EXCEPT ![r] = a]
        /\ UNCHANGED <<datasets, stored, open, clients, target>>
    BY <1>1 DEF FindDataset, ListColumns, Compute, GoTo, Answer, PersistTypeOK
  <1>3. open[r] = {} /\ r \notin clients /\ reply[r] = "none"
    BY <1>1, <1>2 DEF Good, Held, Outside, InTransaction, Parts
  <1> HIDE DEF place, a
  <1>4. place \in Places /\ a \in Replies
    BY <1>2, <1>3 DEF Places, Querying, Replies
  <1>5. /\ pc[r] \notin InTransaction \cup {"idle", "over"}
        /\ place \notin InTransaction \cup {"idle"}
        /\ place \in Early => pc[r] \in Early
        /\ place = "over" <=> a # "none"
    BY <1>2, <1>3 DEF InTransaction, Parts, Early
  <1> QED BY <1>2, <1>3, <1>4, <1>5, OnlyMoves

\* A client is taken from the pool, and the transaction begun.
LEMMA BeginKeeps ==
    ASSUME PersistInv, NEW r \in Requests, Connect(r) \/ BeginTransaction(r) PROVE PersistInv'
  <1>1. PersistTypeOK /\ Good(r)
    BY DEF PersistInv
  <1>2. /\ \/ pc[r] = "connect" /\ pc'[r] = "begin" /\ Free /\ clients' = clients \cup {r}
           \/ pc[r] = "begin" /\ pc'[r] = "backtests" /\ clients' = clients
        /\ pc' = [pc EXCEPT ![r] = pc'[r]]
        /\ UNCHANGED <<datasets, stored, open, target, reply>>
    BY <1>1 DEF Connect, BeginTransaction, GoTo, PersistTypeOK, Following
  <1>3. Cardinality(clients') <= PoolSize
    BY <1>1, <1>2, TakeFits DEF PersistTypeOK
  <1>4. OnlyOf(r)
    BY <1>1, <1>2, <1>3 DEF OnlyOf, PersistTypeOK, Replies, Places, Parts
  <1>5. open[r] = {}
    BY <1>1, <1>2 DEF Good, Progress, Held, InTransaction, Parts
  <1>6. Progress(r)' /\ Held(r)'
    BY <1>2, <1>5 DEF Progress, Held
  <1>7. Kept(r)' /\ Outside(r)'
    BY <1>1, <1>2 DEF Good, Kept, Outside, Early, InTransaction, Parts
  <1> QED BY <1>4, <1>6, <1>7, OneMoves DEF Good

\* Each INSERT adds its rows to the transaction; the first takes the lock.
LEMMA InsertKeeps ==
    ASSUME PersistInv, NEW r \in Requests, Insert(r) PROVE PersistInv'
  <1>1. PersistTypeOK /\ Good(r)
    BY DEF PersistInv
  <1>2. /\ pc[r] \in Parts /\ pc'[r] = Following[pc[r]]
        /\ pc[r] = "backtests" => target[r] \in datasets
        /\ open'[r] = open[r] \cup {pc[r]}
        /\ pc' = [pc EXCEPT ![r] = pc'[r]] /\ open' = [open EXCEPT ![r] = open'[r]]
        /\ UNCHANGED <<datasets, stored, clients, target, reply>>
    BY <1>1 DEF Insert, GoTo, PersistTypeOK
  <1>3. \/ pc[r] = "backtests" /\ pc'[r] = "trades"    /\ open'[r] = {"backtests"}
        \/ pc[r] = "trades"    /\ pc'[r] = "metrics"   /\ open'[r] = {"backtests", "trades"}
        \/ pc[r] = "metrics"   /\ pc'[r] = "strategy"
                               /\ open'[r] = {"backtests", "trades", "metrics"}
        \/ pc[r] = "strategy"  /\ pc'[r] = "benchmark"
                               /\ open'[r] = {"backtests", "trades", "metrics", "strategy"}
        \/ pc[r] = "benchmark" /\ pc'[r] = "commit"    /\ open'[r] = Parts
    <2>1. CASE pc[r] = "backtests"
      BY <1>1, <1>2, <2>1 DEF Good, Progress, Following
    <2>2. CASE pc[r] = "trades"
      BY <1>1, <1>2, <2>2 DEF Good, Progress, Following
    <2>3. CASE pc[r] = "metrics"
      BY <1>1, <1>2, <2>3 DEF Good, Progress, Following
    <2>4. CASE pc[r] = "strategy"
      BY <1>1, <1>2, <2>4 DEF Good, Progress, Following
    <2>5. CASE pc[r] = "benchmark"
      <3>1. open[r] = {"backtests", "trades", "metrics", "strategy"}
        BY <1>1, <2>5 DEF Good, Progress
      <3>2. open'[r] = Parts
        BY <1>2, <2>5, <3>1 DEF Parts
      <3> QED BY <1>2, <2>5, <3>2 DEF Following
    <2> QED BY <1>2, <2>1, <2>2, <2>3, <2>4, <2>5 DEF Parts
  <1>4. OnlyOf(r)
    BY <1>1, <1>2, <1>3 DEF OnlyOf, PersistTypeOK, Replies, Places, Parts
  <1>5. Progress(r)'
    BY <1>3 DEF Progress
  <1>6. Held(r)'
    <2>1. target[r] \in datasets
      BY <1>1, <1>2, <1>3 DEF Good, Progress, Held
    <2>2. "backtests" \in open'[r]
      BY <1>3 DEF Parts
    <2> QED BY <1>2, <1>3, <2>1, <2>2 DEF Held, InTransaction, Parts
  <1>7. Kept(r)'
    BY <1>1, <1>2, <1>3 DEF Good, Kept, Early, InTransaction, Parts
  <1>8. Outside(r)'
    BY <1>1, <1>2, <1>3 DEF Good, Outside, InTransaction, Parts
  <1> QED BY <1>4, <1>5, <1>6, <1>7, <1>8, OneMoves DEF Good

\* At COMMIT everything has been inserted, and the dataset is still there.
LEMMA CommitKeeps ==
    ASSUME PersistInv, NEW r \in Requests, pc[r] = "commit", Apply(r),
           pc'[r] \in {"summary", "rollback"}, pc' = [pc EXCEPT ![r] = pc'[r]],
           UNCHANGED <<datasets, clients, target, reply>>
    PROVE  PersistInv'
  <1>1. PersistTypeOK /\ Good(r)
    BY DEF PersistInv
  <1>2. open[r] = Parts /\ target[r] \in datasets
    BY <1>1 DEF Good, Progress, Held, Parts
  <1>3. /\ open'[r] = {} /\ stored'[r] = Parts
        /\ open' = [open EXCEPT ![r] = open'[r]] /\ stored' = [stored EXCEPT ![r] = stored'[r]]
    BY <1>1, <1>2 DEF Apply, PersistTypeOK
  <1>4. OnlyOf(r)
    BY <1>1, <1>3 DEF OnlyOf, PersistTypeOK, Replies, Places, Querying
  <1>5. Progress(r)' /\ Held(r)'
    BY <1>3 DEF Progress, Held, Parts
  <1>6. Kept(r)'
    BY <1>2, <1>3 DEF Kept, Early, InTransaction, Parts
  <1>7. Outside(r)'
    BY <1>1 DEF Good, Outside
  <1> QED BY <1>4, <1>5, <1>6, <1>7, OneMoves DEF Good

\* A statement that fails leads to the catch block, with or without effect.
LEMMA FailStatementKeeps ==
    ASSUME PersistInv, NEW r \in Requests, FailStatement(r) PROVE PersistInv'
  <1>1. PersistTypeOK /\ Good(r)
    BY DEF PersistInv
  <1>2. /\ pc[r] \in InTransaction /\ pc'[r] = "rollback" /\ pc' = [pc EXCEPT ![r] = pc'[r]]
        /\ UNCHANGED <<datasets, clients, target, reply>>
    BY <1>1 DEF FailStatement, GoTo, PersistTypeOK, InTransaction
  <1>3. CASE pc[r] = "commit" /\ Apply(r)
    BY <1>2, <1>3, CommitKeeps
  <1>4. CASE UNCHANGED <<stored, open>>
    <2>1. OnlyOf(r)
      BY <1>1, <1>2, <1>4 DEF OnlyOf, PersistTypeOK, Replies, Places
    <2>2. Progress(r)'
      BY <1>2 DEF Progress, Parts
    <2>3. Held(r)' /\ Kept(r)'
      BY <1>1, <1>2, <1>4 DEF Good, Held, Kept, Early
    <2>4. Outside(r)'
      BY <1>1, <1>2 DEF Good, Outside, InTransaction, Parts
    <2> QED BY <2>1, <2>2, <2>3, <2>4, OneMoves DEF Good
  <1> QED BY <1>3, <1>4 DEF FailStatement

\* The catch block ends the transaction before the client goes back.
LEMMA RollbackKeeps ==
    ASSUME PersistInv, NEW r \in Requests, Rollback(r) PROVE PersistInv'
  <1>1. PersistTypeOK /\ Good(r)
    BY DEF PersistInv
  <1>2. /\ pc[r] = "rollback" /\ pc'[r] = "over" /\ reply'[r] = "error"
        /\ pc' = [pc EXCEPT ![r] = pc'[r]] /\ reply' = [reply EXCEPT ![r] = reply'[r]]
        /\ open'[r] = {} /\ open' = [open EXCEPT ![r] = open'[r]]
        /\ clients' = clients \ {r}
        /\ UNCHANGED <<datasets, stored, target>>
    BY <1>1 DEF Rollback, Release, Answer, GoTo, PersistTypeOK
  <1>3. Cardinality(clients') <= PoolSize
    BY <1>1, <1>2, GiveFits DEF PersistTypeOK
  <1>4. OnlyOf(r)
    BY <1>1, <1>2, <1>3 DEF OnlyOf, PersistTypeOK, Replies, Places
  <1>5. Progress(r)' /\ Held(r)'
    BY <1>2 DEF Progress, Held, Parts
  <1>6. Kept(r)' /\ Outside(r)'
    BY <1>1, <1>2 DEF Good, Kept, Outside, Early, InTransaction, Parts
  <1> QED BY <1>4, <1>5, <1>6, OneMoves DEF Good

\* Reading back answers and gives the client back.
LEMMA ReadKeeps ==
    ASSUME PersistInv, NEW r \in Requests, ReadSummary(r) PROVE PersistInv'
  <1> DEFINE a == IF stored[r] # {} THEN "saved" ELSE "null"
  <1>1. PersistTypeOK /\ Good(r)
    BY DEF PersistInv
  <1>2. /\ pc[r] = "summary"
        /\ pc' = [pc EXCEPT ![r] = "over"] /\ reply' = [reply EXCEPT ![r] = a]
        /\ clients' = clients \ {r}
        /\ UNCHANGED <<datasets, stored, open, target>>
    BY DEF ReadSummary, Release, Answer, GoTo
  <1>3. open[r] = {}
    BY <1>1, <1>2 DEF Good, Held, InTransaction, Parts
  <1>4. a \in Replies /\ a # "none" /\ "over" \in Places
    BY DEF Replies, Places
  <1> HIDE DEF a
  <1>5. pc[r] \notin InTransaction \cup {"idle", "over"} /\ "over" \notin InTransaction \cup {"idle"}
        /\ "over" \notin Early /\ r \notin clients'
    BY <1>2 DEF InTransaction, Parts, Early
  <1> QED BY <1>2, <1>3, <1>4, <1>5, OnlyMoves

-----------------------------------------------------------------------------
(* Deletions                                                                 *)

\* Looking up what is to be deleted.
LEMMA FindKeeps ==
    ASSUME PersistInv, NEW r \in Requests, FindBacktest(r) \/ FindForDelete(r) PROVE PersistInv'
  <1> DEFINE place == pc'[r]  a == reply'[r]
  <1>1. PersistTypeOK /\ Good(r)
    BY DEF PersistInv
  <1>2. /\ pc[r] \in {"findBacktest", "findForDelete"}
        /\ \/ place \in {"deleteBacktest", "deleteDataset"} /\ a = reply[r]
           \/ place = "over" /\ a = "refused"
        /\ pc' = [pc EXCEPT ![r] = place] /\ reply' = [reply EXCEPT ![r] = a]
        /\ UNCHANGED <<datasets, stored, open, clients, target>>
    BY <1>1 DEF FindBacktest, FindForDelete, GoTo, Answer, PersistTypeOK
  <1>3. open[r] = {} /\ r \notin clients /\ reply[r] = "none"
    BY <1>1, <1>2 DEF Good, Held, Outside, InTransaction, Parts
  <1> HIDE DEF place, a
  <1>4. place \in Places /\ a \in Replies
    BY <1>2, <1>3 DEF Places, Querying, Replies
  <1>5. /\ pc[r] \notin InTransaction \cup {"idle", "over"}
        /\ place \notin InTransaction \cup {"idle"}
        /\ place \in Early => pc[r] \in Early
        /\ place = "over" <=> a # "none"
    BY <1>2, <1>3 DEF InTransaction, Parts, Early
  <1> QED BY <1>2, <1>3, <1>4, <1>5, OnlyMoves

\* The DELETE of a dataset takes a connection.
LEMMA SendKeeps ==
    ASSUME PersistInv, NEW r \in Requests, SendDrop(r) PROVE PersistInv'
  <1>1. PersistTypeOK /\ Good(r)
    BY DEF PersistInv
  <1>2. /\ pc[r] = "deleteDataset" /\ pc'[r] = "dropping" /\ pc' = [pc EXCEPT ![r] = pc'[r]]
        /\ Free /\ clients' = clients \cup {r}
        /\ UNCHANGED <<datasets, stored, open, target, reply>>
    BY <1>1 DEF SendDrop, GoTo, PersistTypeOK
  <1>3. Cardinality(clients') <= PoolSize
    BY <1>1, <1>2, TakeFits DEF PersistTypeOK
  <1>4. OnlyOf(r)
    BY <1>1, <1>2, <1>3 DEF OnlyOf, PersistTypeOK, Replies, Places
  <1>5. open[r] = {}
    BY <1>1, <1>2 DEF Good, Held, InTransaction, Parts
  <1>6. Progress(r)' /\ Held(r)'
    BY <1>2, <1>5 DEF Progress, Held, Parts
  <1>7. Kept(r)' /\ Outside(r)'
    BY <1>1, <1>2 DEF Good, Kept, Outside, Early, InTransaction, Parts
  <1> QED BY <1>4, <1>6, <1>7, OneMoves DEF Good

\* A request that ends, and takes the rows of some backtests away, or those of a
\* dataset with all of its backtests.
LEMMA RemovalKeeps ==
    ASSUME PersistInv, NEW r \in Requests, NEW a \in Replies \ {"none"},
           pc[r] \in {"deleteBacktest", "dropping"},
           pc' = [pc EXCEPT ![r] = "over"], reply' = [reply EXCEPT ![r] = a],
           clients' = clients \ {r}, UNCHANGED <<open, target>>,
           stored' \in [Requests -> SUBSET Parts], datasets' \subseteq datasets,
           \A q \in Requests : stored'[q] \in {{}, stored[q]},
           \A q \in Requests : open[q] # {} \/ stored'[q] # {} => target[q] \in datasets'
    PROVE  PersistInv'
  <1>1. PersistTypeOK
    BY DEF PersistInv
  <1>2. PersistTypeOK'
    <2>1. clients' \subseteq Requests /\ Cardinality(clients') <= PoolSize
      BY <1>1, GiveFits DEF PersistTypeOK
    <2> QED BY <1>1, <2>1 DEF PersistTypeOK, Replies, Places
  <1>3. Good(r)'
    <2>1. pc'[r] = "over" /\ reply'[r] = a /\ Good(r)
      BY <1>1 DEF PersistTypeOK, PersistInv
    <2>2. open[r] = {}
      BY <2>1 DEF Good, Held, InTransaction, Parts
    <2>3. Progress(r)' /\ Held(r)'
      BY <2>1, <2>2 DEF Progress, Held, Parts
    <2>4. Kept(r)'
      BY <2>1 DEF Good, Kept, Early, InTransaction, Parts
    <2>5. Outside(r)'
      BY <2>1 DEF Good, Outside
    <2> QED BY <2>3, <2>4, <2>5 DEF Good
  <1>4. ASSUME NEW q \in Requests, q # r PROVE Good(q)'
    <2>1. Good(q)
      BY DEF PersistInv
    <2>2. pc'[q] = pc[q] /\ reply'[q] = reply[q] /\ target'[q] = target[q] /\ open'[q] = open[q]
          /\ (stored'[q] = stored[q] \/ stored'[q] = {}) /\ (q \in clients' => q \in clients)
      BY <1>1, <1>4 DEF PersistTypeOK
    <2>3. open[q] # {} \/ stored'[q] # {} => target[q] \in datasets'
      OBVIOUS
    <2> QED BY <2>1, <2>2, <2>3, Bystander
  <1> QED BY <1>2, <1>3, <1>4 DEF PersistInv

\* A backtest goes with all its rows.
LEMMA RemoveBacktestKeeps ==
    ASSUME PersistInv, NEW r \in Requests, NEW a \in Replies \ {"none"}, pc[r] = "deleteBacktest",
           RemoveBacktest(target[r]), Answer(r, a), UNCHANGED <<datasets, open, clients, target>>
    PROVE  PersistInv'
  <1>1. PersistTypeOK /\ Good(r)
    BY DEF PersistInv
  <1>2. pc' = [pc EXCEPT ![r] = "over"] /\ reply' = [reply EXCEPT ![r] = a]
    BY DEF Answer, GoTo
  <1>3. clients' = clients \ {r}
    BY <1>1 DEF Good, Outside, InTransaction, Parts
  <1>4. /\ stored' \in [Requests -> SUBSET Parts]
        /\ \A q \in Requests : stored'[q] \in {{}, stored[q]}
    BY <1>1 DEF RemoveBacktest, PersistTypeOK
  <1>5. ASSUME NEW q \in Requests, open[q] # {} \/ stored'[q] # {} PROVE target[q] \in datasets'
    BY <1>4, <1>5 DEF PersistInv, Good, Held, Kept
  <1> QED BY <1>2, <1>3, <1>4, <1>5, RemovalKeeps

\* A dataset goes with all its backtests, and not while a transaction that has
\* inserted one holds it.
LEMMA RemoveDatasetKeeps ==
    ASSUME PersistInv, NEW r \in Requests, NEW a \in Replies \ {"none"}, pc[r] = "dropping",
           RemoveDataset(target[r]), Release(r, a), UNCHANGED <<open, target>>
    PROVE  PersistInv'
  <1>1. PersistTypeOK
    BY DEF PersistInv
  <1>2. /\ pc' = [pc EXCEPT ![r] = "over"] /\ reply' = [reply EXCEPT ![r] = a]
        /\ clients' = clients \ {r}
    BY DEF Release, Answer, GoTo
  <1>3. /\ stored' \in [Requests -> SUBSET Parts] /\ datasets' \subseteq datasets
        /\ \A q \in Requests : stored'[q] \in {{}, stored[q]}
    BY <1>1 DEF RemoveDataset, PersistTypeOK
  <1>4. ASSUME NEW q \in Requests, open[q] # {} \/ stored'[q] # {} PROVE target[q] \in datasets'
    <2>1. target[q] \in datasets
      BY <1>3, <1>4 DEF PersistInv, Good, Held, Kept
    <2>2. CASE open[q] # {}
      BY <2>1, <2>2 DEF PersistInv, Good, Held, RemoveDataset, Locked
    <2>3. CASE stored'[q] # {}
      BY <2>1, <2>3 DEF RemoveDataset
    <2> QED BY <1>4, <2>2, <2>3
  <1> QED BY <1>2, <1>3, <1>4, RemovalKeeps

-----------------------------------------------------------------------------
(* Failures                                                                  *)

\* A query that throws ends its request, or leads to the catch block.
LEMMA ThrowKeeps ==
    ASSUME PersistInv, NEW r \in Requests, pc[r] \in Querying, Throw(r),
           UNCHANGED <<datasets, stored, open, clients, target>>
    PROVE  PersistInv'
  <1> DEFINE place == pc'[r]  a == reply'[r]
  <1>1. PersistTypeOK /\ Good(r)
    BY DEF PersistInv
  <1>2. /\ \/ pc[r] = "summary" /\ place = "rollback" /\ a = reply[r]
           \/ pc[r] # "summary" /\ place = "over" /\ a = "error"
        /\ pc' = [pc EXCEPT ![r] = place] /\ reply' = [reply EXCEPT ![r] = a]
    BY <1>1 DEF Throw, GoTo, Answer, PersistTypeOK
  <1>3. open[r] = {} /\ (r \in clients => pc[r] = "summary") /\ reply[r] = "none"
    BY <1>1 DEF Good, Held, Outside, InTransaction, Parts, Querying
  <1> HIDE DEF place, a
  <1>4. place \in Places /\ a \in Replies
    BY <1>2, <1>3 DEF Places, Replies
  <1>5. /\ pc[r] \notin InTransaction \cup {"idle", "over"}
        /\ place \notin InTransaction \cup {"idle"}
        /\ place \notin Early
        /\ place = "over" <=> a # "none"
    BY <1>2, <1>3 DEF InTransaction, Parts, Early, Querying
  <1> QED BY <1>2, <1>3, <1>4, <1>5, OnlyMoves

\* Failures keep the invariant, with or without effect.
LEMMA FailKeeps ==
    ASSUME PersistInv, NEW r \in Requests, Fail(r) PROVE PersistInv'
  <1>1. CASE FailStatement(r)
    BY <1>1, FailStatementKeeps
  <1>2. CASE TimeOut(r)
    BY <1>2, ThrowKeeps DEF TimeOut
  <1>3. CASE FailQuery(r)
    <2>1. CASE UNCHANGED stored
      BY <1>3, <2>1, ThrowKeeps DEF FailQuery
    <2>2. CASE pc[r] = "deleteBacktest" /\ RemoveBacktest(target[r])
      <3>1. Answer(r, "error") /\ UNCHANGED <<datasets, open, clients, target>>
        BY <1>3, <2>2 DEF FailQuery, Throw
      <3>2. "error" \in Replies \ {"none"}
        BY DEF Replies
      <3> QED BY <2>2, <3>1, <3>2, RemoveBacktestKeeps
    <2> QED BY <1>3, <2>1, <2>2 DEF FailQuery
  <1>4. CASE FailDrop(r)
    <2>1. pc[r] = "dropping" /\ Release(r, "error") /\ UNCHANGED <<open, target>>
      BY <1>4 DEF FailDrop
    <2>2. "error" \in Replies \ {"none"}
      BY DEF Replies
    <2>3. CASE RemoveDataset(target[r])
      BY <2>1, <2>2, <2>3, RemoveDatasetKeeps
    <2>4. CASE UNCHANGED <<datasets, stored>>
      <3>1. PersistTypeOK /\ Good(r)
        BY DEF PersistInv
      <3>2. open[r] = {} /\ r \notin clients'
        BY <2>1, <3>1 DEF Good, Held, InTransaction, Parts, Release
      <3>3. "over" \in Places /\ "over" \notin Early /\ "over" \notin InTransaction \cup {"idle"}
            /\ pc[r] \notin InTransaction \cup {"idle", "over"}
        BY <2>1 DEF Places, Early, InTransaction, Parts
      <3> QED BY <2>1, <2>2, <2>4, <3>2, <3>3, OnlyMoves DEF Release, Answer, GoTo
    <2> QED BY <1>4, <2>3, <2>4 DEF FailDrop
  <1> QED BY <1>1, <1>2, <1>3, <1>4 DEF Fail

\* After a crash nothing is open and nothing is held.
LEMMA CrashKeeps == ASSUME PersistInv, Crash PROVE PersistInv'
  <1>1. PersistTypeOK
    BY DEF PersistInv
  <1>2. PersistTypeOK'
    BY <1>1, EmptyFits DEF Crash, PersistTypeOK, Places
  <1>3. ASSUME NEW q \in Requests PROVE Good(q)'
    <2>1. Good(q) /\ open'[q] = {} /\ clients' = {} /\ stored' = stored /\ target' = target
          /\ datasets' = datasets
      BY DEF PersistInv, Crash
    <2>2. pc'[q] = IF pc[q] = "idle" THEN "idle" ELSE "over"
      BY DEF Crash
    <2>3. reply'[q] = IF pc[q] \in {"idle", "over"} THEN reply[q] ELSE "gone"
      BY DEF Crash
    <2>4. Progress(q)' /\ Held(q)'
      BY <2>1, <2>2 DEF Progress, Held, Parts
    <2>5. Kept(q)'
      BY <2>1, <2>2 DEF Good, Kept, Early, InTransaction, Parts
    <2>6. Outside(q)'
      BY <2>1, <2>2, <2>3 DEF Good, Outside
    <2> QED BY <2>4, <2>5, <2>6 DEF Good
  <1> QED BY <1>2, <1>3 DEF PersistInv

-----------------------------------------------------------------------------
(* The invariant, and what it gives                                          *)

\* Every step keeps the invariant.
LEMMA StepKeeps == PersistInv /\ [PersistNext]_persistVars => PersistInv'
  <1> SUFFICES ASSUME PersistInv, [PersistNext]_persistVars PROVE PersistInv'
    OBVIOUS
  <1>1. ASSUME NEW r \in Requests, Create(r) PROVE PersistInv'
    <2>1. CASE FindDataset(r) \/ ListColumns(r) \/ Compute(r)
      BY <2>1, LookupKeeps
    <2>2. CASE Connect(r) \/ BeginTransaction(r)
      BY <2>2, BeginKeeps
    <2>3. CASE Insert(r)
      BY <2>3, InsertKeeps
    <2>4. CASE Commit(r)
      <3>1. PersistTypeOK
        BY DEF PersistInv
      <3>2. /\ pc[r] = "commit" /\ Apply(r) /\ pc'[r] = "summary"
            /\ pc' = [pc EXCEPT ![r] = pc'[r]]
            /\ UNCHANGED <<datasets, clients, target, reply>>
        BY <2>4, <3>1 DEF Commit, GoTo, PersistTypeOK
      <3> QED BY <3>2, CommitKeeps
    <2>5. CASE ReadSummary(r)
      BY <2>5, ReadKeeps
    <2>6. CASE Rollback(r)
      BY <2>6, RollbackKeeps
    <2> QED BY <1>1, <2>1, <2>2, <2>3, <2>4, <2>5, <2>6 DEF Create
  <1>2. ASSUME NEW r \in Requests, Delete(r) PROVE PersistInv'
    <2>1. CASE FindBacktest(r) \/ FindForDelete(r)
      BY <2>1, FindKeeps
    <2>2. CASE SendDrop(r)
      BY <2>2, SendKeeps
    <2>3. "deleted" \in Replies \ {"none"}
      BY DEF Replies
    <2>4. CASE DeleteBacktest(r)
      BY <2>3, <2>4, RemoveBacktestKeeps DEF DeleteBacktest
    <2>5. CASE DropDataset(r)
      BY <2>3, <2>5, RemoveDatasetKeeps DEF DropDataset
    <2> QED BY <1>2, <2>1, <2>2, <2>4, <2>5 DEF Delete
  <1>3. CASE UNCHANGED persistVars
    <2>1. PersistTypeOK'
      BY <1>3 DEF PersistInv, PersistTypeOK, persistVars
    <2>2. ASSUME NEW q \in Requests PROVE Good(q)'
      BY <1>3 DEF PersistInv, Good, Progress, Held, Kept, Outside, persistVars
    <2> QED BY <2>1, <2>2 DEF PersistInv
  <1> QED BY <1>1, <1>2, <1>3, StartKeeps, FailKeeps, CrashKeeps DEF PersistNext

\* The invariant holds in every reachable state, with any number of requests,
\* datasets and connections, and any failures.
THEOREM PersistInvariant == PersistSpec => []PersistInv
  BY PersistInitInv, StepKeeps, PTL DEF PersistSpec

\* Every reachable state is well typed, and the pool is never exceeded.
THEOREM PersistTypeCorrect == PersistSpec => []PersistTypeOK
  <1>1. PersistInv => PersistTypeOK
    BY DEF PersistInv
  <1> QED BY <1>1, PersistInvariant, PTL

\* Runs are saved whole, whatever fails and however requests interleave.
THEOREM RunsAreWhole == PersistSpec => []WholeOrNothing
  <1>1. PersistInv => WholeOrNothing
    BY DEF PersistInv, Good, Kept, WholeOrNothing
  <1> QED BY <1>1, PersistInvariant, PTL

\* No backtest is left without its dataset.
THEOREM RunsAlwaysHaveData == PersistSpec => []RunsHaveData
  <1>1. PersistInv => RunsHaveData
    BY DEF PersistInv, Good, Kept, RunsHaveData, Saved
  <1> QED BY <1>1, PersistInvariant, PTL

\* A backtest that is there is whole and has its dataset, for any number of requests,
\* datasets and connections, whatever fails.
THEOREM RunsAreAlwaysSound == PersistSpec => []RunsAreSound
  <1>1. WholeOrNothing /\ RunsHaveData => RunsAreSound
    BY DEF RunsAreSound
  <1> QED BY <1>1, RunsAreWhole, RunsAlwaysHaveData, PTL

\* Whatever way a request ends, its client and its transaction have ended before.
THEOREM RequestsEndCleanly == PersistSpec => []EndsCleanly
  <1>1. PersistInv => EndsCleanly
    BY DEF PersistInv, Good, Held, Outside, EndsCleanly, InTransaction, Parts
  <1> QED BY <1>1, PersistInvariant, PTL

-----------------------------------------------------------------------------
(* The ledger                                                                *)

Owed == {r \in Requests : pc[r] = "summary"}

\* The parts of the ledger's state a step may leave as they are.
Stutter == UNCHANGED <<datasets, Saved, target, Owed, reply>>

\* Saved and owed of a step that stores nothing and does not touch the summary.
LEMMA SameSaved == ASSUME stored' = stored PROVE Saved' = Saved
  BY DEF Saved

LEMMA SameOwed ==
    ASSUME PersistTypeOK, NEW r \in Requests, NEW place, pc[r] # "summary", place # "summary",
           pc' = [pc EXCEPT ![r] = place]
    PROVE  Owed' = Owed
  BY DEF Owed, PersistTypeOK

\* A step that only moves a request is none of the ledger's.
LEMMA MoveIsStutter ==
    ASSUME PersistInv, NEW r \in Requests, NEW place, pc[r] # "summary", place # "summary",
           pc' = [pc EXCEPT ![r] = place], UNCHANGED <<datasets, stored, target, reply>>
    PROVE  Stutter
  BY SameSaved, SameOwed DEF PersistInv, Stutter

\* An answer of one that has not saved is a denial.
LEMMA AnswerIsDeny ==
    ASSUME PersistInv, NEW r \in Requests, NEW a \in {"refused", "error"},
           pc[r] \notin {"idle", "summary", "over"},
           Answer(r, a), UNCHANGED <<datasets, stored, target>>
    PROVE  Ledger!Deny(r)
  <1>1. reply[r] = "none"
    BY DEF PersistInv, Good, Outside
  <1>2. Owed' = Owed /\ r \notin Owed
    BY SameOwed DEF PersistInv, Answer, GoTo, Owed
  <1>3. reply' = [reply EXCEPT ![r] = a] /\ Saved' = Saved
    BY SameSaved DEF Answer
  <1> QED BY <1>1, <1>2, <1>3 DEF Ledger!Deny, Owed

\* Asking.
LEMMA StartIsAsk ==
    ASSUME PersistInv, NEW r \in Requests, Start(r)
    PROVE  \E subject \in Datasets \cup Requests : Ledger!Ask(r, subject)
  <1>1. PersistTypeOK /\ Good(r)
    BY DEF PersistInv
  <1>2. /\ pc[r] = "idle" /\ UNCHANGED <<datasets, stored, reply>>
        /\ \E place \in {"findDataset", "findBacktest", "findForDelete"} :
               pc' = [pc EXCEPT ![r] = place]
        /\ \E subject \in Datasets \cup Requests : target' = [target EXCEPT ![r] = subject]
    BY DEF Start, StartCreate, StartDelete, StartDrop, GoTo
  <1>3. Owed' = Owed /\ Saved' = Saved
    BY <1>1, <1>2, SameOwed, SameSaved
  <1>4. target[r] = "none"
    BY <1>1, <1>2 DEF Good, Outside
  <1> QED BY <1>2, <1>3, <1>4 DEF Ledger!Ask, Owed

\* A COMMIT that takes effect saves the run, whether or not it is heard of.
LEMMA CommitIsSave ==
    ASSUME PersistInv, NEW r \in Requests, pc[r] = "commit", Apply(r),
           NEW place \in {"summary", "rollback"}, pc' = [pc EXCEPT ![r] = place],
           UNCHANGED <<datasets, clients, target, reply>>
    PROVE  Ledger!Save(r)
  <1>1. PersistTypeOK /\ Good(r)
    BY DEF PersistInv
  <1>2. open[r] = Parts /\ target[r] \in datasets /\ reply[r] = "none" /\ stored[r] = {}
    BY <1>1 DEF Good, Progress, Held, Kept, Outside, Parts, Early, InTransaction
  <1>3. stored' = [stored EXCEPT ![r] = Parts] /\ Parts # {}
    BY <1>2 DEF Apply, Parts
  <1>4. Saved' = Saved \cup {r} /\ r \notin Saved
    BY <1>1, <1>2, <1>3 DEF Saved, PersistTypeOK
  <1>5. Owed' \in {Owed, Owed \cup {r}} /\ r \notin Owed
    <2>1. r \notin Owed
      BY DEF Owed
    <2>2. CASE place = "summary"
      <3>1. Owed' = Owed \cup {r}
        BY <1>1, <2>2 DEF Owed, PersistTypeOK
      <3> QED BY <2>1, <3>1
    <2>3. CASE place = "rollback"
      BY <1>1, <2>1, <2>3, SameOwed
    <2> QED BY <2>2, <2>3
  <1> QED BY <1>2, <1>4, <1>5 DEF Ledger!Save, Owed

\* Leaving the summary: confirmed, or forgotten.
LEMMA OwedLeaves ==
    ASSUME PersistInv, NEW r \in Requests, NEW place, pc[r] = "summary", place # "summary",
           pc' = [pc EXCEPT ![r] = place]
    PROVE  r \in Owed /\ Owed' = Owed \ {r}
  BY DEF PersistInv, PersistTypeOK, Owed

LEMMA ReadIsConfirm ==
    ASSUME PersistInv, NEW r \in Requests, ReadSummary(r) PROVE Ledger!Confirm(r)
  <1>1. /\ pc[r] = "summary" /\ pc' = [pc EXCEPT ![r] = "over"]
        /\ reply' = [reply EXCEPT ![r] = IF stored[r] # {} THEN "saved" ELSE "null"]
        /\ UNCHANGED <<datasets, stored, target>>
    BY DEF ReadSummary, Release, Answer, GoTo
  <1>2. r \in Owed /\ Owed' = Owed \ {r} /\ Saved' = Saved
    BY <1>1, OwedLeaves, SameSaved
  <1>3. stored[r] # {} <=> r \in Saved
    BY DEF Saved
  <1> QED BY <1>1, <1>2, <1>3 DEF Ledger!Confirm, Owed

\* A deletion that takes effect.
LEMMA RemovalIsDelete ==
    ASSUME PersistInv, NEW r \in Requests, NEW a \in {"deleted", "error"},
           pc[r] \in {"deleteBacktest", "dropping"}, Answer(r, a), UNCHANGED target,
           \/ RemoveBacktest(target[r]) /\ UNCHANGED datasets
           \/ RemoveDataset(target[r])
    PROVE  Ledger!Delete(r)
  <1>1. PersistTypeOK /\ Good(r)
    BY DEF PersistInv
  <1>2. reply[r] = "none" /\ reply' = [reply EXCEPT ![r] = a]
    BY <1>1 DEF Good, Outside, Answer
  <1>3. Owed' = Owed
    BY <1>1, SameOwed DEF Answer, GoTo
  <1>4. CASE RemoveBacktest(target[r]) /\ UNCHANGED datasets
    <2>1. Saved' = Saved \ {target[r]}
      BY <1>1, <1>4 DEF RemoveBacktest, Saved, PersistTypeOK
    <2> QED BY <1>2, <1>3, <1>4, <2>1 DEF Ledger!Delete, Owed
  <1>5. CASE RemoveDataset(target[r])
    <2>1. datasets' = datasets \ {target[r]}
      BY <1>5 DEF RemoveDataset
    <2>2. Saved' = {b \in Saved : target[b] # target[r]}
      BY <1>5 DEF RemoveDataset, Saved
    <2> QED BY <1>2, <1>3, <2>1, <2>2 DEF Ledger!Delete, Owed
  <1> QED BY <1>4, <1>5

\* A failure: nothing, a denial, a forgotten answer, or an effect without one.
LEMMA FailInLedger ==
    ASSUME PersistInv, NEW r \in Requests, Fail(r)
    PROVE  Stutter \/ Ledger!Save(r) \/ Ledger!Forget(r) \/ Ledger!Deny(r) \/ Ledger!Delete(r)
  <1>1. CASE FailStatement(r)
    <2>1. /\ pc[r] \in InTransaction /\ pc' = [pc EXCEPT ![r] = "rollback"]
          /\ UNCHANGED <<datasets, clients, target, reply>>
      BY <1>1 DEF FailStatement, GoTo, InTransaction
    <2>2. CASE pc[r] = "commit" /\ Apply(r)
      BY <2>1, <2>2, CommitIsSave
    <2>3. CASE UNCHANGED <<stored, open>>
      BY <2>1, <2>3, MoveIsStutter DEF InTransaction, Parts
    <2> QED BY <1>1, <2>2, <2>3 DEF FailStatement
  <1>2. ASSUME pc[r] \in Querying, Throw(r), UNCHANGED <<datasets, stored, target>>
        PROVE  Ledger!Forget(r) \/ Ledger!Deny(r)
    <2>1. CASE pc[r] = "summary"
      <3>1. pc' = [pc EXCEPT ![r] = "rollback"] /\ reply' = reply
        BY <1>2, <2>1 DEF Throw, GoTo
      <3>2. r \in Owed /\ Owed' = Owed \ {r} /\ Saved' = Saved
        BY <1>2, <2>1, <3>1, OwedLeaves, SameSaved
      <3> QED BY <1>2, <3>1, <3>2 DEF Ledger!Forget, Owed
    <2>2. CASE pc[r] # "summary"
      <3>1. Answer(r, "error") /\ pc[r] \notin {"idle", "summary", "over"}
        BY <1>2, <2>2 DEF Throw, Querying
      <3> QED BY <1>2, <3>1, AnswerIsDeny
    <2> QED BY <2>1, <2>2
  <1>3. CASE TimeOut(r)
    BY <1>2, <1>3 DEF TimeOut
  <1>4. CASE FailQuery(r)
    <2>1. CASE UNCHANGED stored
      BY <1>2, <1>4, <2>1 DEF FailQuery
    <2>2. CASE pc[r] = "deleteBacktest" /\ RemoveBacktest(target[r])
      <3>1. Answer(r, "error") /\ UNCHANGED <<datasets, target>>
        BY <1>4, <2>2 DEF FailQuery, Throw
      <3> QED BY <2>2, <3>1, RemovalIsDelete
    <2> QED BY <1>4, <2>1, <2>2 DEF FailQuery
  <1>5. CASE FailDrop(r)
    <2>1. pc[r] = "dropping" /\ Answer(r, "error") /\ UNCHANGED target
      BY <1>5 DEF FailDrop, Release
    <2>2. CASE RemoveDataset(target[r])
      BY <2>1, <2>2, RemovalIsDelete
    <2>3. CASE UNCHANGED <<datasets, stored>>
      BY <2>1, <2>3, AnswerIsDeny
    <2> QED BY <1>5, <2>2, <2>3 DEF FailDrop
  <1> QED BY <1>1, <1>3, <1>4, <1>5 DEF Fail

\* A step of createBacktest.
LEMMA CreateInLedger ==
    ASSUME PersistInv, NEW r \in Requests, Create(r)
    PROVE  Stutter \/ Ledger!Save(r) \/ Ledger!Confirm(r) \/ Ledger!Deny(r)
  <1>1. CASE FindDataset(r) \/ ListColumns(r) \/ Compute(r)
    <2>1. /\ pc[r] \notin {"idle", "summary", "over"} /\ UNCHANGED <<datasets, stored, target>>
          /\ \/ /\ \E place \in {"columns", "compute", "connect"} : pc' = [pc EXCEPT ![r] = place]
                /\ UNCHANGED reply
             \/ Answer(r, "refused")
      BY <1>1 DEF FindDataset, ListColumns, Compute, GoTo
    <2> QED BY <2>1, MoveIsStutter, AnswerIsDeny
  <1>2. CASE Connect(r) \/ BeginTransaction(r) \/ Insert(r)
    <2>1. /\ pc[r] # "summary" /\ UNCHANGED <<datasets, stored, target, reply>>
          /\ \E place : place # "summary" /\ pc' = [pc EXCEPT ![r] = place]
      BY <1>2 DEF Connect, BeginTransaction, Insert, GoTo, Following, Parts
    <2> QED BY <2>1, MoveIsStutter
  <1>3. CASE Commit(r)
    BY <1>3, CommitIsSave DEF Commit, GoTo
  <1>4. CASE ReadSummary(r)
    BY <1>4, ReadIsConfirm
  <1>5. CASE Rollback(r)
    BY <1>5, AnswerIsDeny DEF Rollback, Release
  <1> QED BY <1>1, <1>2, <1>3, <1>4, <1>5 DEF Create

\* A step of a deletion.
LEMMA DeleteInLedger ==
    ASSUME PersistInv, NEW r \in Requests, Delete(r)
    PROVE  Stutter \/ Ledger!Deny(r) \/ Ledger!Delete(r)
  <1>1. CASE FindBacktest(r) \/ FindForDelete(r)
    <2>1. /\ pc[r] \notin {"idle", "summary", "over"} /\ UNCHANGED <<datasets, stored, target>>
          /\ \/ /\ \E place \in {"deleteBacktest", "deleteDataset"} : pc' = [pc EXCEPT ![r] = place]
                /\ UNCHANGED reply
             \/ Answer(r, "refused")
      BY <1>1 DEF FindBacktest, FindForDelete, GoTo
    <2> QED BY <2>1, MoveIsStutter, AnswerIsDeny
  <1>2. CASE SendDrop(r)
    BY <1>2, MoveIsStutter DEF SendDrop, GoTo
  <1>3. CASE DeleteBacktest(r)
    BY <1>3, RemovalIsDelete DEF DeleteBacktest
  <1>4. CASE DropDataset(r)
    BY <1>4, RemovalIsDelete DEF DropDataset, Release
  <1> QED BY <1>1, <1>2, <1>3, <1>4 DEF Delete

\* A crash.
LEMMA CrashInLedger == ASSUME PersistInv, Crash PROVE Ledger!Crash
  <1>1. Owed' = {}
    BY DEF Crash, Owed
  <1>2. Saved' = Saved
    BY SameSaved DEF Crash
  <1>3. ASSUME NEW r \in Requests
        PROVE  (pc[r] \in {"idle", "over"}) <=> ~(reply[r] = "none" /\ target[r] # "none")
    BY DEF PersistInv, Good, Outside
  <1>4. reply' = [r \in Requests |->
                     IF reply[r] = "none" /\ target[r] # "none" THEN "gone" ELSE reply[r]]
    BY <1>3 DEF Crash
  <1> QED BY <1>1, <1>2, <1>4 DEF Crash, Ledger!Crash, Owed

\* The handlers implement the safety part of the ledger.
THEOREM ImplementsLedgerSafely == PersistSpec => Ledger!Spec
  <1>1. PersistInit => Ledger!Init
    <2> SUFFICES ASSUME PersistInit PROVE Ledger!Init
      OBVIOUS
    <2>1. Saved = {} /\ Owed = {}
      BY DEF PersistInit, Saved, Owed
    <2> QED BY <2>1 DEF PersistInit, Ledger!Init, Owed
  <1>2. PersistInv /\ [PersistNext]_persistVars => [Ledger!Next]_(Ledger!vars)
    <2> SUFFICES ASSUME PersistInv, [PersistNext]_persistVars PROVE Ledger!Next \/ Stutter
      BY DEF Ledger!vars, Stutter, Owed
    <2>1. ASSUME NEW r \in Requests, Start(r) PROVE Ledger!Next
      BY <2>1, StartIsAsk DEF Ledger!Next
    <2>2. ASSUME NEW r \in Requests, Create(r) PROVE Ledger!Next \/ Stutter
      BY <2>2, CreateInLedger DEF Ledger!Next
    <2>3. ASSUME NEW r \in Requests, Delete(r) PROVE Ledger!Next \/ Stutter
      BY <2>3, DeleteInLedger DEF Ledger!Next
    <2>4. ASSUME NEW r \in Requests, Fail(r) PROVE Ledger!Next \/ Stutter
      BY <2>4, FailInLedger DEF Ledger!Next
    <2>5. CASE Crash
      BY <2>5, CrashInLedger DEF Ledger!Next
    <2>6. CASE UNCHANGED persistVars
      BY <2>6 DEF persistVars, Stutter, Saved, Owed
    <2> QED BY <2>1, <2>2, <2>3, <2>4, <2>5, <2>6 DEF PersistNext
  <1> QED BY <1>1, <1>2, PersistInvariant, PTL DEF PersistSpec, Ledger!Spec
=============================================================================
