SPECIFICATION SharedSpec
CONSTANTS
  Writer = {w1, w2}
  Event = {e1, e2}
  Key = {k1}
  None = None
  Scrap = Scrap
  MaxLog = 3
  MaxAnchors = 1
  MaxTamper = 2
  MaxConfig = 1
  MaxTorn = 2
  Thread = {"t1", "t2"}
  Machine = {"h1", "h2"}
  MaxConns = 2
INVARIANTS ChainHolds NoSilentLoss HonestLogVerifies SignedLogIsGenuine AnchorsHold OnePerHost NothingLeft
SYMMETRY Alike
CHECK_DEADLOCK FALSE
