CONSTANTS
  Harts = {h1, h2}
  BootHart = h1
  Contexts = {h1, h2}
  NDevs = 2
  HandlerPcs = {"uart_avail", "uart_read", "uart_lock", "uart_insert", "eth_new", "eth_copy", "eth_rx", "eth_ack"}
  UartIrq = 0
  EthIrq = 1
  MaxChars = 3
  MaxPackets = 3
  FifoSize = 2
  MaxWrites = 2
  MaxCount = 4
  MaxSent = 3
SPECIFICATION MCSpec
INVARIANTS
  TypeOK
  RxInOrder
  TxInOrder
PROPERTIES
  RxServed
CHECK_DEADLOCK FALSE
