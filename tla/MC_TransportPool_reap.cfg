CONSTANTS
  Threads = {t1}
  Keys = {k1}
  Conns = {c1, c2}
  NoConn = NoConn
  Nobody = Nobody
  MaxCalls = 2
SPECIFICATION Spec
PROPERTY ReaperSparesBusy
