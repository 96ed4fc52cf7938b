SPECIFICATION FairSpec
CONSTANTS
  p1 = p1
  p2 = p2
  p3 = p3
  p4 = p4
  r1 = r1
  r2 = r2
  Nadie = Nadie
  Procesos = {p1, p2, p3, p4}
  Recursos = {r1}
  Instancias <- UnaInstancia
  Grado = 3
  Algoritmo = "FIFO"
  MaxInstancias = 1
  MaxReady = 4
CHECK_DEADLOCK FALSE
INVARIANT GradoRespetado
INVARIANT UnSoloEstado
PROPERTY FinDefinitivo
PROPERTY EsperaEnOrden
PROPERTY ListoEjecuta
PROPERTY ImplementaCiclo
