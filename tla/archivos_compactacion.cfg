SPECIFICATION FairSpecP
CONSTANTS
  p1 = p1
  p2 = p2
  p3 = p3
  f1 = f1
  f2 = f2
  Nadie = Nadie
  Procesos = {p1, p2, p3}
  Recursos = {}
  Instancias <- SinRecursos
  Grado = 3
  Algoritmo = "FIFO"
  MaxInstancias = 0
  MaxReady = 3
  MaxPermisos = 3
  MaxOperaciones = 3
  MaxEspera = 2
  NombresDeArchivo = {f1, f2}
  Usa <- DosComparten
  OperacionesES = {"F_WRITE", "F_TRUNCATE"}
  PuedeFallar = TRUE
  CierranAlSalir = FALSE
  CreanSegmentos = {p3}
CHECK_DEADLOCK FALSE
INVARIANT UnSoloEstadoA
INVARIANT OperacionesContadas
INVARIANT PermisosDeArchivo
INVARIANT CPUExclusiva
INVARIANT EsperaLaOperacion
PROPERTY EsperaTermina
