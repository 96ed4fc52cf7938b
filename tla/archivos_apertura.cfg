SPECIFICATION FairSpecA
CONSTANTS
  p1 = p1
  p2 = p2
  p3 = p3
  f1 = f1
  f2 = f2
  Nadie = Nadie
  Procesos = {p1, p2, p3}
  Recursos = {}
  Instancias <- SinRecursos
  Grado = 3
  Algoritmo = "FIFO"
  MaxInstancias = 0
  MaxReady = 3
  MaxPermisos = 3
  MaxOperaciones = 3
  NombresDeArchivo = {f1}
  Usa <- UsanTodo
  OperacionesES = {}
  PuedeFallar = FALSE
  CierranAlSalir = TRUE
CHECK_DEADLOCK FALSE
INVARIANT ArchivoExclusivo
PROPERTY BloqueadoVuelve
